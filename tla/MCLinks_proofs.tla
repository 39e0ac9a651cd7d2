---------------------------- MODULE MCLinks_proofs ----------------------------
(* Proofs about the ways to a device, for every value of the constants: who has a *)
(* connection, and which request an answer is of.                                  *)
EXTENDS MCLinks, FiniteSetTheorems, SequenceTheorems, WellFoundedInduction, TLAPS

\* A set of numbers that is not empty has a least one: induction, for what is a set.
LEMMA Least ==
    ASSUME NEW S, S \subseteq Nat, S # {}
    PROVE  \E m \in S : \A k \in S : m <= k
<1> DEFINE R == OpToRel(<, Nat)
<1>1. IsWellFoundedOn(R, Nat)
  BY NatLessThanWellFounded
<1>2. \A k \in Nat, m \in Nat : k < m => <<k, m>> \in R
  BY DEF OpToRel
<1> HIDE DEF R
<1>3. \E m \in S : \A k \in S : ~ (<<k, m>> \in R)
  BY <1>1, WFMin
<1>4. \A k \in Nat, m \in Nat : ~(k < m) => m <= k
  OBVIOUS
<1> QED BY <1>2, <1>3, <1>4

\* A set of numbers to which 0 belongs, and with a number the next one up to the bound, has all.
LEMMA Upwards ==
    ASSUME NEW n \in Nat, NEW S, 0 \in S, \A i \in 0..n : i \in S /\ i < n => i + 1 \in S
    PROVE  \A i \in 0..n : i \in S
<1> DEFINE M == (0..n) \ S
<1>1. ASSUME M # {}  PROVE FALSE
  <2>1. M \subseteq Nat
    OBVIOUS
  <2> HIDE DEF M
  <2>2. PICK m \in M : \A k \in M : m <= k
    BY <1>1, <2>1, Least
  <2>3. m \in 0..n /\ m \notin S /\ m # 0
    BY DEF M
  <2>4. m - 1 \in 0..n /\ m - 1 \notin M /\ m - 1 < n /\ (m - 1) + 1 = m
    BY <2>2, <2>3
  <2>5. m - 1 \in S
    BY <2>4 DEF M
  <2> QED BY <2>3, <2>4, <2>5
<1> QED BY <1>1

-----------------------------------------------------------------------------
(* Usbmux: the inductive invariant.                                            *)

Asking == [state : {"idle", "waiting", "timedOut", "resolved", "rejected"}, tag : Nat,
           kind : {"none"} \cup U!Kinds, serial : Nat, got : Nat]
MuxState == [tag : Nat, callbacks : [U!Tags -> Client \cup {Nobody}], attached : BOOLEAN,
             unread : Nat, owner : Client \cup {Nobody}, received : Nat, swallowed : Nat,
             open : BOOLEAN]
Asked == [tag : U!Tags, kind : U!Kinds, serial : Nat]
Muxd == [requests : SUBSET Asked, serial : Nat, connected : BOOLEAN, sent : Nat]
Result == [kind : U!Kinds, tag : U!Tags, serial : Nat, ok : {"ok", "refused"}]
Data == [kind : {"data"}, n : Nat]

MuxTyped(a, m, d, q) ==
    /\ a \in [Client -> Asking] /\ m \in MuxState /\ d \in Muxd /\ q \in Seq(Result \cup Data)

\* Tags are serial numbers: the table, the requests at the daemon and the answers agree on
\* whose request has which.
Tagged(a, m, d, q) ==
    /\ m.tag = d.serial /\ d.serial <= MaxRequests
    /\ \A r \in d.requests : r.tag = r.serial
    /\ \A i \in 1..Len(q) : q[i] \in Result => q[i].tag = q[i].serial
    /\ \A t \in U!Tags : m.callbacks[t] # Nobody =>
           /\ a[m.callbacks[t]].state = "waiting"
           /\ a[m.callbacks[t]].tag = t /\ a[m.callbacks[t]].serial = t
    /\ \A c \in Client : a[c].state = "waiting" => a[c].tag \in U!Tags
    /\ \A c \in Client : a[c].state \in {"resolved", "rejected"} => a[c].got = a[c].serial

IsConnect(item) == item \in Result /\ item.kind = "connect" /\ item.ok = "ok"

\* Before the answer to the Connect that succeeds there are answers only, after it data only.
TurnsAt(q, k) ==
    /\ IsConnect(q[k])
    /\ \A i \in 1..Len(q) : i < k => q[i] \in Result /\ ~IsConnect(q[i])
    /\ \A i \in 1..Len(q) : i > k => q[i] \in Data

\* The socket is a stream of answers until it is one of data, all of which was read or is there.
Turned(m, d, q) ==
    /\ m.attached <=> m.owner = Nobody
    /\ ~d.connected => /\ d.sent = 0 /\ m.received = 0 /\ m.swallowed = 0 /\ m.owner = Nobody
                       /\ \A i \in 1..Len(q) : q[i] \in Result /\ ~IsConnect(q[i])
    /\ d.connected =>
         \/ /\ \A i \in 1..Len(q) : q[i] \in Data
            /\ m.received + m.swallowed + Len(q) = d.sent
         \/ /\ m.received = 0 /\ m.swallowed = 0 /\ m.owner = Nobody
            /\ \E k \in 1..Len(q) : TurnsAt(q, k) /\ Len(q) - k = d.sent

MuxGood(a, m, d, q) == MuxTyped(a, m, d, q) /\ Tagged(a, m, d, q) /\ Turned(m, d, q)
MuxInv == MuxGood(asks, mux, usbmuxd, inbound)

-----------------------------------------------------------------------------
(* Usbmux: the steps.                                                          *)

\* What follows the first item of the socket is as it was.
LEMMA TailTurned ==
    ASSUME NEW q \in Seq(Result \cup Data), q # <<>>
    PROVE  /\ Tail(q) \in Seq(Result \cup Data) /\ Len(Tail(q)) = Len(q) - 1 /\ Len(Tail(q)) \in Nat
           /\ \A i \in 1..Len(Tail(q)) : i + 1 \in 1..Len(q) /\ Tail(q)[i] = q[i + 1]
           /\ Head(q) = q[1] /\ Len(q) >= 1
  BY HeadTailProperties

\* _handleData keeps it, with the item it takes off the socket.
LEMMA HandleKeeps ==
    ASSUME NEW a, NEW m, NEW d, NEW q, MuxGood(a, m, d, q), q # <<>>,
           NEW s, s = U!HandleData([asks |-> a, mux |-> m], q[1])
    PROVE  MuxGood(s.asks, s.mux, d, Tail(q))
<1> DEFINE item == q[1]
<1>0. q \in Seq(Result \cup Data) /\ m \in MuxState /\ a \in [Client -> Asking] /\ d \in Muxd
  BY DEF MuxGood, MuxTyped
<1>1. /\ Tail(q) \in Seq(Result \cup Data) /\ Len(Tail(q)) = Len(q) - 1 /\ Len(Tail(q)) \in Nat
      /\ \A i \in 1..Len(Tail(q)) : i + 1 \in 1..Len(q) /\ Tail(q)[i] = q[i + 1]
      /\ Len(q) >= 1 /\ Len(q) \in Nat
  BY <1>0, TailTurned
<1>2. item \in Result \cup Data
  BY <1>0, <1>1
<1>3. \A x \in Data : x.kind = "data" /\ x \notin Result
  BY DEF Data, Result, U!Kinds
<1>4. \A x \in Result : x.kind # "data" /\ x.tag \in U!Tags /\ x.serial \in Nat
  BY DEF Result, U!Kinds
<1>5. \A i \in 1..Len(Tail(q)) : Tail(q)[i] \in Result => Tail(q)[i].tag = Tail(q)[i].serial
  BY <1>1 DEF MuxGood, Tagged
<1>6. m.attached \in BOOLEAN /\ m.owner \in Client \cup {Nobody} /\ m.received \in Nat /\ m.swallowed \in Nat
      /\ d.connected \in BOOLEAN /\ d.sent \in Nat /\ \A t \in U!Tags : m.callbacks[t] \in Client \cup {Nobody}
  BY <1>0 DEF MuxState, Muxd
<1>7. \A e \in MuxState : /\ e.attached = m.attached /\ e.owner = m.owner
                          /\ e.received = m.received /\ e.swallowed = m.swallowed
                          /\ item \in Result /\ (IsConnect(item) => m.owner = Nobody)
                          => Turned(e, d, Tail(q))
  <2> TAKE e \in MuxState
  <2> HAVE /\ e.attached = m.attached /\ e.owner = m.owner
           /\ e.received = m.received /\ e.swallowed = m.swallowed
           /\ item \in Result /\ (IsConnect(item) => m.owner = Nobody)
  <2>1. CASE ~d.connected
    BY <1>1, <2>1 DEF MuxGood, Turned
  <2>2. ASSUME d.connected, NEW k \in 1..Len(q), TurnsAt(q, k), Len(q) - k = d.sent,
               m.received = 0, m.swallowed = 0, m.owner = Nobody
        PROVE  Turned(e, d, Tail(q))
    <3>1. CASE k = 1
      <4>1. \A i \in 1..Len(Tail(q)) : Tail(q)[i] \in Data
        BY <1>1, <2>2, <3>1 DEF TurnsAt
      <4> QED BY <1>1, <1>6, <2>2, <3>1, <4>1 DEF MuxGood, Turned
    <3>2. CASE k # 1
      <4>1. k - 1 \in 1..Len(Tail(q))
        BY <1>1, <3>2
      <4>2. TurnsAt(Tail(q), k - 1)
        BY <1>1, <2>2, <3>2, <4>1 DEF TurnsAt
      <4>3. Len(Tail(q)) - (k - 1) = d.sent
        BY <1>1, <2>2
      <4> QED BY <2>2, <4>1, <4>2, <4>3 DEF MuxGood, Turned
    <3> QED BY <3>1, <3>2
  <2>3. ~(\A i \in 1..Len(q) : q[i] \in Data)
    BY <1>1, <1>3 DEF item
  <2> QED BY <1>6, <2>1, <2>2, <2>3 DEF MuxGood, Turned
<1>8. MuxTyped(a, m, d, Tail(q)) /\ Tagged(a, m, d, Tail(q))
  BY <1>0, <1>1, <1>5 DEF MuxGood, MuxTyped, Tagged
<1>9. CASE item.kind = "data"
  <2>1. item \in Data
    BY <1>2, <1>4, <1>9
  <2>2. d.connected /\ \A i \in 1..Len(q) : q[i] \in Data
    BY <1>1, <1>3, <2>1 DEF MuxGood, Turned, TurnsAt, IsConnect, item
  <2> DEFINE e == [m EXCEPT !.swallowed = @ + 1]
  <2>3. e \in MuxState /\ e.tag = m.tag /\ e.callbacks = m.callbacks /\ e.attached = m.attached
        /\ e.owner = m.owner /\ e.received = m.received /\ e.swallowed = m.swallowed + 1
    BY <1>0 DEF MuxState
  <2>4. s.asks = a /\ s.mux = e
    BY <1>9 DEF U!HandleData, item
  <2> HIDE DEF e
  <2>5. m.received + m.swallowed + Len(q) = d.sent
    BY <1>1, <1>3, <2>2 DEF MuxGood, Turned, TurnsAt, IsConnect
  <2>6. \A i \in 1..Len(Tail(q)) : Tail(q)[i] \in Data
    BY <1>1, <2>2
  <2>7. Turned(e, d, Tail(q))
    BY <1>1, <1>6, <2>2, <2>3, <2>5, <2>6 DEF MuxGood, Turned
  <2>8. MuxTyped(a, e, d, Tail(q)) /\ Tagged(a, e, d, Tail(q))
    BY <1>8, <2>3 DEF MuxTyped, Tagged
  <2> QED BY <2>4, <2>7, <2>8 DEF MuxGood
<1>10. CASE item.kind # "data"
  <2>1. item \in Result /\ item.tag \in U!Tags /\ item.serial \in Nat /\ item.tag = item.serial
    BY <1>1, <1>2, <1>3, <1>4, <1>10 DEF MuxGood, Tagged, item
  <2>2. m.attached /\ m.owner = Nobody
    BY <1>1, <1>3, <1>6, <2>1 DEF MuxGood, Turned, item
  <2> DEFINE c == m.callbacks[item.tag]
  <2>3. CASE c = Nobody
    <3>1. s.asks = a /\ s.mux = m
      BY <1>10, <2>2, <2>3 DEF U!HandleData, item
    <3> QED BY <1>0, <1>7, <1>8, <2>1, <2>2, <3>1 DEF MuxGood
  <2>4. CASE c # Nobody
    <3> DEFINE e == [m EXCEPT !.callbacks[item.tag] = Nobody]
               b == [a EXCEPT ![c].got = item.serial,
                              ![c].state = IF item.ok = "ok" THEN "resolved" ELSE "rejected"]
    <3>1. /\ c \in Client /\ a[c] \in Asking /\ a[c].state = "waiting" /\ a[c].tag = item.tag
          /\ a[c].serial = item.tag
      BY <1>0, <1>6, <2>1, <2>4 DEF MuxGood, Tagged
    <3>2. e \in MuxState /\ e.tag = m.tag /\ e.attached = m.attached
          /\ e.owner = m.owner /\ e.received = m.received /\ e.swallowed = m.swallowed
          /\ e.callbacks[item.tag] = Nobody
          /\ \A t \in U!Tags : t # item.tag => e.callbacks[t] = m.callbacks[t]
      BY <1>0, <2>1 DEF MuxState
    <3>3. /\ b \in [Client -> Asking] /\ \A o \in Client : o # c => b[o] = a[o]
          /\ b[c].state \in {"resolved", "rejected"} /\ b[c].got = item.serial /\ b[c].serial = item.tag
      <4> DEFINE r == [a[c] EXCEPT !.got = item.serial,
                              !.state = IF item.ok = "ok" THEN "resolved" ELSE "rejected"]
      <4>1. r \in Asking /\ r.state \in {"resolved", "rejected"} /\ r.got = item.serial /\ r.serial = a[c].serial
        BY <2>1, <3>1 DEF Asking
      <4>2. b = [a EXCEPT ![c] = r]
        BY <1>0, <3>1
      <4> HIDE DEF r, b
      <4> QED BY <1>0, <3>1, <4>1, <4>2
    <3>4. s.asks = b /\ s.mux = IF item.kind = "connect" /\ item.ok = "ok" THEN U!Detach(e, c) ELSE e
      BY <1>10, <2>2, <2>4 DEF U!HandleData, U!Forget, item
    <3> HIDE DEF b, e
    <3>5. \A f \in MuxState : f.tag = e.tag /\ f.callbacks = e.callbacks =>
             MuxTyped(b, f, d, Tail(q)) /\ Tagged(b, f, d, Tail(q))
      <4> TAKE f \in MuxState
      <4> HAVE f.tag = e.tag /\ f.callbacks = e.callbacks
      <4>1. \A t \in U!Tags : f.callbacks[t] # Nobody =>
               f.callbacks[t] = m.callbacks[t] /\ f.callbacks[t] # c /\ f.callbacks[t] \in Client
        <5> TAKE t \in U!Tags
        <5> HAVE f.callbacks[t] # Nobody
        <5>1. t # item.tag /\ f.callbacks[t] = m.callbacks[t]
          BY <3>2
        <5>2. a[m.callbacks[t]].tag = t /\ m.callbacks[t] \in Client
          BY <1>6, <5>1 DEF MuxGood, Tagged
        <5> QED BY <3>1, <5>1, <5>2
      <4>2. \A t \in U!Tags : f.callbacks[t] # Nobody =>
              b[f.callbacks[t]].state = "waiting" /\ b[f.callbacks[t]].tag = t /\ b[f.callbacks[t]].serial = t
        BY <3>3, <4>1 DEF MuxGood, Tagged
      <4>3. \A o \in Client : /\ b[o].state = "waiting" => b[o].tag \in U!Tags
                              /\ b[o].state \in {"resolved", "rejected"} => b[o].got = b[o].serial
        <5> TAKE o \in Client
        <5>1. CASE o = c
          BY <2>1, <3>3, <5>1
        <5>2. CASE o # c
          BY <3>3, <5>2 DEF MuxGood, Tagged
        <5> QED BY <5>1, <5>2
      <4>4. f.tag = m.tag
        BY <3>2
      <4> QED BY <1>8, <3>3, <4>2, <4>3, <4>4 DEF MuxTyped, Tagged
    <3>6. CASE item.kind = "connect" /\ item.ok = "ok"
      <4> DEFINE f == U!Detach(e, c)
      <4>1. f \in MuxState /\ f.tag = e.tag /\ f.callbacks = e.callbacks /\ f.owner = c /\ ~f.attached
            /\ f.received = m.received /\ f.swallowed = m.swallowed
        BY <3>1, <3>2 DEF U!Detach, MuxState
      <4>2. s.mux = f
        BY <3>4, <3>6
      <4> HIDE DEF f
      <4>3. IsConnect(q[1])
        BY <2>1, <3>6 DEF IsConnect, item
      <4>4. d.connected /\ m.received = 0 /\ m.swallowed = 0 /\ TurnsAt(q, 1) /\ Len(q) - 1 = d.sent
        BY <1>1, <1>3, <4>3 DEF MuxGood, Turned, TurnsAt, IsConnect
      <4>5. \A i \in 1..Len(Tail(q)) : Tail(q)[i] \in Data
        BY <1>1, <4>4 DEF TurnsAt
      <4>6. Turned(f, d, Tail(q))
        BY <1>1, <1>6, <2>4, <4>1, <4>4, <4>5 DEF Turned
      <4> QED BY <3>4, <3>5, <4>1, <4>2, <4>6 DEF MuxGood
    <3>7. CASE ~(item.kind = "connect" /\ item.ok = "ok")
      <4>1. Turned(e, d, Tail(q))
        BY <1>7, <2>1, <2>2, <3>2
      <4> QED BY <3>2, <3>4, <3>5, <3>7, <4>1 DEF MuxGood
    <3> QED BY <3>6, <3>7
  <2> QED BY <2>3, <2>4
<1> QED BY <1>9, <1>10

\* The items of a chunk are handled one after the other.
LEMMA ChunkSteps ==
    ASSUME NEW n \in Nat
    PROVE  \E f : /\ f[0] = [asks |-> asks, mux |-> mux]
                  /\ \A i \in 1..n : f[i] = U!HandleData(f[i - 1], inbound[i])
                  /\ U!HandleChunk(n) = f[n]
<1> DEFINE Steps(k, f) == f = [i \in 0 .. k |-> IF i = 0 THEN [asks |-> asks, mux |-> mux]
                                           ELSE U!HandleData(f[i - 1], inbound[i])]
           Reach == {k \in 0..n : \E f : Steps(k, f)}
<1>1. 0 \in Reach
  <2> DEFINE f == [i \in 0..0 |-> [asks |-> asks, mux |-> mux]]
  <2>1. Steps(0, f)
    OBVIOUS
  <2> HIDE DEF Steps
  <2> QED BY <2>1
<1>2. ASSUME NEW k \in 0..n, k \in Reach, k < n  PROVE k + 1 \in Reach
  <2>1. PICK f : Steps(k, f)
    BY <1>2
  <2> DEFINE g == [i \in 0..(k+1) |-> IF i = k+1 THEN U!HandleData(f[k], inbound[k+1]) ELSE f[i]]
  <2>2. \A i \in 0..(k+1) : g[i] = IF i = 0 THEN [asks |-> asks, mux |-> mux]
                                   ELSE U!HandleData(g[i - 1], inbound[i])
    BY <2>1
  <2>3. Steps(k + 1, g)
    BY <2>2
  <2> HIDE DEF Steps, g
  <2> QED BY <1>2, <2>3
<1> HIDE DEF Reach
<1>3. n \in Reach
  BY <1>1, <1>2, Upwards
<1>4. \E f : Steps(n, f)
  BY <1>3 DEF Reach
<1> DEFINE after[i \in 0 .. n] == IF i = 0 THEN [asks |-> asks, mux |-> mux]
                                 ELSE U!HandleData(after[i - 1], inbound[i])
<1>5. Steps(n, after)
  BY <1>4
<1>6. U!HandleChunk(n) = after[n]
  BY DEF U!HandleChunk
<1> HIDE DEF after
<1>7. after[0] = [asks |-> asks, mux |-> mux] /\ \A i \in 1..n : after[i] = U!HandleData(after[i - 1], inbound[i])
  BY <1>5
<1> QED BY <1>6, <1>7

\* What is left of a socket after i items, one more at a time.
LEMMA RestSteps ==
    ASSUME NEW S, NEW q \in Seq(S), NEW i \in 0..Len(q)
    PROVE  LET rest == SubSeq(q, i + 1, Len(q)) IN
           /\ rest \in Seq(S) /\ (i = 0 => rest = q)
           /\ i < Len(q) => rest # <<>> /\ rest[1] = q[i + 1] /\ Tail(rest) = SubSeq(q, (i + 1) + 1, Len(q))
<1> DEFINE rest == SubSeq(q, i + 1, Len(q))
<1>1. rest \in Seq(S) /\ Len(rest) = Len(q) - i /\ \A j \in 1..(Len(q) - i) : rest[j] = q[i + j]
  BY SubSeqProperties
<1>2. i = 0 => rest = q
  BY <1>1, SeqEqual
<1>3. ASSUME i < Len(q)  PROVE rest # <<>> /\ rest[1] = q[i + 1] /\ Tail(rest) = SubSeq(q, (i + 1) + 1, Len(q))
  <2> DEFINE next == SubSeq(q, (i + 1) + 1, Len(q))
  <2>1. next \in Seq(S) /\ Len(next) = Len(q) - i - 1 /\ \A j \in 1..(Len(q) - i - 1) : next[j] = q[i + 1 + j]
    BY <1>3, SubSeqProperties
  <2> HIDE DEF rest, next
  <2>2. rest # <<>> /\ rest[1] = q[i + 1]
    BY <1>1, <1>3
  <2>3. Tail(rest) \in Seq(S) /\ Len(Tail(rest)) = Len(rest) - 1
        /\ \A j \in 1..Len(Tail(rest)) : Tail(rest)[j] = rest[j + 1]
    BY <1>1, <2>2, HeadTailProperties
  <2>4. Tail(rest) = next
    <3>1. Len(q) \in Nat /\ i \in Nat /\ Len(Tail(rest)) = Len(q) - i - 1
      BY <1>1, <2>3
    <3>2. ASSUME NEW j \in 1..Len(Tail(rest))  PROVE Tail(rest)[j] = next[j]
      <4>1. j + 1 \in 1..(Len(q) - i) /\ i + (j + 1) = i + 1 + j
        BY <3>1
      <4> QED BY <1>1, <2>1, <2>3, <3>1, <4>1
    <3> QED BY <2>1, <2>3, <3>1, <3>2, SeqEqual
  <2> QED BY <2>2, <2>4 DEF rest, next
<1> QED BY <1>1, <1>2, <1>3

\* _handleData goes from a pair to a pair.
LEMMA HandleShape ==
    ASSUME NEW a, NEW m, NEW item, NEW s, s = U!HandleData([asks |-> a, mux |-> m], item)
    PROVE  s = [asks |-> s.asks, mux |-> s.mux]
  BY DEF U!HandleData

\* A chunk keeps it.
LEMMA ChunkKeeps ==
    ASSUME MuxInv, NEW n \in 1..Len(inbound), NEW s, s = U!HandleChunk(n)
    PROVE  MuxGood(s.asks, s.mux, usbmuxd, SubSeq(inbound, n + 1, Len(inbound)))
<1> DEFINE Rest(i) == SubSeq(inbound, i + 1, Len(inbound))
<1>0. inbound \in Seq(Result \cup Data) /\ Len(inbound) \in Nat /\ n \in Nat
  BY DEF MuxInv, MuxGood, MuxTyped
<1>1. PICK f : /\ f[0] = [asks |-> asks, mux |-> mux]
               /\ \A i \in 1..n : f[i] = U!HandleData(f[i - 1], inbound[i])
               /\ U!HandleChunk(n) = f[n]
  BY <1>0, ChunkSteps
<1> DEFINE Reach == {i \in 0..n : /\ f[i] = [asks |-> f[i].asks, mux |-> f[i].mux]
                                 /\ MuxGood(f[i].asks, f[i].mux, usbmuxd, Rest(i))}
<1>2. 0 \in Reach
  <2>1. Rest(0) = inbound
    BY <1>0, RestSteps
  <2> HIDE DEF Rest
  <2> QED BY <1>0, <1>1, <2>1 DEF MuxInv
<1>3. ASSUME NEW i \in 0..n, i \in Reach, i < n  PROVE i + 1 \in Reach
  <2>0. i \in 0..Len(inbound) /\ i < Len(inbound)
    BY <1>0, <1>3
  <2>1. Rest(i) # <<>> /\ Rest(i)[1] = inbound[i + 1] /\ Tail(Rest(i)) = Rest(i + 1)
    BY <1>0, <2>0, RestSteps
  <2> HIDE DEF Rest
  <2>2. f[i + 1] = U!HandleData(f[i], inbound[i + 1]) /\ i + 1 \in 0..n
    BY <1>0, <1>1, <1>3
  <2>3. MuxGood(f[i].asks, f[i].mux, usbmuxd, Rest(i)) /\ f[i] = [asks |-> f[i].asks, mux |-> f[i].mux]
    BY <1>3
  <2>4. MuxGood(f[i + 1].asks, f[i + 1].mux, usbmuxd, Tail(Rest(i)))
    BY <2>1, <2>2, <2>3, HandleKeeps
  <2>5. f[i + 1] = [asks |-> f[i + 1].asks, mux |-> f[i + 1].mux]
    BY <2>2, <2>3, HandleShape
  <2> QED BY <2>1, <2>2, <2>4, <2>5
<1> HIDE DEF Reach
<1>4. \A i \in 0..n : i \in Reach
  BY <1>0, <1>2, <1>3, Upwards
<1> HIDE DEF Rest
<1>5. n \in Reach
  BY <1>0, <1>4
<1>6. \A i \in Reach : MuxGood(f[i].asks, f[i].mux, usbmuxd, Rest(i))
  BY DEF Reach
<1> HIDE DEF Reach
<1>7. MuxGood(f[n].asks, f[n].mux, usbmuxd, Rest(n))
  BY <1>5, <1>6
<1> QED BY <1>1, <1>7 DEF Rest

LEMMA MuxInitInv ==
    ASSUME U!MuxInit
    PROVE  MuxInv
<1> USE NamesAssumption, LinksBounds
<1>1. asks \in [Client -> Asking] /\ \A c \in Client : asks[c].state = "idle"
  BY DEF U!MuxInit, Asking
<1>2. mux \in MuxState /\ usbmuxd \in Muxd
  BY DEF U!MuxInit, MuxState, Muxd
<1>3. inbound \in Seq(Result \cup Data) /\ Len(inbound) = 0
  BY DEF U!MuxInit
<1>4. \A t \in U!Tags : mux.callbacks[t] = Nobody
  BY DEF U!MuxInit
<1>5. /\ mux.tag = 0 /\ mux.attached = TRUE /\ mux.owner = Nobody /\ mux.received = 0 /\ mux.swallowed = 0
      /\ usbmuxd.requests = {} /\ usbmuxd.serial = 0 /\ ~usbmuxd.connected /\ usbmuxd.sent = 0
  BY DEF U!MuxInit
<1>6. Tagged(asks, mux, usbmuxd, inbound)
  BY <1>1, <1>3, <1>4, <1>5 DEF Tagged
<1>7. Turned(mux, usbmuxd, inbound)
  BY <1>3, <1>5 DEF Turned
<1> QED BY <1>1, <1>2, <1>3, <1>6, <1>7 DEF MuxInv, MuxGood, MuxTyped

\* A request has the tag of its number, which is nobody else's.
LEMMA RequestKeeps ==
    ASSUME MuxInv, NEW c \in Client, NEW kind \in U!Kinds, U!Request(c, kind)
    PROVE  MuxInv'
<1> USE NamesAssumption, LinksBounds
<1> DEFINE n == usbmuxd.serial
           r == [state |-> "waiting", tag |-> n, kind |-> kind, serial |-> n, got |-> 0]
           x == [tag |-> n, kind |-> kind, serial |-> n]
<1>0. MuxTyped(asks, mux, usbmuxd, inbound) /\ Tagged(asks, mux, usbmuxd, inbound) /\ Turned(mux, usbmuxd, inbound)
  BY DEF MuxInv, MuxGood
<1>1. n \in Nat /\ n \in U!Tags /\ mux.tag = n /\ n + 1 <= MaxRequests
  BY <1>0 DEF U!Request, MuxTyped, Tagged, Muxd, U!Tags
<1>2. r \in Asking /\ x \in Asked /\ asks[c].state # "waiting"
  BY <1>1 DEF Asking, Asked, U!Request
<1>3. asks' = [asks EXCEPT ![c] = r] /\ asks' \in [Client -> Asking] /\ asks'[c] = r
      /\ \A o \in Client : o # c => asks'[o] = asks[o]
  BY <1>0, <1>1, <1>2 DEF U!Request, U!NextTag, MuxTyped
<1>4. /\ mux' = [mux EXCEPT !.tag = n + 1, !.callbacks = [@ EXCEPT ![n] = c]]
  BY <1>1 DEF U!Request, U!NextTag
<1>5. /\ mux' \in MuxState /\ mux'.tag = n + 1 /\ mux'.attached = mux.attached /\ mux'.owner = mux.owner
      /\ mux'.received = mux.received /\ mux'.swallowed = mux.swallowed
      /\ mux'.callbacks[n] = c /\ \A t \in U!Tags : t # n => mux'.callbacks[t] = mux.callbacks[t]
  <2> DEFINE cb == [mux.callbacks EXCEPT ![n] = c]
  <2>1. mux \in MuxState
    BY <1>0 DEF MuxTyped
  <2>2. mux.callbacks \in [U!Tags -> Client \cup {Nobody}]
    BY <2>1 DEF MuxState
  <2>3. cb \in [U!Tags -> Client \cup {Nobody}] /\ cb[n] = c /\ \A t \in U!Tags : t # n => cb[t] = mux.callbacks[t]
    BY <1>1, <2>2
  <2>4. mux' = [mux EXCEPT !.tag = n + 1, !.callbacks = cb] /\ n + 1 \in Nat
    BY <1>1, <1>4
  <2> HIDE DEF cb
  <2> QED BY <2>1, <2>3, <2>4 DEF MuxState
<1>6. /\ usbmuxd' \in Muxd /\ usbmuxd'.serial = n + 1 /\ usbmuxd'.connected = usbmuxd.connected
      /\ usbmuxd'.sent = usbmuxd.sent /\ \A e \in usbmuxd'.requests : e = x \/ e \in usbmuxd.requests
  <2> DEFINE rq == IF mux.attached /\ ~usbmuxd.connected THEN usbmuxd.requests \cup {x} ELSE usbmuxd.requests
  <2>1. usbmuxd \in Muxd
    BY <1>0 DEF MuxTyped
  <2>2. rq \subseteq Asked /\ \A e \in rq : e = x \/ e \in usbmuxd.requests
    BY <1>2, <2>1 DEF Muxd
  <2>3. usbmuxd' = [usbmuxd EXCEPT !.serial = n + 1, !.requests = rq] /\ n + 1 \in Nat
    BY <1>1 DEF U!Request, U!NextTag, U!Encoded
  <2> HIDE DEF rq
  <2> QED BY <2>1, <2>2, <2>3 DEF Muxd
<1>7. inbound' = inbound
  BY DEF U!Request
<1>8. MuxTyped(asks', mux', usbmuxd', inbound')
  BY <1>0, <1>3, <1>5, <1>6, <1>7 DEF MuxTyped
<1>9. Turned(mux', usbmuxd', inbound')
  BY <1>0, <1>5, <1>6, <1>7 DEF Turned
<1>10. ASSUME NEW t \in U!Tags, mux'.callbacks[t] # Nobody
       PROVE  /\ asks'[mux'.callbacks[t]].state = "waiting"
              /\ asks'[mux'.callbacks[t]].tag = t /\ asks'[mux'.callbacks[t]].serial = t
  <2>1. CASE t = n
    BY <1>3, <1>5, <2>1
  <2>2. CASE t # n
    <3>1. mux'.callbacks[t] = mux.callbacks[t] /\ mux.callbacks[t] \in Client
      BY <1>0, <1>5, <1>10, <2>2 DEF MuxTyped, MuxState
    <3>2. asks[mux.callbacks[t]].state = "waiting" /\ asks[mux.callbacks[t]].tag = t /\ asks[mux.callbacks[t]].serial = t
      BY <1>0, <1>10, <3>1 DEF Tagged
    <3> QED BY <1>2, <1>3, <3>1, <3>2
  <2> QED BY <2>1, <2>2
<1>11. ASSUME NEW o \in Client
       PROVE  /\ asks'[o].state = "waiting" => asks'[o].tag \in U!Tags
              /\ asks'[o].state \in {"resolved", "rejected"} => asks'[o].got = asks'[o].serial
  <2>1. CASE o = c
    BY <1>1, <1>3, <2>1
  <2>2. CASE o # c
    BY <1>0, <1>3, <2>2 DEF Tagged
  <2> QED BY <2>1, <2>2
<1>12. \A e \in usbmuxd'.requests : e.tag = e.serial
  BY <1>0, <1>6 DEF Tagged
<1> HIDE DEF r, x
<1>13. Tagged(asks', mux', usbmuxd', inbound')
  BY <1>0, <1>1, <1>5, <1>6, <1>7, <1>10, <1>11, <1>12 DEF Tagged
<1> QED BY <1>8, <1>9, <1>13 DEF MuxInv, MuxGood

\* A request that timed out is out of the table.
LEMMA TimesOutKeeps ==
    ASSUME MuxInv, NEW c \in Client, U!TimesOut(c)
    PROVE  MuxInv'
<1> USE NamesAssumption, LinksBounds
<1> DEFINE t0 == asks[c].tag
           r == [asks[c] EXCEPT !.state = "timedOut"]
<1>0. MuxTyped(asks, mux, usbmuxd, inbound) /\ Tagged(asks, mux, usbmuxd, inbound) /\ Turned(mux, usbmuxd, inbound)
  BY DEF MuxInv, MuxGood
<1>1. t0 \in U!Tags /\ asks[c] \in Asking
  BY <1>0 DEF U!TimesOut, Tagged, MuxTyped
<1>2. r \in Asking /\ r.state = "timedOut"
  BY <1>1 DEF Asking
<1>3. asks' = [asks EXCEPT ![c] = r] /\ asks' \in [Client -> Asking] /\ asks'[c] = r
      /\ \A o \in Client : o # c => asks'[o] = asks[o]
  BY <1>0, <1>1, <1>2 DEF U!TimesOut, MuxTyped
<1>4. mux' = [mux EXCEPT !.callbacks = [@ EXCEPT ![t0] = Nobody]]
  BY DEF U!TimesOut, U!Forget
<1>5. /\ mux' \in MuxState /\ mux'.tag = mux.tag /\ mux'.attached = mux.attached /\ mux'.owner = mux.owner
      /\ mux'.received = mux.received /\ mux'.swallowed = mux.swallowed
      /\ mux'.callbacks[t0] = Nobody /\ \A t \in U!Tags : t # t0 => mux'.callbacks[t] = mux.callbacks[t]
  BY <1>0, <1>1, <1>4 DEF MuxTyped, MuxState
<1>6. inbound' = inbound /\ usbmuxd' = usbmuxd
  BY DEF U!TimesOut
<1>7. MuxTyped(asks', mux', usbmuxd', inbound') /\ Turned(mux', usbmuxd', inbound')
  BY <1>0, <1>3, <1>5, <1>6 DEF MuxTyped, Turned
<1>8. ASSUME NEW t \in U!Tags, mux'.callbacks[t] # Nobody
      PROVE  /\ asks'[mux'.callbacks[t]].state = "waiting"
             /\ asks'[mux'.callbacks[t]].tag = t /\ asks'[mux'.callbacks[t]].serial = t
  <2>1. t # t0 /\ mux'.callbacks[t] = mux.callbacks[t] /\ mux.callbacks[t] \in Client
    BY <1>0, <1>5, <1>8 DEF MuxTyped, MuxState
  <2>2. asks[mux.callbacks[t]].state = "waiting" /\ asks[mux.callbacks[t]].tag = t /\ asks[mux.callbacks[t]].serial = t
    BY <1>0, <1>8, <2>1 DEF Tagged
  <2> QED BY <1>3, <2>1, <2>2
<1>9. ASSUME NEW o \in Client
      PROVE  /\ asks'[o].state = "waiting" => asks'[o].tag \in U!Tags
             /\ asks'[o].state \in {"resolved", "rejected"} => asks'[o].got = asks'[o].serial
  <2>1. CASE o = c
    BY <1>2, <1>3, <2>1
  <2>2. CASE o # c
    BY <1>0, <1>3, <2>2 DEF Tagged
  <2> QED BY <2>1, <2>2
<1> HIDE DEF r
<1>10. Tagged(asks', mux', usbmuxd', inbound')
  BY <1>0, <1>5, <1>6, <1>8, <1>9 DEF Tagged
<1> QED BY <1>7, <1>10 DEF MuxInv, MuxGood

\* An answer carries the tag and the number of the request it is of.
LEMMA AnswersKeeps ==
    ASSUME MuxInv, NEW r \in usbmuxd.requests, NEW ok \in {"ok", "refused"}, U!Answers(r, ok)
    PROVE  MuxInv'
<1> USE NamesAssumption, LinksBounds
<1> DEFINE x == [kind |-> r.kind, tag |-> r.tag, serial |-> r.serial, ok |-> ok]
           connects == r.kind = "connect" /\ ok = "ok"
<1>0. MuxTyped(asks, mux, usbmuxd, inbound) /\ Tagged(asks, mux, usbmuxd, inbound) /\ Turned(mux, usbmuxd, inbound)
  BY DEF MuxInv, MuxGood
<1>1. r \in Asked /\ r.tag = r.serial
  BY <1>0 DEF MuxTyped, Tagged, Muxd
<1>2. x \in Result /\ x.tag = x.serial /\ (IsConnect(x) <=> connects)
  BY <1>1 DEF Asked, Result, IsConnect
<1>3. inbound' = Append(inbound, x) /\ mux' = mux /\ asks' = asks /\ ~usbmuxd.connected
  BY DEF U!Answers
<1>4. /\ usbmuxd' \in Muxd /\ usbmuxd'.serial = usbmuxd.serial /\ (usbmuxd'.connected <=> connects)
      /\ usbmuxd'.sent = usbmuxd.sent /\ usbmuxd'.requests \subseteq usbmuxd.requests
  BY <1>0 DEF U!Answers, MuxTyped, Muxd
<1> HIDE DEF x, connects
<1>5. /\ inbound' \in Seq(Result \cup Data) /\ Len(inbound) \in Nat /\ Len(inbound') = Len(inbound) + 1
      /\ \A i \in 1..Len(inbound) : inbound'[i] = inbound[i]
      /\ inbound'[Len(inbound')] = x
  BY <1>0, <1>2, <1>3 DEF MuxTyped
<1>6. \A i \in 1..Len(inbound') : i \in 1..Len(inbound) \/ i = Len(inbound')
  BY <1>5
<1>7. MuxTyped(asks', mux', usbmuxd', inbound')
  BY <1>0, <1>3, <1>4, <1>5 DEF MuxTyped
<1>8. Tagged(asks', mux', usbmuxd', inbound')
  <2>1. \A i \in 1..Len(inbound') : inbound'[i] \in Result => inbound'[i].tag = inbound'[i].serial
    BY <1>0, <1>2, <1>5, <1>6 DEF Tagged
  <2> QED BY <1>0, <1>3, <1>4, <2>1 DEF Tagged
<1>9. \A i \in 1..Len(inbound) : inbound'[i] \in Result /\ ~IsConnect(inbound'[i])
  BY <1>0, <1>3, <1>5 DEF Turned
<1>10. Turned(mux', usbmuxd', inbound')
  <2>1. CASE connects
    <3>1. TurnsAt(inbound', Len(inbound'))
      BY <1>2, <1>5, <1>9, <2>1 DEF TurnsAt
    <3>2. Len(inbound') \in 1..Len(inbound') /\ Len(inbound') - Len(inbound') = 0
      BY <1>5
    <3> QED BY <1>0, <1>3, <1>4, <2>1, <3>1, <3>2 DEF Turned
  <2>2. CASE ~connects
    <3>1. \A i \in 1..Len(inbound') : inbound'[i] \in Result /\ ~IsConnect(inbound'[i])
      BY <1>2, <1>5, <1>6, <1>9, <2>2
    <3> QED BY <1>0, <1>3, <1>4, <2>2, <3>1 DEF Turned
  <2> QED BY <2>1, <2>2
<1> QED BY <1>7, <1>8, <1>10 DEF MuxInv, MuxGood

\* What the port of the device says comes after the answer.
LEMMA SendsKeeps ==
    ASSUME MuxInv, U!DeviceSends
    PROVE  MuxInv'
<1> DEFINE x == [kind |-> "data", n |-> usbmuxd.sent]
<1>0. MuxTyped(asks, mux, usbmuxd, inbound) /\ Tagged(asks, mux, usbmuxd, inbound) /\ Turned(mux, usbmuxd, inbound)
  BY DEF MuxInv, MuxGood
<1>1. /\ usbmuxd' \in Muxd /\ usbmuxd'.serial = usbmuxd.serial /\ usbmuxd'.connected /\ usbmuxd.connected
      /\ usbmuxd'.sent = usbmuxd.sent + 1 /\ usbmuxd'.requests = usbmuxd.requests /\ usbmuxd.sent \in Nat
  <2>1. usbmuxd \in Muxd
    BY <1>0 DEF MuxTyped
  <2>2. usbmuxd' = [usbmuxd EXCEPT !.sent = usbmuxd.sent + 1] /\ usbmuxd.connected
    BY DEF U!DeviceSends
  <2> QED BY <2>1, <2>2 DEF Muxd
<1>2. x \in Data /\ x \notin Result
  BY <1>1 DEF Data, Result, U!Kinds
<1>3. inbound' = Append(inbound, x) /\ mux' = mux /\ asks' = asks
  BY DEF U!DeviceSends
<1> HIDE DEF x
<1>4. /\ inbound' \in Seq(Result \cup Data) /\ Len(inbound) \in Nat /\ Len(inbound') = Len(inbound) + 1
      /\ \A i \in 1..Len(inbound) : inbound'[i] = inbound[i]
      /\ inbound'[Len(inbound')] = x
  BY <1>0, <1>2, <1>3 DEF MuxTyped
<1>5. \A i \in 1..Len(inbound') : i \in 1..Len(inbound) \/ i = Len(inbound')
  BY <1>4
<1>6. MuxTyped(asks', mux', usbmuxd', inbound')
  BY <1>0, <1>1, <1>3, <1>4 DEF MuxTyped
<1>7. Tagged(asks', mux', usbmuxd', inbound')
  <2>1. \A i \in 1..Len(inbound') : inbound'[i] \in Result => inbound'[i].tag = inbound'[i].serial
    BY <1>0, <1>2, <1>4, <1>5 DEF Tagged
  <2> QED BY <1>0, <1>1, <1>3, <2>1 DEF Tagged
<1>8. mux.received \in Nat /\ mux.swallowed \in Nat
  BY <1>0 DEF MuxTyped, MuxState
<1>9. Turned(mux', usbmuxd', inbound')
  <2>1. CASE \A i \in 1..Len(inbound) : inbound[i] \in Data
    <3>1. \A i \in 1..Len(inbound') : inbound'[i] \in Data
      BY <1>2, <1>4, <1>5, <2>1
    <3>2. CASE mux.received + mux.swallowed + Len(inbound) = usbmuxd.sent
      <4>1. mux'.received + mux'.swallowed + Len(inbound') = usbmuxd'.sent
        BY <1>1, <1>3, <1>4, <1>8, <3>2
      <4>2. mux'.attached <=> mux'.owner = Nobody
        BY <1>0, <1>3 DEF Turned
      <4> QED BY <1>1, <3>1, <4>1, <4>2 DEF Turned
    <3>3. ASSUME NEW k \in 1..Len(inbound), TurnsAt(inbound, k)  PROVE FALSE
      <4>1. inbound[k] \in Result /\ inbound[k] \in Data
        BY <2>1, <3>3 DEF TurnsAt, IsConnect
      <4> QED BY <4>1 DEF Data, Result, U!Kinds
    <3> QED BY <1>0, <1>1, <3>2, <3>3 DEF Turned
  <2>2. ASSUME NEW k \in 1..Len(inbound), TurnsAt(inbound, k), Len(inbound) - k = usbmuxd.sent,
               mux.received = 0, mux.swallowed = 0, mux.owner = Nobody
        PROVE  Turned(mux', usbmuxd', inbound')
    <3>1. k \in 1..Len(inbound') /\ Len(inbound') - k = usbmuxd.sent + 1
      BY <1>4, <2>2
    <3>2. TurnsAt(inbound', k)
      BY <1>2, <1>4, <1>5, <2>2 DEF TurnsAt
    <3> QED BY <1>0, <1>1, <1>3, <2>2, <3>1, <3>2 DEF Turned
  <2> QED BY <1>0, <1>1, <2>1, <2>2 DEF Turned
<1> QED BY <1>6, <1>7, <1>9 DEF MuxInv, MuxGood

\* A chunk that is read counts as one more that nobody took from the splitter.
LEMMA ReadsKeeps ==
    ASSUME MuxInv, NEW n \in 1..Len(inbound), U!ReadsChunk(n)
    PROVE  MuxInv'
<1> DEFINE s == U!HandleChunk(n)
           e == [s.mux EXCEPT !.unread = @ + 1]
<1>1. MuxGood(s.asks, s.mux, usbmuxd, SubSeq(inbound, n + 1, Len(inbound)))
  BY ChunkKeeps
<1>2. asks' = s.asks /\ mux' = e /\ usbmuxd' = usbmuxd /\ inbound' = SubSeq(inbound, n + 1, Len(inbound))
  BY DEF U!ReadsChunk
<1> HIDE DEF s
<1>3. s.mux \in MuxState
  BY <1>1 DEF MuxGood, MuxTyped
<1>4. e \in MuxState /\ e.tag = s.mux.tag /\ e.callbacks = s.mux.callbacks /\ e.attached = s.mux.attached
      /\ e.owner = s.mux.owner /\ e.received = s.mux.received /\ e.swallowed = s.mux.swallowed
  BY <1>3 DEF MuxState
<1> HIDE DEF e
<1>5. MuxTyped(asks', mux', usbmuxd', inbound')
  BY <1>1, <1>2, <1>4 DEF MuxGood, MuxTyped
<1>6. Tagged(asks', mux', usbmuxd', inbound')
  BY <1>1, <1>2, <1>4 DEF MuxGood, Tagged
<1>7. Turned(mux', usbmuxd', inbound')
  BY <1>1, <1>2, <1>4 DEF MuxGood, Turned
<1> QED BY <1>5, <1>6, <1>7 DEF MuxInv, MuxGood

\* The owner of the socket reads data only.
LEMMA OwnerKeeps ==
    ASSUME MuxInv, U!OwnerReads
    PROVE  MuxInv'
<1>0. MuxTyped(asks, mux, usbmuxd, inbound) /\ Tagged(asks, mux, usbmuxd, inbound) /\ Turned(mux, usbmuxd, inbound)
  BY DEF MuxInv, MuxGood
<1>1. /\ mux' \in MuxState /\ mux'.tag = mux.tag /\ mux'.callbacks = mux.callbacks /\ mux'.attached = mux.attached
      /\ mux'.owner = mux.owner /\ mux'.received = mux.received + 1 /\ mux'.swallowed = mux.swallowed
      /\ mux.owner # Nobody /\ mux.received \in Nat /\ mux.swallowed \in Nat
  <2> DEFINE u == IF mux.attached THEN mux.unread + 1 ELSE mux.unread
             v == mux.received + 1
  <2>1. mux \in MuxState
    BY <1>0 DEF MuxTyped
  <2>2. mux' = [mux EXCEPT !.received = v, !.unread = u] /\ mux.owner # Nobody /\ v = mux.received + 1
    BY DEF U!OwnerReads
  <2>3. u \in Nat /\ v \in Nat
    BY <2>1 DEF MuxState
  <2> HIDE DEF u, v
  <2> QED BY <2>1, <2>2, <2>3 DEF MuxState
<1>2. asks' = asks /\ usbmuxd' = usbmuxd /\ inbound' = Tail(inbound) /\ inbound # <<>>
      /\ inbound \in Seq(Result \cup Data) /\ Len(inbound) \in Nat
  BY <1>0 DEF U!OwnerReads, MuxTyped
<1>3. /\ inbound' \in Seq(Result \cup Data) /\ Len(inbound') = Len(inbound) - 1 /\ Len(inbound') \in Nat
      /\ \A i \in 1..Len(inbound') : i + 1 \in 1..Len(inbound) /\ inbound'[i] = inbound[i + 1]
  BY <1>2, TailTurned
<1>4. usbmuxd.connected /\ (\A i \in 1..Len(inbound) : inbound[i] \in Data)
      /\ mux.received + mux.swallowed + Len(inbound) = usbmuxd.sent
  BY <1>0, <1>1 DEF Turned
<1>5. \A i \in 1..Len(inbound') : inbound'[i] \in Data
  BY <1>3, <1>4
<1>6. Turned(mux', usbmuxd', inbound')
  <2>1. mux'.received + mux'.swallowed + Len(inbound') = usbmuxd'.sent
    <3>1. Len(inbound) \in Nat /\ Len(inbound') = Len(inbound) - 1
      BY <1>2, <1>3
    <3>2. mux.received \in Nat /\ mux.swallowed \in Nat /\ mux'.received = mux.received + 1
          /\ mux'.swallowed = mux.swallowed
      BY <1>1
    <3>3. mux.received + mux.swallowed + Len(inbound) = usbmuxd'.sent
      BY <1>2, <1>4
    <3>4. \A r, w, n \in Nat : (r + 1) + w + (n - 1) = r + w + n
      OBVIOUS
    <3>5. mux'.received + mux'.swallowed + Len(inbound') = (mux.received + 1) + mux.swallowed + (Len(inbound) - 1)
      BY <3>1, <3>2
    <3> QED BY <3>1, <3>2, <3>3, <3>4, <3>5
  <2>2. (mux'.attached <=> mux'.owner = Nobody) /\ usbmuxd'.connected
    BY <1>0, <1>1, <1>2, <1>4 DEF Turned
  <2> QED BY <1>5, <2>1, <2>2 DEF Turned
<1>7. \A i \in 1..Len(inbound') : inbound'[i] \in Result => inbound'[i].tag = inbound'[i].serial
  BY <1>0, <1>3 DEF Tagged
<1>8. MuxTyped(asks', mux', usbmuxd', inbound') /\ Tagged(asks', mux', usbmuxd', inbound')
  BY <1>0, <1>1, <1>2, <1>3, <1>7 DEF MuxTyped, Tagged
<1> QED BY <1>6, <1>8 DEF MuxInv, MuxGood

LEMMA ClosesKeeps ==
    ASSUME MuxInv, NEW c \in Client, U!Closes(c)
    PROVE  MuxInv'
<1>0. MuxTyped(asks, mux, usbmuxd, inbound) /\ Tagged(asks, mux, usbmuxd, inbound) /\ Turned(mux, usbmuxd, inbound)
  BY DEF MuxInv, MuxGood
<1>1. /\ mux' \in MuxState /\ mux'.tag = mux.tag /\ mux'.callbacks = mux.callbacks /\ mux'.attached = mux.attached
      /\ mux'.owner = mux.owner /\ mux'.received = mux.received /\ mux'.swallowed = mux.swallowed
  BY <1>0 DEF U!Closes, MuxTyped, MuxState
<1>2. asks' = asks /\ usbmuxd' = usbmuxd /\ inbound' = inbound
  BY DEF U!Closes
<1>3. MuxTyped(asks', mux', usbmuxd', inbound') /\ Tagged(asks', mux', usbmuxd', inbound') /\ Turned(mux', usbmuxd', inbound')
  BY <1>0, <1>1, <1>2 DEF MuxTyped, Tagged, Turned
<1> QED BY <1>3 DEF MuxInv, MuxGood

LEMMA MuxStep ==
    ASSUME MuxInv, U!MuxNext
    PROVE  MuxInv'
<1> QED BY RequestKeeps, TimesOutKeeps, AnswersKeeps, SendsKeeps, ReadsKeeps, OwnerKeeps, ClosesKeeps DEF U!MuxNext

\* What the invariant is for.
LEMMA MuxHolds ==
    ASSUME MuxInv
    PROVE  U!AnswersMatch /\ U!OwnerHasStream
<1>1. U!AnswersMatch
  BY DEF MuxInv, MuxGood, Tagged, U!AnswersMatch
<1>2. mux.owner # Nobody => ~mux.attached /\ mux.received + mux.swallowed + Len(inbound) = usbmuxd.sent
  BY DEF MuxInv, MuxGood, Turned
<1> QED BY <1>1, <1>2 DEF U!OwnerHasStream, U!Stalled

-----------------------------------------------------------------------------
(* PortForwarder: a connection is tracked while one of its sockets is open. *)

\* The sockets of a client and how far its connection is.
Pair == [stage: {"none", "primary", "fallback", "failed", "piped"},
         local: {"none", "open", "closed"}, up: {"none", "open", "closed"}]

\* An open socket is tracked, side by side.
Tracked ==
    /\ conns \in [Conn -> Pair]
    /\ \A c \in Conn : /\ conns[c].local = "open" => <<"local", c>> \in active
                       /\ conns[c].up = "open" => <<"up", c>> \in active

\* The sockets of one client change and those of the others stay, tracked as they were.
LEMMA OneChanges ==
    ASSUME Tracked, NEW c \in Conn, NEW p \in Pair, conns' = [conns EXCEPT ![c] = p],
           p.local = "open" => <<"local", c>> \in active',
           p.up = "open" => <<"up", c>> \in active',
           \A d \in Conn \ {c}, side \in {"local", "up"} : <<side, d>> \in active => <<side, d>> \in active'
    PROVE  Tracked'
<1>1. conns' \in [Conn -> Pair] /\ conns'[c] = p /\ \A d \in Conn \ {c} : conns'[d] = conns[d]
  BY DEF Tracked
<1> QED BY <1>1 DEF Tracked

LEMMA ForwarderInit ==
    ASSUME P!PfInit
    PROVE  Tracked
  BY DEF P!PfInit, Tracked, Pair

LEMMA ForwarderStep ==
    ASSUME Tracked, P!PfNext
    PROVE  Tracked'
<1>0. \A c \in Conn : conns[c] \in Pair
  BY DEF Tracked
<1>1. CASE P!Start
  BY <1>1 DEF P!Start, Tracked
<1>2. CASE P!Stop
  <2> DEFINE After(c) == [conns[c] EXCEPT
         !.local = IF <<"local", c>> \in active THEN "closed" ELSE @,
         !.up = IF <<"up", c>> \in active THEN "closed" ELSE @]
  <2>1. \A c \in Conn : After(c) \in Pair /\ After(c).local # "open" /\ After(c).up # "open"
    BY <1>0 DEF Pair, Tracked
  <2>2. conns' = [c \in Conn |-> After(c)]
    BY <1>2 DEF P!Stop
  <2> HIDE DEF After
  <2> QED BY <2>1, <2>2 DEF Tracked
<1>3. ASSUME NEW c \in Conn, P!Accept(c)  PROVE Tracked'
  <2> DEFINE p == [conns[c] EXCEPT !.stage = "primary", !.local = "open"]
  <2>1. p \in Pair /\ p.local = "open" /\ p.up = conns[c].up
    BY <1>0 DEF Pair
  <2>2. conns' = [conns EXCEPT ![c] = p] /\ active' = active \cup {<<"local", c>>}
    BY <1>3 DEF P!Accept
  <2> HIDE DEF p
  <2> QED BY <2>1, <2>2, OneChanges DEF Tracked
<1>4. ASSUME NEW c \in Conn, P!PrimaryFails(c)  PROVE Tracked'
  <2> DEFINE p == [conns[c] EXCEPT !.stage = "fallback"]
  <2>1. p \in Pair /\ p.local = conns[c].local /\ p.up = conns[c].up
    BY <1>0 DEF Pair
  <2>2. conns' = [conns EXCEPT ![c] = p] /\ active' = active
    BY <1>4 DEF P!PrimaryFails
  <2> HIDE DEF p
  <2> QED BY <2>1, <2>2, OneChanges DEF Tracked
<1>5. ASSUME NEW c \in Conn, P!DialFails(c)  PROVE Tracked'
  <2> DEFINE p == [conns[c] EXCEPT !.stage = "failed", !.local = "closed"]
  <2>1. p \in Pair /\ p.local = "closed" /\ p.up = conns[c].up
    BY <1>0 DEF Pair
  <2>2. conns' = [conns EXCEPT ![c] = p] /\ active' = active \ {<<"local", c>>}
    BY <1>5 DEF P!DialFails
  <2> HIDE DEF p
  <2> QED BY <2>1, <2>2, OneChanges DEF Tracked
<1>6. ASSUME NEW c \in Conn, P!Dialled(c)  PROVE Tracked'
  <2> DEFINE p == [conns[c] EXCEPT !.stage = "piped", !.up = "open"]
  <2>1. p \in Pair /\ p.local = conns[c].local /\ p.up = "open"
    BY <1>0 DEF Pair
  <2>2. conns' = [conns EXCEPT ![c] = p] /\ active' = active \cup {<<"up", c>>}
    BY <1>6 DEF P!Dialled, P!UpstreamOf
  <2> HIDE DEF p
  <2> QED BY <2>1, <2>2, OneChanges DEF Tracked
<1>7. ASSUME NEW c \in Conn, NEW side \in {"local", "up"}, P!PairEnds(c, side)  PROVE Tracked'
  <2> DEFINE p == [conns[c] EXCEPT !.local = "closed", !.up = "closed"]
  <2>1. p \in Pair /\ p.local = "closed" /\ p.up = "closed"
    BY <1>0 DEF Pair
  <2>2. conns' = [conns EXCEPT ![c] = p] /\ active' = active \ {<<"local", c>>, <<"up", c>>}
    BY <1>7 DEF P!PairEnds, P!Teardown
  <2> HIDE DEF p
  <2> QED BY <2>1, <2>2, OneChanges
<1>8. ASSUME NEW c \in Conn, NEW how \in {"closed", "reset"}, P!LeavesEarly(c, how)  PROVE Tracked'
  <2> DEFINE p == [conns[c] EXCEPT !.local = "closed"]
  <2>1. p \in Pair /\ p.local = "closed" /\ p.up = conns[c].up
    BY <1>0 DEF Pair
  <2>2. conns' = [conns EXCEPT ![c] = p] /\ active' = active
    BY <1>8 DEF P!LeavesEarly
  <2> HIDE DEF p
  <2> QED BY <2>1, <2>2, OneChanges DEF Tracked
<1> QED BY <1>1, <1>2, <1>3, <1>4, <1>5, <1>6, <1>7, <1>8 DEF P!PfNext

LEMMA ForwarderHolds ==
    ASSUME Tracked
    PROVE  P!OpenIsTracked
<1> SUFFICES ASSUME NEW s \in P!OpenSockets  PROVE s \in active
  BY DEF P!OpenIsTracked
<1>1. s \in {"local", "up"} \X Conn /\ conns[s[2]][s[1]] = "open"
  BY DEF P!OpenSockets
<1>2. PICK side \in {"local", "up"}, c \in Conn : s = <<side, c>>
  BY <1>1
<1>3. conns[c][side] = "open"
  BY <1>1, <1>2
<1>4. CASE side = "local"
  BY <1>2, <1>3, <1>4 DEF Tracked
<1>5. CASE side = "up"
  BY <1>2, <1>3, <1>5 DEF Tracked
<1> QED BY <1>4, <1>5

-----------------------------------------------------------------------------
(* Lockdown: who waits for an answer waits for that of its own request, the oldest one. *)

Ask == [state : {"idle", "waiting", "received", "timedOut"}, via : L!Service, serial : Nat, got : Nat]
PlistConnection == [queue : Seq(Nat), disturbed : BOOLEAN]
Owed == [serial : Nat, via : L!Service, session : BOOLEAN] \cup {L!Hello}
Upgrading == [at : {"none", "pair", "session", "handshake", "done"}, isTLS : BOOLEAN, crossed : BOOLEAN]
Lockd == [up : BOOLEAN, todo : Seq(Owed), serial : Nat, ssl : {"off", "asked", "on"}, confused : BOOLEAN]

LdTyped ==
    /\ requests \in [L!Task -> Ask] /\ plist \in [L!Service -> PlistConnection] /\ lockdownd \in Lockd
    /\ stage = [at |-> stage.at, made |-> stage.made]
    /\ upgrade \in Upgrading

\* TLS is used from the end of the upgrade on, and a user has the service of the factory only then.
Secure(rq, p, d, u, st) ==
    /\ u.at # "none" => st.at \in {"securing", "ready", "closed"}
    /\ st.made # "user" /\ st.at \in {"ready", "closed"} => u.at = "done"
    /\ u.crossed => st.made = "user"
    /\ u.isTLS => u.at = "done"
    /\ ~u.isTLS =>
         /\ \A c \in L!Task : rq[c].via = "plain"
         /\ p["tls"].queue = <<>> /\ \A i \in 1..Len(d.todo) : d.todo[i].via # "tls"

\* As long as no user writes in clear during the upgrade, the session is the last that is asked
\* for in clear, and the device reads the beginning of the handshake, then TLS.
Uncrossed(d, u) ==
    ~u.crossed =>
      /\ u.at \in {"none", "pair"} =>
            d.ssl = "off" /\ ~d.confused /\ \A i \in 1..Len(d.todo) : d.todo[i].via = "plain" /\ ~d.todo[i].session
      /\ u.at = "session" =>
            /\ ~d.confused /\ d.ssl # "on"
            /\ d.ssl = "asked" => Len(d.todo) = 0
            /\ \A i \in 1..Len(d.todo) : d.todo[i].via = "plain" /\ (d.todo[i].session => i = Len(d.todo))
      /\ u.at = "handshake" =>
            /\ ~d.confused /\ d.ssl # "off"
            /\ d.ssl = "on" => Len(d.todo) = 0
            /\ Len(d.todo) <= 1 /\ \A i \in 1..Len(d.todo) : d.todo[i] = L!Hello
      /\ u.isTLS =>
            d.ssl = "on" /\ ~d.confused /\ \A i \in 1..Len(d.todo) : d.todo[i].via = "tls" /\ ~d.todo[i].session

\* Who waits on v, and what is on its way there.
WaitsOn(rq, v, c) == rq[c].state = "waiting" /\ rq[c].via = v
Alone(rq, q, todo, v) ==
    /\ \A c \in L!Task : rq[c].state = "received" /\ rq[c].via = v => rq[c].got = rq[c].serial
    /\ \A c, e \in L!Task : WaitsOn(rq, v, c) /\ WaitsOn(rq, v, e) => c = e
    /\ \A i \in 1..Len(q) : \E c \in L!Task : WaitsOn(rq, v, c) /\ q[i] = rq[c].serial
    /\ \A i \in 1..Len(todo) : todo[i].via = v => \E c \in L!Task : WaitsOn(rq, v, c) /\ todo[i].serial = rq[c].serial
    /\ Len(q) <= 1
    /\ Len(q) = 1 => \A i \in 1..Len(todo) : todo[i].via # v
    /\ \A i, j \in 1..Len(todo) : todo[i].via = v /\ todo[j].via = v => i = j

LdInv ==
    /\ LdTyped /\ Secure(requests, plist, lockdownd, upgrade, stage) /\ Uncrossed(lockdownd, upgrade)
    /\ \A v \in L!Service : ~plist[v].disturbed => Alone(requests, plist[v].queue, lockdownd.todo, v)

\* What is on its way is a request or the beginning of a handshake.
LEMMA LdOwed ==
    ASSUME NEW x \in Owed
    PROVE  /\ x.serial \in Nat /\ x.session \in BOOLEAN /\ x.via \in {"plain", "tls", "hello"}
           /\ x.via = "hello" <=> x = L!Hello
           /\ x = L!Hello => ~x.session
<1>1. L!Hello.via = "hello" /\ L!Hello.serial = 0 /\ L!Hello.session = FALSE
  BY DEF L!Hello
<1>2. CASE x = L!Hello
  <2>1. x.via = "hello" /\ x.serial = 0
    BY <1>1, <1>2
  <2>2. ~x.session /\ x.session \in BOOLEAN
    BY <1>1, <1>2
  <2> QED BY <1>2, <2>1, <2>2
<1>3. CASE x \in [serial : Nat, via : L!Service, session : BOOLEAN]
  <2>1. x.via \in {"plain", "tls"} /\ x.serial \in Nat /\ x.session \in BOOLEAN
    BY <1>3 DEF L!Service
  <2>2. x.via # "hello"
    BY <2>1
  <2>3. x # L!Hello
    BY <1>1, <2>2
  <2> QED BY <2>1, <2>2, <2>3
<1> QED BY <1>2, <1>3 DEF Owed

LEMMA LdInitInv ==
    ASSUME L!LdInit
    PROVE  LdInv
<1>1. requests \in [L!Task -> Ask] /\ \A c \in L!Task : requests[c] = L!NoAsk
  BY DEF L!LdInit, L!NoAsk, Ask, L!Service
<1>2. plist \in [L!Service -> PlistConnection] /\ \A v \in L!Service : plist[v].queue = <<>>
  BY DEF L!LdInit, L!NewService, PlistConnection
<1>3. lockdownd \in Lockd /\ lockdownd.todo = <<>> /\ ~lockdownd.confused /\ lockdownd.ssl = "off"
  BY DEF L!LdInit, Lockd
<1>4. stage = [at |-> stage.at, made |-> stage.made]
      /\ upgrade \in Upgrading
      /\ ~upgrade.isTLS /\ ~upgrade.crossed /\ upgrade.at = "none" /\ stage.at \in {"find", "connect"}
  BY DEF L!LdInit, Upgrading
<1>5. Secure(requests, plist, lockdownd, upgrade, stage)
  BY <1>1, <1>2, <1>3, <1>4 DEF Secure, L!NoAsk, L!Service
<1>7. Uncrossed(lockdownd, upgrade)
  BY <1>3, <1>4 DEF Uncrossed
<1>6. ASSUME NEW v \in L!Service  PROVE Alone(requests, plist[v].queue, lockdownd.todo, v)
  BY <1>1, <1>2, <1>3 DEF Alone, L!NoAsk, WaitsOn
<1> QED BY <1>1, <1>2, <1>3, <1>4, <1>5, <1>6, <1>7 DEF LdInv, LdTyped

\* Steps that touch neither requests nor messages.
LEMMA LdQuiet ==
    ASSUME LdInv, UNCHANGED <<plist, requests, lockdownd>>, stage' = [at |-> stage'.at, made |-> stage'.made],
           upgrade' \in Upgrading, upgrade'.isTLS = upgrade.isTLS, upgrade'.crossed = upgrade.crossed,
           stage'.made = stage.made, stage'.made # "user" /\ stage'.at \in {"ready", "closed"} => upgrade'.at = "done",
           upgrade'.at \in {upgrade.at, "done"} \/ (upgrade.at = "none" /\ upgrade'.at = "pair"),
           upgrade.isTLS => upgrade'.at = "done", upgrade'.at # "none" => stage'.at \in {"securing", "ready", "closed"}
    PROVE  LdInv'
<1>1. LdTyped'
  BY DEF LdInv, LdTyped
<1>2. Secure(requests, plist, lockdownd, upgrade, stage)'
  BY DEF LdInv, Secure
<1>3. \A v \in L!Service : ~plist'[v].disturbed => Alone(requests', plist'[v].queue, lockdownd'.todo, v)
  BY DEF LdInv
<1>4. Uncrossed(lockdownd', upgrade')
  BY DEF LdInv, Uncrossed
<1> QED BY <1>1, <1>2, <1>3, <1>4 DEF LdInv

LEMMA LdConnects ==
    ASSUME LdInv, L!FindDevice \/ L!RelayDials \/ L!RelayListens \/ L!RelayConnects \/ L!Secured
    PROVE  LdInv'
<1>1. stage = [at |-> stage.at, made |-> stage.made]
      /\ upgrade \in Upgrading
      /\ (upgrade.at # "none" => stage.at \in {"securing", "ready", "closed"}) /\ (upgrade.isTLS => upgrade.at = "done")
      /\ (stage.made # "user" /\ stage.at \in {"ready", "closed"} => upgrade.at = "done")
  BY DEF LdInv, LdTyped, Secure
<1>2. UNCHANGED <<plist, requests, lockdownd>>
  BY DEF L!FindDevice, L!RelayDials, L!RelayListens, L!RelayConnects, L!Secured
<1>3. CASE L!Secured
  <2>1. /\ stage'.at = "ready" /\ upgrade' = upgrade /\ upgrade.at = "done"
        /\ stage' = [at |-> stage'.at, made |-> stage'.made] /\ stage'.made = stage.made
    BY <1>1, <1>3 DEF L!Secured, L!Goto
  <2> QED BY <1>1, <1>2, <2>1, LdQuiet
<1>4. CASE L!FindDevice \/ L!RelayDials \/ L!RelayListens \/ L!RelayConnects
  <2>1. stage.at \in {"find", "usbmux", "listen", "connect"}
    BY <1>4 DEF L!FindDevice, L!RelayDials, L!RelayListens, L!RelayConnects, L!At
  <2>2. stage' = [at |-> stage'.at, made |-> stage'.made] /\ stage'.made = stage.made
    BY <1>1, <1>4 DEF L!FindDevice, L!RelayDials, L!RelayListens, L!RelayConnects, L!Goto
  <2>3. /\ upgrade' \in Upgrading /\ upgrade'.isTLS = upgrade.isTLS /\ upgrade'.crossed = upgrade.crossed
        /\ upgrade'.at \in {"none", "pair"} /\ upgrade.at = "none"
        /\ upgrade'.at # "none" => stage'.at \in {"securing", "ready"}
        /\ stage'.at = "ready" => stage.made = "user"
        /\ stage'.at # "closed"
    BY <1>1, <1>4, <2>1 DEF L!FindDevice, L!RelayDials, L!RelayListens, L!RelayConnects, L!Goto, Upgrading
  <2> QED BY <1>1, <1>2, <2>1, <2>2, <2>3, LdQuiet
<1> QED BY <1>3, <1>4

\* What a request of c over v becomes, when nobody waits there: it is the only one.
LEMMA LdSend ==
    ASSUME LdInv, NEW c \in L!Task, NEW v \in L!Service, L!Send(c, v),
           stage' = stage, upgrade' \in Upgrading,
           upgrade'.isTLS = upgrade.isTLS, upgrade.isTLS => upgrade'.at = "done",
           upgrade.at = "done" => upgrade'.at = "done", upgrade'.crossed => stage.made = "user",
           upgrade'.at # "none" => upgrade.at # "none", upgrade.isTLS => v = "tls" /\ c # "upgrade", ~upgrade.isTLS => v = "plain",
           ~upgrade'.crossed => /\ ~upgrade.crossed
                                /\ \/ upgrade'.at = upgrade.at /\ upgrade.at \notin {"session", "handshake"} /\ c # "upgrade"
                                   \/ upgrade.at = "pair" /\ upgrade'.at = "session" /\ c = "upgrade"
    PROVE  LdInv'
<1> DEFINE n == lockdownd.serial + 1
           q == plist[v].queue
           x == [serial |-> n, via |-> v, session |-> c = "upgrade"]
           r == IF q = <<>> THEN [state |-> "waiting", via |-> v, serial |-> n, got |-> 0]
                ELSE [state |-> "received", via |-> v, serial |-> n, got |-> Head(q)]
           todo == IF lockdownd.up THEN Append(lockdownd.todo, x) ELSE lockdownd.todo
           p == [queue |-> IF q = <<>> THEN q ELSE Tail(q), disturbed |-> plist[v].disturbed \/ L!Waiting(v) # {}]
<1>0. LdTyped /\ Secure(requests, plist, lockdownd, upgrade, stage) /\ Uncrossed(lockdownd, upgrade)
  BY DEF LdInv
<1>1. /\ requests \in [L!Task -> Ask] /\ plist \in [L!Service -> PlistConnection] /\ lockdownd \in Lockd
      /\ plist[v] \in PlistConnection
  BY <1>0 DEF LdTyped
<1>2. n \in Nat /\ q \in Seq(Nat) /\ lockdownd.todo \in Seq(Owed) /\ plist[v].disturbed \in BOOLEAN
  BY <1>1 DEF Lockd, PlistConnection
<1>3. x \in Owed /\ todo \in Seq(Owed)
  <2>1. x \in Owed
    BY <1>2 DEF Owed
  <2> HIDE DEF x
  <2> QED BY <1>2, <2>1
<1>4. r \in Ask /\ r.via = v /\ r.serial = n
  <2>1. q # <<>> => Head(q) \in Nat
    BY <1>2
  <2> QED BY <1>2, <2>1 DEF Ask
<1>5. p \in PlistConnection
  BY <1>2 DEF PlistConnection
<1>6. lockdownd' = [lockdownd EXCEPT !.serial = n, !.todo = todo] /\ requests' = [requests EXCEPT ![c] = r]
      /\ requests[c].state # "waiting"
  BY DEF L!Send
<1>7. plist' = [plist EXCEPT ![v] = p]
  <2>1. plist' = [plist EXCEPT ![v].queue = p.queue, ![v].disturbed = p.disturbed]
    BY DEF L!Send, L!Shifted
  <2>2. [plist[v] EXCEPT !.queue = p.queue, !.disturbed = p.disturbed] = p
    BY <1>1, <1>5 DEF PlistConnection
  <2> HIDE DEF p
  <2> QED BY <1>1, <2>1, <2>2 DEF PlistConnection
<1>8. /\ lockdownd' \in Lockd /\ lockdownd'.todo = todo /\ lockdownd'.up = lockdownd.up
      /\ lockdownd'.ssl = lockdownd.ssl /\ lockdownd'.confused = lockdownd.confused
  <2> HIDE DEF todo, n
  <2> QED BY <1>1, <1>2, <1>3, <1>6 DEF Lockd
<1>9. /\ requests' \in [L!Task -> Ask] /\ requests'[c] = r /\ \A e \in L!Task : e # c => requests'[e] = requests[e]
      /\ plist' \in [L!Service -> PlistConnection] /\ plist'[v] = p /\ \A w \in L!Service : w # v => plist'[w] = plist[w]
  <2> HIDE DEF r, p
  <2> QED BY <1>1, <1>4, <1>5, <1>6, <1>7
<1>10. \A i \in 1..Len(todo) : (i \in 1..Len(lockdownd.todo) /\ todo[i] = lockdownd.todo[i])
                               \/ (i = Len(lockdownd.todo) + 1 /\ todo[i] = x)
  <2> HIDE DEF x
  <2> QED BY <1>2, <1>3
<1>11. p.queue = (IF q = <<>> THEN q ELSE Tail(q)) /\ (p.disturbed <=> plist[v].disturbed \/ L!Waiting(v) # {})
       /\ (r.state = "waiting" <=> q = <<>>) /\ x.via = v /\ x.serial = n /\ (x.session <=> c = "upgrade")
  OBVIOUS
<1> HIDE DEF x, todo, r, p, n
<1>12. Secure(requests, plist, lockdownd, upgrade, stage)'
  <2>1. CASE upgrade.isTLS
    BY <1>0, <2>1 DEF Secure
  <2>2. CASE ~upgrade.isTLS
    <3>1. \A i \in 1..Len(todo) : todo[i].via # "tls"
      BY <1>0, <1>10, <1>11, <2>2 DEF Secure
    <3>2. \A e \in L!Task : requests'[e].via = "plain"
      BY <1>0, <1>4, <1>9, <2>2 DEF Secure
    <3>3. plist'["tls"].queue = <<>>
      BY <1>0, <1>9, <2>2 DEF Secure, L!Service
    <3> QED BY <1>0, <1>8, <2>2, <3>1, <3>2, <3>3 DEF Secure
  <2> QED BY <2>1, <2>2
<1>15. Uncrossed(lockdownd', upgrade')
  <2> SUFFICES ASSUME ~upgrade'.crossed  PROVE Uncrossed(lockdownd', upgrade')
    BY DEF Uncrossed
  <2>1. CASE upgrade'.at = upgrade.at /\ upgrade.at \notin {"session", "handshake"} /\ c # "upgrade"
    <3>1. upgrade.at \in {"none", "pair"} => \A i \in 1..Len(todo) : todo[i].via = "plain" /\ ~todo[i].session
      BY <1>0, <1>10, <1>11, <2>1 DEF Uncrossed, Secure
    <3>2. upgrade.isTLS => \A i \in 1..Len(todo) : todo[i].via = "tls" /\ ~todo[i].session
      BY <1>0, <1>10, <1>11, <2>1 DEF Uncrossed
    <3> QED BY <1>0, <1>8, <2>1, <3>1, <3>2 DEF Uncrossed
  <2>2. CASE upgrade.at = "pair" /\ upgrade'.at = "session" /\ c = "upgrade"
    <3>1. ~upgrade.isTLS /\ v = "plain" /\ ~upgrade.crossed
      BY <1>0, <2>2 DEF Secure
    <3>2. \A i \in 1..Len(lockdownd.todo) : lockdownd.todo[i].via = "plain" /\ ~lockdownd.todo[i].session
      BY <1>0, <2>2, <3>1 DEF Uncrossed
    <3>3. Len(todo) = Len(lockdownd.todo) \/ Len(todo) = Len(lockdownd.todo) + 1
      <4> HIDE DEF x
      <4> QED BY <1>2, <1>3 DEF todo
    <3>4. \A i \in 1..Len(todo) : todo[i].via = "plain" /\ (todo[i].session => i = Len(todo))
      BY <1>2, <1>3, <1>10, <1>11, <3>1, <3>2, <3>3
    <3>5. lockdownd.ssl = "off" /\ ~lockdownd.confused
      BY <1>0, <2>2, <3>1 DEF Uncrossed
    <3> QED BY <1>8, <2>2, <3>1, <3>4, <3>5 DEF Uncrossed
  <2> QED BY <2>1, <2>2
<1>13. ASSUME NEW w \in L!Service, ~plist'[w].disturbed  PROVE Alone(requests', plist'[w].queue, lockdownd'.todo, w)
  <2>1. CASE w = v
    <3>1. ~plist[v].disturbed /\ L!Waiting(v) = {}
      BY <1>9, <1>11, <1>13, <2>1
    <3>2. \A e \in L!Task : ~WaitsOn(requests, v, e)
      BY <3>1 DEF WaitsOn, L!Waiting
    <3>3. Alone(requests, q, lockdownd.todo, v)
      BY <3>1 DEF LdInv
    <3>4. q = <<>> /\ \A i \in 1..Len(lockdownd.todo) : lockdownd.todo[i].via # v
      <4>1. Len(q) = 0
        BY <1>2, <3>2, <3>3 DEF Alone
      <4> QED BY <1>2, <3>2, <3>3, <4>1 DEF Alone
    <3>5. p.queue = <<>> /\ r.state = "waiting"
      BY <1>11, <3>4
    <3>6. \A e \in L!Task : WaitsOn(requests', v, e) <=> e = c
      BY <1>4, <1>9, <3>2, <3>5 DEF WaitsOn
    <3>7. \A i \in 1..Len(todo) : todo[i].via = v => i = Len(lockdownd.todo) + 1 /\ todo[i].serial = r.serial
      BY <1>4, <1>10, <1>11, <3>4
    <3>8. \A e \in L!Task : requests'[e].state = "received" /\ requests'[e].via = v => requests'[e].got = requests'[e].serial
      BY <1>9, <3>3, <3>5 DEF Alone
    <3>9. Len(p.queue) = 0
      BY <3>5
    <3> QED BY <1>8, <1>9, <2>1, <3>6, <3>7, <3>8, <3>9 DEF Alone
  <2>2. CASE w # v
    <3>1. plist'[w] = plist[w] /\ Alone(requests, plist[w].queue, lockdownd.todo, w)
      BY <1>9, <1>13, <2>2 DEF LdInv
    <3>2. \A e \in L!Task : WaitsOn(requests', w, e) <=> WaitsOn(requests, w, e)
      BY <1>4, <1>6, <1>9, <2>2 DEF WaitsOn
    <3>3. \A e \in L!Task : WaitsOn(requests', w, e) => e # c /\ requests'[e] = requests[e]
      BY <1>4, <1>9, <2>2 DEF WaitsOn
    <3>4. \A i \in 1..Len(todo) : todo[i].via = w => i \in 1..Len(lockdownd.todo) /\ todo[i] = lockdownd.todo[i]
      BY <1>10, <1>11, <2>2
    <3>5. \A e \in L!Task : requests'[e].state = "received" /\ requests'[e].via = w => requests'[e].got = requests'[e].serial
      BY <1>4, <1>9, <2>2, <3>1 DEF Alone
    <3>6. \A i \in 1..Len(plist[w].queue) : \E e \in L!Task : WaitsOn(requests', w, e) /\ plist[w].queue[i] = requests'[e].serial
      BY <3>1, <3>2, <3>3 DEF Alone
    <3>7. \A i \in 1..Len(todo) : todo[i].via = w => \E e \in L!Task : WaitsOn(requests', w, e) /\ todo[i].serial = requests'[e].serial
      BY <3>1, <3>2, <3>3, <3>4 DEF Alone
    <3>8. \A a, e \in L!Task : WaitsOn(requests', w, a) /\ WaitsOn(requests', w, e) => a = e
      BY <3>1, <3>2 DEF Alone
    <3>9. \A i, j \in 1..Len(todo) : todo[i].via = w /\ todo[j].via = w => i = j
      BY <3>1, <3>4 DEF Alone
    <3>10. Len(plist[w].queue) <= 1 /\ (Len(plist[w].queue) = 1 => \A i \in 1..Len(todo) : todo[i].via # w)
      BY <3>1, <3>4 DEF Alone
    <3> QED BY <1>8, <3>1, <3>5, <3>6, <3>7, <3>8, <3>9, <3>10 DEF Alone
  <2> QED BY <2>1, <2>2
<1>14. LdTyped'
  BY <1>0, <1>8, <1>9 DEF LdTyped
<1> QED BY <1>12, <1>13, <1>14, <1>15 DEF LdInv

\* The beginning of a handshake goes out behind whatever is on its way.
LEMMA LdGreets ==
    ASSUME LdInv, upgrade.at = "session", lockdownd.ssl = "asked", UNCHANGED <<plist, requests, stage>>,
           upgrade' = [upgrade EXCEPT !.at = "handshake"],
           lockdownd' = [lockdownd EXCEPT !.todo = IF lockdownd.up THEN Append(@, L!Hello) ELSE @]
    PROVE  LdInv'
<1> DEFINE hello == L!Hello
           todo == IF lockdownd.up THEN Append(lockdownd.todo, hello) ELSE lockdownd.todo
<1>0. /\ stage = [at |-> stage.at, made |-> stage.made] /\ upgrade \in Upgrading
      /\ requests \in [L!Task -> Ask] /\ plist \in [L!Service -> PlistConnection] /\ lockdownd \in Lockd
      /\ Secure(requests, plist, lockdownd, upgrade, stage) /\ Uncrossed(lockdownd, upgrade)
      /\ ~upgrade.isTLS
  BY DEF LdInv, LdTyped, Secure
<1>1. hello \in Owed /\ hello.via = "hello" /\ hello = L!Hello
  BY DEF L!Hello, Owed
<1> HIDE DEF hello
<1>2. lockdownd.todo \in Seq(Owed) /\ todo \in Seq(Owed)
  BY <1>0, <1>1 DEF Lockd
<1>3. \A i \in 1..Len(todo) : (i \in 1..Len(lockdownd.todo) /\ todo[i] = lockdownd.todo[i])
                              \/ (i = Len(lockdownd.todo) + 1 /\ todo[i] = hello)
  BY <1>1, <1>2
<1>4. Len(todo) = Len(lockdownd.todo) \/ Len(todo) = Len(lockdownd.todo) + 1
  BY <1>1, <1>2
<1>5. lockdownd' = [lockdownd EXCEPT !.todo = todo]
  BY <1>1
<1> HIDE DEF todo
<1>6. /\ lockdownd' \in Lockd /\ lockdownd'.todo = todo /\ lockdownd'.ssl = lockdownd.ssl
      /\ lockdownd'.confused = lockdownd.confused
  BY <1>0, <1>2, <1>5 DEF Lockd
<1>7. /\ upgrade' \in Upgrading /\ upgrade'.at = "handshake" /\ ~upgrade'.isTLS
      /\ upgrade'.crossed = upgrade.crossed
  BY <1>0 DEF Upgrading
<1>8. LdTyped'
  BY <1>0, <1>6, <1>7 DEF LdTyped
<1>9. Secure(requests, plist, lockdownd, upgrade, stage)'
  BY <1>0, <1>1, <1>3, <1>6, <1>7 DEF Secure
<1>10. Uncrossed(lockdownd', upgrade')
  <2> SUFFICES ASSUME ~upgrade.crossed  PROVE Uncrossed(lockdownd', upgrade')
    BY <1>7 DEF Uncrossed
  <2>1. Len(lockdownd.todo) = 0 /\ ~lockdownd.confused
    BY <1>0 DEF Uncrossed
  <2>2. Len(todo) <= 1 /\ \A i \in 1..Len(todo) : todo[i] = L!Hello
    BY <1>1, <1>3, <1>4, <2>1
  <2> QED BY <1>6, <1>7, <2>1, <2>2 DEF Uncrossed
<1>11. ASSUME NEW v \in L!Service, ~plist'[v].disturbed  PROVE Alone(requests', plist'[v].queue, lockdownd'.todo, v)
  <2>1. Alone(requests, plist[v].queue, lockdownd.todo, v)
    BY <1>11 DEF LdInv
  <2>2. \A i \in 1..Len(todo) : todo[i].via = v => i \in 1..Len(lockdownd.todo) /\ todo[i] = lockdownd.todo[i]
    BY <1>1, <1>3, <1>11 DEF L!Service
  <2> QED BY <1>6, <2>1, <2>2 DEF Alone
<1> QED BY <1>8, <1>9, <1>10, <1>11 DEF LdInv

LEMMA LdAsks ==
    ASSUME LdInv, (\E c \in Asker : L!GetValue(c)) \/ L!ReadPairRecord \/ L!SessionStarted \/ L!RelayStopped
    PROVE  LdInv'
<1>1. /\ stage = [at |-> stage.at, made |-> stage.made]
      /\ upgrade \in Upgrading
      /\ upgrade.at # "none" => stage.at \in {"securing", "ready", "closed"}
      /\ stage.made # "user" /\ stage.at \in {"ready", "closed"} => upgrade.at = "done"
      /\ upgrade.crossed => stage.made = "user"
      /\ upgrade.isTLS => upgrade.at = "done"
  BY DEF LdInv, LdTyped, Secure
<1>2. ASSUME upgrade.at \in {"pair", "session"}, L!GivesUp, UNCHANGED <<plist, requests, lockdownd, stage>>  PROVE LdInv'
  <2>1. /\ upgrade' \in Upgrading /\ upgrade'.isTLS = upgrade.isTLS /\ upgrade'.crossed = upgrade.crossed
        /\ upgrade'.at = "done"
    BY <1>1, <1>2 DEF L!GivesUp, Upgrading
  <2>2. ~upgrade.isTLS
    BY <1>1, <1>2
  <2> QED BY <1>1, <1>2, <2>1, <2>2, LdQuiet
<1>3. ASSUME NEW c \in Asker, L!GetValue(c)  PROVE LdInv'
  <2>1. c \in L!Task /\ c # "upgrade"
    BY NamesAssumption DEF L!Task
  <2>2. L!Current \in L!Service /\ L!Current = (IF upgrade.isTLS THEN "tls" ELSE "plain")
    BY DEF L!Current, L!Service
  <2>3. /\ L!Send(c, L!Current) /\ stage' = stage /\ stage.at = "ready"
        /\ upgrade' = [upgrade EXCEPT !.crossed = @ \/ upgrade.at \in {"session", "handshake"}]
    BY <1>3 DEF L!GetValue, L!At
  <2>4. /\ upgrade' \in Upgrading /\ upgrade'.at = upgrade.at /\ upgrade'.isTLS = upgrade.isTLS
        /\ upgrade'.crossed <=> upgrade.crossed \/ upgrade.at \in {"session", "handshake"}
    BY <1>1, <2>3 DEF Upgrading
  <2>5. upgrade'.crossed => stage.made = "user"
    BY <1>1, <2>3, <2>4
  <2> QED BY <1>1, <2>1, <2>2, <2>3, <2>4, <2>5, LdSend
<1>4. CASE L!ReadPairRecord
  <2>1. upgrade.at = "pair" /\ stage' = stage /\ ~upgrade.isTLS
    BY <1>1, <1>4 DEF L!ReadPairRecord
  <2>2. CASE L!Send("upgrade", "plain") /\ upgrade' = [upgrade EXCEPT !.at = "session"]
    <3>1. /\ upgrade' \in Upgrading /\ upgrade'.isTLS = upgrade.isTLS /\ upgrade'.crossed = upgrade.crossed
          /\ upgrade'.at = "session"
      BY <1>1, <2>2 DEF Upgrading
    <3>2. "upgrade" \in L!Task /\ "plain" \in L!Service
      BY DEF L!Task, L!Service
    <3> QED BY <1>1, <2>1, <2>2, <3>1, <3>2, LdSend
  <2>3. CASE L!GivesUp /\ UNCHANGED <<plist, requests, lockdownd>>
    BY <1>2, <2>1, <2>3
  <2> QED BY <1>4, <2>2, <2>3 DEF L!ReadPairRecord
<1>5. CASE L!SessionStarted
  <2>1. upgrade.at = "session" /\ UNCHANGED <<plist, requests, stage>>
    BY <1>5 DEF L!SessionStarted
  <2>2. CASE L!GivesUp /\ UNCHANGED lockdownd
    BY <1>2, <2>1, <2>2
  <2>3. CASE /\ upgrade' = [upgrade EXCEPT !.at = "handshake"] /\ lockdownd.ssl = "asked"
             /\ lockdownd' = [lockdownd EXCEPT !.todo = IF lockdownd.up THEN Append(@, L!Hello) ELSE @]
    BY <2>1, <2>3, LdGreets
  <2> QED BY <1>5, <2>2, <2>3 DEF L!SessionStarted
<1>6. CASE L!RelayStopped
  <2>1. UNCHANGED <<plist, requests, lockdownd, stage, upgrade>>
    BY <1>6 DEF L!RelayStopped
  <2> QED BY <1>1, <2>1, LdQuiet
<1> QED BY <1>3, <1>4, <1>5, <1>6

LEMMA LdPolls ==
    ASSUME LdInv, NEW c \in L!Task, L!Polls(c)
    PROVE  LdInv'
<1> DEFINE v == requests[c].via
           q == plist[v].queue
           r == [requests[c] EXCEPT !.state = "received", !.got = Head(q)]
           t == Tail(q)
           p == [plist[v] EXCEPT !.queue = t]
<1>0. /\ LdTyped /\ Secure(requests, plist, lockdownd, upgrade, stage) /\ Uncrossed(lockdownd', upgrade')
      /\ UNCHANGED <<stage, upgrade, lockdownd>>
  BY DEF LdInv, L!Polls
<1>1. /\ requests \in [L!Task -> Ask] /\ requests[c] \in Ask /\ plist \in [L!Service -> PlistConnection]
      /\ lockdownd \in Lockd
  BY <1>0 DEF LdTyped
<1>2. v \in L!Service /\ plist[v] \in PlistConnection /\ requests[c].serial \in Nat
  BY <1>1 DEF Ask
<1>3. q \in Seq(Nat) /\ q # <<>> /\ plist[v].disturbed \in BOOLEAN /\ WaitsOn(requests, v, c)
  BY <1>2 DEF PlistConnection, L!Polls, WaitsOn
<1>4. Head(q) \in Nat /\ t \in Seq(Nat) /\ Len(q) \in Nat /\ Len(q) >= 1 /\ Len(t) = Len(q) - 1 /\ Head(q) = q[1]
  BY <1>3
<1>5. r \in Ask /\ r.via = v /\ r.serial = requests[c].serial /\ r.state = "received" /\ r.got = Head(q)
  <2> HIDE DEF q
  <2> QED BY <1>1, <1>4 DEF Ask
<1>6. p \in PlistConnection /\ p.queue = t /\ p.disturbed = plist[v].disturbed
  <2> HIDE DEF t
  <2> QED BY <1>2, <1>4 DEF PlistConnection
<1>7. requests' = [requests EXCEPT ![c] = r] /\ plist' = [plist EXCEPT ![v] = p]
  BY DEF L!Polls, L!Shifted
<1> HIDE DEF r, p
<1>8. /\ requests' \in [L!Task -> Ask] /\ requests'[c] = r /\ \A e \in L!Task : e # c => requests'[e] = requests[e]
      /\ plist' \in [L!Service -> PlistConnection] /\ plist'[v] = p /\ \A w \in L!Service : w # v => plist'[w] = plist[w]
  BY <1>1, <1>2, <1>5, <1>6, <1>7
<1>9. LdTyped'
  BY <1>0, <1>8 DEF LdTyped
<1>10. \A e \in L!Task : requests'[e].via = requests[e].via
  BY <1>5, <1>8
<1>11. Secure(requests, plist, lockdownd, upgrade, stage)'
  <2>1. CASE upgrade.isTLS
    BY <1>0, <2>1 DEF Secure
  <2>2. CASE ~upgrade.isTLS
    <3>1. v = "plain"
      BY <1>0, <2>2 DEF Secure
    <3> QED BY <1>0, <1>8, <1>10, <2>2, <3>1 DEF Secure, L!Service
  <2> QED BY <2>1, <2>2
<1>12. ASSUME NEW w \in L!Service, ~plist'[w].disturbed  PROVE Alone(requests', plist'[w].queue, lockdownd'.todo, w)
  <2>1. CASE w = v
    <3>1. Alone(requests, q, lockdownd.todo, v)
      BY <1>6, <1>8, <1>12, <2>1 DEF LdInv
    <3>2. Len(q) = 1 /\ p.queue = t /\ Len(t) = 0
      <4>1. Len(q) <= 1
        BY <3>1 DEF Alone
      <4> HIDE DEF t, q
      <4> QED BY <1>4, <1>6, <4>1
    <3>3. \A i \in 1..Len(lockdownd.todo) : lockdownd.todo[i].via # v
      BY <3>1, <3>2 DEF Alone
    <3>4. PICK e \in L!Task : WaitsOn(requests, v, e) /\ q[1] = requests[e].serial
      BY <3>1, <3>2 DEF Alone
    <3>5. e = c
      BY <1>3, <3>1, <3>4 DEF Alone
    <3>6. r.got = r.serial
      BY <1>4, <1>5, <3>4, <3>5
    <3>7. \A a \in L!Task : ~WaitsOn(requests', v, a)
      BY <1>3, <1>5, <1>8, <3>1 DEF Alone, WaitsOn
    <3>8. \A a \in L!Task : requests'[a].state = "received" /\ requests'[a].via = v => requests'[a].got = requests'[a].serial
      BY <1>8, <3>1, <3>6 DEF Alone
    <3>9. plist'[w].queue = t /\ lockdownd' = lockdownd
      BY <1>0, <1>8, <2>1, <3>2
    <3> HIDE DEF q, v, t
    <3> QED BY <2>1, <3>2, <3>3, <3>7, <3>8, <3>9 DEF Alone
  <2>2. CASE w # v
    <3>1. plist'[w] = plist[w] /\ Alone(requests, plist[w].queue, lockdownd.todo, w)
      BY <1>8, <1>12, <2>2 DEF LdInv
    <3>2. \A a \in L!Task : (WaitsOn(requests', w, a) <=> WaitsOn(requests, w, a))
                            /\ (WaitsOn(requests', w, a) => requests'[a] = requests[a])
      BY <1>3, <1>5, <1>8, <2>2 DEF WaitsOn
    <3>3. \A a \in L!Task : requests'[a].state = "received" /\ requests'[a].via = w => requests'[a].got = requests'[a].serial
      BY <1>5, <1>8, <2>2, <3>1 DEF Alone
    <3>4. lockdownd' = lockdownd
      BY <1>0
    <3> QED BY <3>1, <3>2, <3>3, <3>4 DEF Alone
  <2> QED BY <2>1, <2>2
<1> QED BY <1>0, <1>9, <1>11, <1>12 DEF LdInv

LEMMA LdTimesOut ==
    ASSUME LdInv, NEW c \in L!Task, L!ReceiveTimesOut(c)
    PROVE  LdInv'
<1> DEFINE v == requests[c].via
           r == [requests[c] EXCEPT !.state = "timedOut"]
           p == [plist[v] EXCEPT !.disturbed = TRUE]
<1>0. /\ LdTyped /\ Secure(requests, plist, lockdownd, upgrade, stage) /\ Uncrossed(lockdownd', upgrade')
      /\ UNCHANGED <<stage, upgrade, lockdownd>>
  BY DEF LdInv, L!ReceiveTimesOut
<1>1. /\ requests \in [L!Task -> Ask] /\ requests[c] \in Ask /\ plist \in [L!Service -> PlistConnection]
  BY <1>0 DEF LdTyped
<1>2. v \in L!Service /\ plist[v] \in PlistConnection
  BY <1>1 DEF Ask
<1>3. r \in Ask /\ r.via = v /\ r.state = "timedOut"
  BY <1>1 DEF Ask
<1>4. p \in PlistConnection /\ p.queue = plist[v].queue /\ p.disturbed
  BY <1>2 DEF PlistConnection
<1>5. requests' = [requests EXCEPT ![c] = r] /\ plist' = [plist EXCEPT ![v] = p]
  BY DEF L!ReceiveTimesOut
<1> HIDE DEF r, p
<1>6. /\ requests' \in [L!Task -> Ask] /\ requests'[c] = r /\ \A e \in L!Task : e # c => requests'[e] = requests[e]
      /\ plist' \in [L!Service -> PlistConnection] /\ plist'[v] = p /\ \A w \in L!Service : w # v => plist'[w] = plist[w]
  BY <1>1, <1>2, <1>3, <1>4, <1>5
<1>7. LdTyped'
  BY <1>0, <1>6 DEF LdTyped
<1>8. /\ \A e \in L!Task : requests'[e].via = requests[e].via
      /\ \A w \in L!Service : plist'[w].queue = plist[w].queue
  BY <1>3, <1>4, <1>6
<1>9. Secure(requests, plist, lockdownd, upgrade, stage)'
  BY <1>0, <1>8 DEF Secure, L!Service
<1>10. ASSUME NEW w \in L!Service, ~plist'[w].disturbed  PROVE Alone(requests', plist'[w].queue, lockdownd'.todo, w)
  <2>1. w # v
    BY <1>4, <1>6, <1>10
  <2>2. plist'[w] = plist[w] /\ Alone(requests, plist[w].queue, lockdownd.todo, w)
    BY <1>6, <1>10, <2>1 DEF LdInv
  <2>3. \A a \in L!Task : (WaitsOn(requests', w, a) <=> WaitsOn(requests, w, a))
                          /\ (WaitsOn(requests', w, a) => requests'[a] = requests[a])
    BY <1>3, <1>6, <2>1 DEF WaitsOn
  <2>4. \A a \in L!Task : requests'[a].state = "received" /\ requests'[a].via = w => requests'[a].got = requests'[a].serial
    BY <1>3, <1>6, <2>2 DEF Alone
  <2>5. lockdownd' = lockdownd
    BY <1>0
  <2> QED BY <2>2, <2>3, <2>4, <2>5 DEF Alone
<1> QED BY <1>0, <1>7, <1>9, <1>10 DEF LdInv

LEMMA LdFewer ==
    ASSUME NEW rq, NEW q, NEW todo, NEW v, Alone(rq, q, todo, v), NEW q2 \in {q, <<>>}, NEW todo2 \in {todo, <<>>}
    PROVE  Alone(rq, q2, todo2, v)
<1>1. q2 = <<>> => Len(q2) = 0
  OBVIOUS
<1>2. todo2 = <<>> => Len(todo2) = 0
  OBVIOUS
<1> QED BY <1>1, <1>2 DEF Alone

LEMMA LdEnds ==
    ASSUME LdInv, L!RelayEnds \/ L!Close \/ L!Handshake
    PROVE  LdInv'
<1>0. /\ stage = [at |-> stage.at, made |-> stage.made]
      /\ upgrade \in Upgrading
      /\ (upgrade.at # "none" => stage.at \in {"securing", "ready", "closed"}) /\ (upgrade.isTLS => upgrade.at = "done")
      /\ (stage.made # "user" /\ stage.at \in {"ready", "closed"} => upgrade.at = "done")
      /\ Uncrossed(lockdownd, upgrade)
      /\ requests \in [L!Task -> Ask] /\ plist \in [L!Service -> PlistConnection] /\ lockdownd \in Lockd
      /\ Secure(requests, plist, lockdownd, upgrade, stage)
  BY DEF LdInv, LdTyped, Secure
<1>1. Len(<<>>) = 0 /\ <<>> \in Seq(Nat) /\ <<>> \in Seq(Owed)
  OBVIOUS
<1>2. CASE L!RelayEnds
  <2>1. lockdownd' = [lockdownd EXCEPT !.up = FALSE, !.todo = <<>>] /\ UNCHANGED <<stage, upgrade, plist, requests>>
    BY <1>2 DEF L!RelayEnds
  <2>2. lockdownd' \in Lockd /\ lockdownd'.todo = <<>> /\ ~lockdownd'.up /\ lockdownd'.ssl = lockdownd.ssl
        /\ lockdownd'.confused = lockdownd.confused
    BY <1>0, <1>1, <2>1 DEF Lockd
  <2>3. LdTyped'
    BY <1>0, <2>1, <2>2 DEF LdTyped
  <2>4. Secure(requests, plist, lockdownd, upgrade, stage)'
    BY <1>0, <1>1, <2>1, <2>2 DEF Secure
  <2>5. ASSUME NEW v \in L!Service, ~plist'[v].disturbed  PROVE Alone(requests', plist'[v].queue, lockdownd'.todo, v)
    BY <2>1, <2>2, <2>5, LdFewer DEF LdInv
  <2>6. Uncrossed(lockdownd', upgrade')
    BY <1>0, <1>1, <2>1, <2>2 DEF Uncrossed
  <2> QED BY <2>3, <2>4, <2>5, <2>6 DEF LdInv
<1>3. CASE L!Close
  <2> DEFINE v == L!Current
             p == [plist[v] EXCEPT !.queue = <<>>]
  <2>1. stage' = [stage EXCEPT !.at = "closed"] /\ stage.at = "ready" /\ plist' = [plist EXCEPT ![v].queue = <<>>]
        /\ UNCHANGED <<upgrade, requests, lockdownd>>
    BY <1>3 DEF L!Close, L!Goto, L!At
  <2>2. v \in L!Service
    BY DEF L!Current, L!Service
  <2>3. p \in PlistConnection /\ p.queue = <<>> /\ p.disturbed = plist[v].disturbed
    BY <1>0, <1>1, <2>2 DEF PlistConnection
  <2>4. plist' = [plist EXCEPT ![v] = p]
    BY <2>1
  <2> HIDE DEF v, p
  <2>5. /\ plist' \in [L!Service -> PlistConnection]
        /\ \A w \in L!Service : plist'[w].queue \in {plist[w].queue, <<>>} /\ plist'[w].disturbed = plist[w].disturbed
    BY <1>0, <2>2, <2>3, <2>4
  <2>6. stage' = [at |-> stage'.at, made |-> stage'.made] /\ stage'.at = "closed" /\ stage'.made = stage.made
    BY <1>0, <2>1
  <2>7. LdTyped'
    BY <1>0, <2>1, <2>5, <2>6 DEF LdTyped
  <2>8. Secure(requests, plist, lockdownd, upgrade, stage)'
    BY <1>0, <2>1, <2>5, <2>6 DEF Secure, L!Service
  <2>9. ASSUME NEW w \in L!Service, ~plist'[w].disturbed  PROVE Alone(requests', plist'[w].queue, lockdownd'.todo, w)
    BY <2>1, <2>5, <2>9, LdFewer DEF LdInv
  <2> QED BY <1>0, <2>1, <2>7, <2>8, <2>9 DEF LdInv
<1>4. CASE L!Handshake
  <2>1. upgrade.at = "handshake" /\ ~upgrade.isTLS /\ UNCHANGED <<stage, requests>>
    BY <1>0, <1>4 DEF L!Handshake
  <2>2. CASE L!GivesUp /\ UNCHANGED <<plist, lockdownd>>
    <3>1. /\ upgrade' \in Upgrading /\ upgrade'.isTLS = upgrade.isTLS /\ upgrade'.crossed = upgrade.crossed
          /\ upgrade'.at = "done"
      BY <1>0, <2>2 DEF L!GivesUp, Upgrading
    <3> QED BY <1>0, <2>1, <2>2, <3>1, LdQuiet
  <2>3. CASE /\ lockdownd.ssl = "on" /\ UNCHANGED lockdownd
             /\ plist' = [plist EXCEPT !["tls"] = L!NewService]
             /\ upgrade' = [upgrade EXCEPT !.at = "done", !.isTLS = TRUE]
    <3>1. upgrade' \in Upgrading /\ upgrade'.at = "done" /\ upgrade'.isTLS /\ upgrade'.crossed = upgrade.crossed
      BY <1>0, <2>3 DEF Upgrading
    <3>2. L!NewService \in PlistConnection /\ L!NewService.queue = <<>>
      BY <1>1 DEF L!NewService, PlistConnection
    <3>3. /\ plist' \in [L!Service -> PlistConnection] /\ plist'["tls"].queue = <<>>
          /\ \A v \in L!Service : v # "tls" => plist'[v] = plist[v]
      BY <1>0, <2>3, <3>2 DEF L!Service
    <3>4. LdTyped'
      BY <1>0, <2>1, <2>3, <3>1, <3>3 DEF LdTyped
    <3>5. Secure(requests, plist, lockdownd, upgrade, stage)'
      BY <1>0, <2>1, <3>1 DEF Secure
    <3>7. Uncrossed(lockdownd', upgrade')
      BY <1>0, <2>1, <2>3, <3>1 DEF Uncrossed
    <3>6. ASSUME NEW v \in L!Service, ~plist'[v].disturbed  PROVE Alone(requests', plist'[v].queue, lockdownd'.todo, v)
      <4>1. CASE v = "tls"
        <5>1. (\A c \in L!Task : requests'[c].via # v) /\ (\A i \in 1..Len(lockdownd.todo) : lockdownd.todo[i].via # v)
          BY <1>0, <2>1, <4>1 DEF Secure
        <5> QED BY <1>1, <2>3, <3>3, <4>1, <5>1 DEF Alone, WaitsOn
      <4>2. CASE v # "tls"
        BY <2>1, <2>3, <3>3, <3>6, <4>2 DEF LdInv
      <4> QED BY <4>1, <4>2
    <3> QED BY <3>4, <3>5, <3>6, <3>7 DEF LdInv
  <2> QED BY <1>4, <2>2, <2>3 DEF L!Handshake
<1> QED BY <1>2, <1>3, <1>4

\* The first of what is on its way is read.
LEMMA LdRest ==
    ASSUME NEW rq, NEW q, NEW v, NEW todo \in Seq(Owed), todo # <<>>, Alone(rq, q, todo, v)
    PROVE  /\ \A i \in 1..Len(Tail(todo)) :
                 Tail(todo)[i].via = v => \E c \in L!Task : WaitsOn(rq, v, c) /\ Tail(todo)[i].serial = rq[c].serial
           /\ \A i, j \in 1..Len(Tail(todo)) : Tail(todo)[i].via = v /\ Tail(todo)[j].via = v => i = j
           /\ Len(q) = 1 => \A i \in 1..Len(Tail(todo)) : Tail(todo)[i].via # v
           /\ Alone(rq, q, Tail(todo), v)
<1> DEFINE rest == Tail(todo)
<1>1. \A i \in 1..Len(rest) : i + 1 \in 1..Len(todo) /\ rest[i] = todo[i + 1] /\ i + 1 # 1
  OBVIOUS
<1> HIDE DEF rest
<1>2. \A i \in 1..Len(rest) : rest[i].via = v => \E c \in L!Task : WaitsOn(rq, v, c) /\ rest[i].serial = rq[c].serial
  BY <1>1 DEF Alone
<1>3. \A i, j \in 1..Len(rest) : rest[i].via = v /\ rest[j].via = v => i = j
  <2>1. \A i, j \in 1..Len(rest) : i + 1 = j + 1 => i = j
    OBVIOUS
  <2> QED BY <1>1, <2>1 DEF Alone
<1>4. Len(q) = 1 => \A i \in 1..Len(rest) : rest[i].via # v
  BY <1>1 DEF Alone
<1>5. Alone(rq, q, rest, v)
  BY <1>2, <1>3, <1>4 DEF Alone
<1> QED BY <1>2, <1>3, <1>4, <1>5 DEF rest

LEMMA LdAnswers ==
    ASSUME LdInv, L!Answers
    PROVE  LdInv'
<1> DEFINE todo == lockdownd.todo
           x == Head(todo)
           rest == Tail(todo)
           expected == CASE lockdownd.ssl = "off" -> "plain" [] lockdownd.ssl = "asked" -> "hello" [] OTHER -> "tls"
<1>0. /\ upgrade \in Upgrading
      /\ requests \in [L!Task -> Ask] /\ plist \in [L!Service -> PlistConnection] /\ lockdownd \in Lockd
      /\ Secure(requests, plist, lockdownd, upgrade, stage) /\ UNCHANGED <<stage, upgrade, requests>>
      /\ Uncrossed(lockdownd, upgrade)
      /\ lockdownd.up /\ todo # <<>> /\ todo \in Seq(Owed)
  BY DEF LdInv, LdTyped, L!Answers, Lockd
<1>1. /\ x \in Owed /\ x = todo[1] /\ 1 \in 1..Len(todo) /\ rest \in Seq(Owed) /\ Len(rest) = Len(todo) - 1
      /\ \A i \in 1..Len(rest) : i + 1 \in 1..Len(todo) /\ rest[i] = todo[i + 1] /\ i + 1 # 1
  BY <1>0
<1>12. Len(rest) = Len(todo) - 1
  BY <1>1
<1>2. /\ x.serial \in Nat /\ x.session \in BOOLEAN /\ x.via \in {"plain", "tls", "hello"}
      /\ (x.via = "hello" <=> x = L!Hello) /\ (x = L!Hello => ~x.session)
  BY <1>1, LdOwed
<1>3. Len(todo) \in Nat /\ Len(todo) >= 1 /\ Len(rest) \in Nat /\ Len(<<>>) = 0 /\ <<>> \in Seq(Owed)
  BY <1>0, <1>1
<1>4. /\ lockdownd.ssl \in {"off", "asked", "on"}
      /\ lockdownd.ssl = "off" => expected = "plain"
      /\ lockdownd.ssl = "asked" => expected = "hello"
      /\ lockdownd.ssl = "on" => expected = "tls"
  BY <1>0 DEF Lockd
<1>10. CASE x = L!Hello /\ x.via = expected
  <2>1. lockdownd.ssl = "asked"
    BY <1>2, <1>4, <1>10
  <2>2. lockdownd' = [lockdownd EXCEPT !.todo = rest, !.ssl = "on"] /\ plist' = plist
    <3>1. /\ \E ssl \in IF x.session THEN {"asked", "off"} ELSE IF x = L!Hello THEN {"on"} ELSE {lockdownd.ssl} :
                 lockdownd' = [lockdownd EXCEPT !.todo = rest, !.ssl = ssl]
          /\ plist' = IF x = L!Hello \/ L!At("closed") THEN plist
                      ELSE [plist EXCEPT ![x.via].queue = Append(@, x.serial)]
      BY <1>10 DEF L!Answers
    <3> HIDE DEF x, rest
    <3> QED BY <1>2, <1>10, <3>1
  <2> HIDE DEF x, rest, expected
  <2>3. /\ lockdownd' \in Lockd /\ lockdownd'.todo = rest /\ lockdownd'.ssl = "on"
        /\ lockdownd'.confused = lockdownd.confused
    BY <1>0, <1>1, <2>2 DEF Lockd
  <2>4. LdTyped'
    BY <1>0, <2>2, <2>3 DEF LdInv, LdTyped
  <2>5. Secure(requests, plist, lockdownd, upgrade, stage)'
    <3>1. ASSUME ~upgrade.isTLS  PROVE \A i \in 1..Len(rest) : rest[i].via # "tls"
      BY <1>0, <1>1, <3>1 DEF Secure
    <3> QED BY <1>0, <2>2, <2>3, <3>1 DEF Secure
  <2>6. Uncrossed(lockdownd', upgrade')
    <3>1. ~upgrade.crossed => upgrade.at \notin {"none", "pair", "session"} /\ ~upgrade.isTLS
      BY <1>0, <1>3, <2>1 DEF Uncrossed
    <3>2. ASSUME ~upgrade.crossed, upgrade.at = "handshake"  PROVE Len(rest) = 0 /\ ~lockdownd.confused
      <4>1. ~lockdownd.confused
        BY <1>0, <3>2 DEF Uncrossed
      <4> DEFINE n == Len(todo)
                 m == Len(rest)
      <4>2. n <= 1
        BY <1>0, <3>2 DEF Uncrossed
      <4>3. n \in Nat
        BY <1>3
      <4>4. n >= 1
        BY <1>3
      <4>5. m = n - 1
        BY <1>12
      <4> HIDE DEF n, m
      <4>6. m = 0
        BY <4>2, <4>3, <4>4, <4>5
      <4> QED BY <4>1, <4>6 DEF m
    <3> QED BY <1>0, <2>3, <3>1, <3>2 DEF Uncrossed
  <2>7. ASSUME NEW v \in L!Service, ~plist'[v].disturbed  PROVE Alone(requests', plist'[v].queue, lockdownd'.todo, v)
    <3>1. Alone(requests, plist[v].queue, todo, v)
      BY <2>2, <2>7 DEF LdInv
    <3> QED BY <1>0, <2>2, <2>3, <3>1, LdRest DEF rest
  <2> QED BY <2>4, <2>5, <2>6, <2>7 DEF LdInv
<1>6. CASE x # L!Hello /\ x.via = expected
  <2>12. x.via \in L!Service /\ plist[x.via] \in PlistConnection /\ plist[x.via].queue \in Seq(Nat)
    <3>1. x.via \in L!Service
      BY <1>2, <1>6 DEF L!Service
    <3> QED BY <1>0, <3>1 DEF PlistConnection
  <2>13. /\ \E ssl \in IF x.session THEN {"asked", "off"} ELSE IF x = L!Hello THEN {"on"} ELSE {lockdownd.ssl} :
               lockdownd' = [lockdownd EXCEPT !.todo = rest, !.ssl = ssl]
         /\ plist' = IF x = L!Hello \/ L!At("closed") THEN plist
                     ELSE [plist EXCEPT ![x.via].queue = Append(@, x.serial)]
    BY <1>6 DEF L!Answers
  <2>1. PICK ssl \in IF x.session THEN {"asked", "off"} ELSE {lockdownd.ssl} :
                 lockdownd' = [lockdownd EXCEPT !.todo = rest, !.ssl = ssl]
    <3> HIDE DEF x, rest
    <3> QED BY <1>6, <2>13
  <2> DEFINE q == IF L!At("closed") THEN plist[x.via].queue ELSE Append(plist[x.via].queue, x.serial)
             p == [plist[x.via] EXCEPT !.queue = q]
  <2>3. q \in Seq(Nat)
    BY <1>2, <2>12
  <2>4. plist' = [plist EXCEPT ![x.via] = p]
    <3>1. CASE L!At("closed")
      <4>1. plist' = plist /\ p = [plist[x.via] EXCEPT !.queue = plist[x.via].queue]
        BY <2>13, <3>1
      <4> HIDE DEF p, x
      <4> QED BY <1>0, <2>12, <4>1 DEF PlistConnection
    <3>2. CASE ~L!At("closed")
      BY <1>6, <2>13, <3>2
    <3> QED BY <3>1, <3>2
  <2>5. p \in PlistConnection /\ p.queue = q /\ p.disturbed = plist[x.via].disturbed
    <3> HIDE DEF q
    <3> QED BY <2>12, <2>3 DEF PlistConnection
  <2>6. q = plist[x.via].queue \/ q = Append(plist[x.via].queue, x.serial)
    OBVIOUS
  <2> HIDE DEF p, q, x, rest
  <2>7. /\ plist' \in [L!Service -> PlistConnection] /\ plist'[x.via] = p
        /\ \A v \in L!Service : v # x.via => plist'[v] = plist[v]
    BY <1>0, <2>12, <2>4, <2>5
  <2>8. /\ lockdownd' \in Lockd /\ lockdownd'.todo = rest /\ lockdownd'.confused = lockdownd.confused
        /\ lockdownd'.ssl = ssl
    BY <1>0, <1>1, <2>1 DEF Lockd
  <2>9. LdTyped'
    BY <1>0, <2>7, <2>8 DEF LdInv, LdTyped
  <2>10. Secure(requests, plist, lockdownd, upgrade, stage)'
    <3>1. CASE upgrade.isTLS
      BY <1>0, <3>1 DEF Secure
    <3>2. CASE ~upgrade.isTLS
      <4>1. \A i \in 1..Len(rest) : rest[i].via # "tls"
        BY <1>0, <1>1, <3>2 DEF Secure
      <4>2. x.via # "tls"
        BY <1>0, <1>1, <3>2 DEF Secure
      <4>3. plist'["tls"] = plist["tls"] /\ plist["tls"].queue = <<>>
        BY <1>0, <2>7, <3>2, <4>2 DEF Secure, L!Service
      <4> QED BY <1>0, <2>8, <3>2, <4>1, <4>3 DEF Secure
    <3> QED BY <3>1, <3>2
  <2>14. Uncrossed(lockdownd', upgrade')
    <3> SUFFICES ASSUME ~upgrade.crossed  PROVE Uncrossed(lockdownd', upgrade')
      BY <1>0 DEF Uncrossed
    <3>1. upgrade.at \in {"none", "pair"} =>
             lockdownd'.ssl = "off" /\ ~lockdownd.confused /\ \A i \in 1..Len(rest) : rest[i].via = "plain" /\ ~rest[i].session
      BY <1>0, <1>1, <2>1, <2>8 DEF Uncrossed
    <3>2. ASSUME upgrade.at = "session"
          PROVE  /\ ~lockdownd.confused /\ lockdownd'.ssl # "on" /\ (lockdownd'.ssl = "asked" => Len(rest) = 0)
                 /\ \A i \in 1..Len(rest) : rest[i].via = "plain" /\ (rest[i].session => i = Len(rest))
      <4>1. /\ ~lockdownd.confused /\ lockdownd.ssl = "off" /\ (x.session => Len(todo) = 1)
            /\ \A i \in 1..Len(todo) : todo[i].via = "plain" /\ (todo[i].session => i = Len(todo))
        <5>1. /\ ~lockdownd.confused /\ lockdownd.ssl # "on" /\ (lockdownd.ssl = "asked" => Len(todo) = 0)
              /\ \A i \in 1..Len(todo) : todo[i].via = "plain" /\ (todo[i].session => i = Len(todo))
          BY <1>0, <3>2 DEF Uncrossed
        <5>2. lockdownd.ssl = "off"
          BY <1>3, <1>4, <5>1
        <5>3. x.session => Len(todo) = 1
          BY <1>1, <5>1
        <5> QED BY <5>1, <5>2, <5>3
      <4>2. \A i \in 1..Len(rest) : rest[i].via = "plain" /\ (rest[i].session => i = Len(rest))
        BY <1>1, <1>3, <4>1
      <4>3. lockdownd'.ssl # "on" /\ (lockdownd'.ssl = "asked" => Len(rest) = 0)
        BY <1>1, <1>3, <2>1, <2>8, <4>1
      <4> QED BY <4>1, <4>2, <4>3
    <3>3. upgrade.at # "handshake"
      BY <1>0, <1>1, <1>6 DEF Uncrossed
    <3>4. upgrade.isTLS => lockdownd'.ssl = "on" /\ ~lockdownd.confused /\ \A i \in 1..Len(rest) : rest[i].via = "tls" /\ ~rest[i].session
      BY <1>0, <1>1, <2>1, <2>8 DEF Uncrossed
    <3> QED BY <1>0, <2>8, <3>1, <3>2, <3>3, <3>4 DEF Uncrossed
  <2>11. ASSUME NEW v \in L!Service, ~plist'[v].disturbed  PROVE Alone(requests', plist'[v].queue, lockdownd'.todo, v)
    <3>1. Alone(requests, plist[v].queue, todo, v)
      BY <2>5, <2>7, <2>11 DEF LdInv
    <3>3. Alone(requests, plist[v].queue, rest, v)
      BY <1>0, <3>1, LdRest DEF rest
    <3>2. /\ \A i \in 1..Len(rest) : rest[i].via = v => \E c \in L!Task : WaitsOn(requests, v, c) /\ rest[i].serial = requests[c].serial
          /\ \A i, j \in 1..Len(rest) : rest[i].via = v /\ rest[j].via = v => i = j
          /\ Len(plist[v].queue) = 1 => \A i \in 1..Len(rest) : rest[i].via # v
      BY <3>3 DEF Alone
    <3>4. CASE v # x.via
      BY <1>0, <2>7, <2>8, <3>1, <3>2, <3>4 DEF Alone
    <3>5. CASE v = x.via
      <4>1. \A i \in 1..Len(rest) : rest[i].via # v
        BY <1>1, <3>1, <3>5 DEF Alone
      <4>2. CASE q = plist[v].queue
        BY <1>0, <2>5, <2>7, <2>8, <3>1, <3>2, <3>5, <4>1, <4>2 DEF Alone
      <4>3. CASE q = Append(plist[v].queue, x.serial)
        <5>1. Len(plist[v].queue) # 1 /\ Len(plist[v].queue) <= 1
          BY <1>1, <3>1, <3>5 DEF Alone
        <5>2. plist[v].queue = <<>>
          <6>1. \A s \in Seq(Nat) : Len(s) \in Nat /\ (Len(s) = 0 => s = <<>>)
            BY EmptySeq
          <6>2. plist[v].queue \in Seq(Nat)
            BY <2>12, <3>5
          <6>3. \A n \in Nat : n <= 1 /\ n # 1 => n = 0
            OBVIOUS
          <6> QED BY <5>1, <6>1, <6>2, <6>3
        <5>3. Len(q) = 1 /\ q[1] = x.serial
          BY <1>2, <4>3, <5>2
        <5>4. \E c \in L!Task : WaitsOn(requests, v, c) /\ x.serial = requests[c].serial
          BY <1>1, <3>1, <3>5 DEF Alone
        <5>5. \A i \in 1..Len(q) : i = 1
          BY <5>3
        <5>6. \A i \in 1..Len(q) : \E c \in L!Task : WaitsOn(requests, v, c) /\ q[i] = requests[c].serial
          BY <5>3, <5>4, <5>5
        <5>7. Len(q) <= 1
          BY <5>3
        <5> QED BY <1>0, <2>5, <2>7, <2>8, <3>1, <3>2, <3>5, <4>1, <5>6, <5>7 DEF Alone
      <4> QED BY <2>6, <3>5, <4>2, <4>3
    <3> QED BY <3>4, <3>5
  <2> QED BY <2>9, <2>10, <2>11, <2>14 DEF LdInv
<1>7. CASE x.via # expected
  <2>1. lockdownd' = [lockdownd EXCEPT !.todo = <<>>, !.up = FALSE, !.confused = TRUE] /\ plist' = plist
    BY <1>7 DEF L!Answers
  <2>2. lockdownd' \in Lockd /\ lockdownd'.todo = <<>>
    BY <1>0, <1>3, <2>1 DEF Lockd
  <2>3. ~upgrade.crossed => upgrade.at \notin {"none", "pair", "session", "handshake"} /\ ~upgrade.isTLS
    <3> HIDE DEF x, rest, expected
    <3>1. ~upgrade.crossed => upgrade.at \notin {"none", "pair"} /\ ~upgrade.isTLS
      BY <1>0, <1>1, <1>4, <1>7 DEF Uncrossed
    <3>2. ~upgrade.crossed => upgrade.at # "session"
      BY <1>0, <1>1, <1>3, <1>4, <1>7 DEF Uncrossed
    <3>3. ~upgrade.crossed => upgrade.at # "handshake"
      BY <1>0, <1>1, <1>2, <1>3, <1>4, <1>7 DEF Uncrossed
    <3> QED BY <3>1, <3>2, <3>3
  <2>4. LdTyped'
    BY <1>0, <2>1, <2>2 DEF LdInv, LdTyped
  <2>5. Secure(requests, plist, lockdownd, upgrade, stage)'
    BY <1>0, <1>3, <2>1, <2>2 DEF Secure
  <2>6. ASSUME NEW v \in L!Service, ~plist'[v].disturbed  PROVE Alone(requests', plist'[v].queue, lockdownd'.todo, v)
    BY <1>0, <2>1, <2>2, <2>6, LdFewer DEF LdInv
  <2>7. Uncrossed(lockdownd', upgrade')
    BY <1>0, <2>3 DEF Uncrossed
  <2> QED BY <2>4, <2>5, <2>6, <2>7 DEF LdInv
<1> QED BY <1>6, <1>7, <1>10

LEMMA LdStep ==
    ASSUME LdInv, L!LdNext
    PROVE  LdInv'
<1>1. L!Task # {} /\ Asker \subseteq L!Task
  BY DEF L!Task
<1> QED BY LdConnects, LdAsks, LdPolls, LdTimesOut, LdEnds, LdAnswers DEF L!LdNext, L!LdStep

LEMMA LdHolds ==
    ASSUME LdInv
    PROVE  L!SecuredTalksTls /\ L!AnswersInOrder
<1>1. L!SecuredTalksTls
  BY DEF LdInv, Secure, Uncrossed, L!SecuredTalksTls
<1>2. \A c \in L!Task : requests[c].via \in L!Service
  BY DEF LdInv, LdTyped, Ask
<1>3. L!AnswersInOrder
  BY <1>2 DEF LdInv, Alone, L!AnswersInOrder
<1> QED BY <1>1, <1>3

-----------------------------------------------------------------------------
(* TestManager: what comes on another channel than the one read is answered at once. *)

Item == [id : Nat, ch : T!Channel, f : Nat, n : Nat, asks : BOOLEAN, reply : BOOLEAN, part : Nat]
Px == [socket : {"open", "lost", "closed"}, buffer : Seq(Item), made : BOOLEAN, fragmenters : SUBSET T!Channel,
       queue : [T!Channel -> Seq(Nat)], lastId : [T!Channel -> Nat], asks : [T!Channel -> BOOLEAN],
       unread : BOOLEAN, garbled : BOOLEAN]
Reader == [at : {"idle", "reading", "got", "failed"}, target : T!Channel, phase : {"header", "payload"}, frame : Item,
           timed : BOOLEAN, writing : BOOLEAN]
Daemon == [count : Nat, rest : Seq(Item), wire : Seq(Item), requested : BOOLEAN, asked : SUBSET Nat]

\* What will be read, one after the other: nothing after what came when nobody listened.
Stream(px, d) == IF px.unread THEN px.buffer ELSE px.buffer \o d.wire

\* The first frame of a message says whether it expects a reply, the others that it is the same.
Telling(x, d) == x.id <= d.count /\ (x.f = 0 /\ x.id \in d.asked => x.asks) /\ (x.id \in d.asked => ~x.reply)
Known(x, px, d) == px.lastId[x.ch] = x.id /\ (x.id \in d.asked => px.asks[x.ch])
Begins(y, x) == y.f = 0 /\ y.ch = x.ch /\ y.id = x.id
InStream(s, px, d) ==
    /\ \A i \in 1..Len(s) : /\ Telling(s[i], d) /\ px.lastId[s[i].ch] <= s[i].id
                            /\ s[i].f = 0 \/ Known(s[i], px, d) \/ \E j \in 1..i - 1 : Begins(s[j], s[i])
    /\ \A i, j \in 1..Len(s) : i <= j /\ s[i].ch = s[j].ch => s[i].id <= s[j].id
ToFollow(s, rest, px, d) ==
    /\ \A i \in 1..Len(rest) : /\ Telling(rest[i], d) /\ px.lastId[rest[i].ch] <= rest[i].id
                               /\ \/ rest[i].f = 0 \/ Known(rest[i], px, d)
                                  \/ \E j \in 1..Len(s) : Begins(s[j], rest[i])
                                  \/ \E j \in 1..i - 1 : Begins(rest[j], rest[i])
    /\ \A i, j \in 1..Len(rest) : i <= j /\ rest[i].ch = rest[j].ch => rest[i].id <= rest[j].id
    /\ \A i \in 1..Len(s), j \in 1..Len(rest) : s[i].ch = rest[j].ch => s[i].id <= rest[j].id

\* The reader takes the first message on the broadcast channel for the channel it makes, and
\* is on that channel from then on; a payload is read with nothing in its queue.
Steady(px, pl, d) ==
    /\ pl.at # "failed" /\ (px.made => d.requested) /\ (pl.at = "reading" => d.requested) /\ (pl.target = 1 => d.requested)
    /\ pl.target = 0 => /\ ~pl.timed /\ Len(px.queue[0]) <= 1
                        /\ pl.at # "reading" => Len(px.queue[0]) = 0
                        /\ pl.at = "reading" => ~px.made
    /\ pl.phase = "payload" => /\ pl.at = "reading" /\ Len(px.queue[pl.target]) = 0
                               /\ Known(pl.frame, px, d) /\ Telling(pl.frame, d)
    /\ \A ch \in T!Channel : px.lastId[ch] <= d.count /\ \A j \in 1..Len(px.queue[ch]) : px.queue[ch][j] <= d.count
    /\ \A id \in d.asked : id <= d.count
Answered(px, pl, d, an) ==
    \A ch \in T!Channel : ch # pl.target => \A j \in 1..Len(px.queue[ch]) :
        px.queue[ch][j] \in d.asked => \E i \in 1..Len(an) : an[i] = <<ch, px.queue[ch][j]>>

TmTyped == proxy \in Px /\ poll \in Reader /\ testmanagerd \in Daemon /\ answers \in Seq(T!Channel \X Nat)
TmOpen ==
    /\ TmTyped /\ Steady(proxy, poll, testmanagerd) /\ Answered(proxy, poll, testmanagerd, answers)
    /\ InStream(Stream(proxy, testmanagerd), proxy, testmanagerd)
    /\ ~proxy.unread => ToFollow(Stream(proxy, testmanagerd), testmanagerd.rest, proxy, testmanagerd)
TmInv == proxy.socket = "open" => TmOpen

LEMMA TmInitInv ==
    ASSUME T!TmInit
    PROVE  TmInv
<1>1. /\ <<>> \in Seq(Item) /\ <<>> \in Seq(Nat) /\ <<>> \in Seq(T!Channel \X Nat) /\ Len(<<>>) = 0
      /\ Len(<<>> \o <<>>) = 0 /\ 0 \in T!Channel
  BY DEF T!Channel
<1>2. T!NoFrame \in Item
  BY <1>1 DEF T!NoFrame, Item
<1>3. proxy \in Px /\ proxy.queue = [c \in T!Channel |-> <<>>] /\ proxy.lastId = [c \in T!Channel |-> 0] /\ ~proxy.made
      /\ ~proxy.unread /\ proxy.buffer = <<>>
  BY <1>1 DEF T!TmInit, Px
<1>4. poll \in Reader /\ poll.at = "idle" /\ poll.phase = "header" /\ poll.target = 0 /\ ~poll.timed
  BY <1>1, <1>2 DEF T!TmInit, Reader
<1>5. testmanagerd \in Daemon /\ testmanagerd.rest = <<>> /\ testmanagerd.wire = <<>> /\ testmanagerd.asked = {}
      /\ testmanagerd.count = 0
  BY <1>1 DEF T!TmInit, Daemon
<1>6. answers \in Seq(T!Channel \X Nat)
  BY <1>1 DEF T!TmInit
<1>7. \A ch \in T!Channel : Len(proxy.queue[ch]) = 0 /\ proxy.lastId[ch] = 0
  BY <1>1, <1>3
<1>8. Steady(proxy, poll, testmanagerd)
  BY <1>1, <1>3, <1>4, <1>5, <1>7 DEF Steady
<1>9. Answered(proxy, poll, testmanagerd, answers)
  BY <1>5 DEF Answered
<1>10. Len(Stream(proxy, testmanagerd)) = 0
  BY <1>1, <1>3, <1>5 DEF Stream
<1>11. InStream(Stream(proxy, testmanagerd), proxy, testmanagerd)
  BY <1>10 DEF InStream
<1>12. ToFollow(Stream(proxy, testmanagerd), testmanagerd.rest, proxy, testmanagerd)
  BY <1>1, <1>5, <1>10 DEF ToFollow
<1> QED BY <1>3, <1>4, <1>5, <1>6, <1>8, <1>9, <1>11, <1>12 DEF TmInv, TmOpen, TmTyped

\* What was said of the stream and of what follows is of what the messages are, and of the
\* channels: it does not look at the rest.
LEMMA TmSame ==
    ASSUME TmOpen, proxy' \in Px, testmanagerd' \in Daemon,
           proxy'.buffer = proxy.buffer, proxy'.unread = proxy.unread, proxy'.lastId = proxy.lastId, proxy'.asks = proxy.asks,
           testmanagerd'.wire = testmanagerd.wire, testmanagerd'.rest = testmanagerd.rest,
           testmanagerd'.count = testmanagerd.count, testmanagerd'.asked = testmanagerd.asked
    PROVE  /\ InStream(Stream(proxy', testmanagerd'), proxy', testmanagerd')
           /\ ~proxy'.unread => ToFollow(Stream(proxy', testmanagerd'), testmanagerd'.rest, proxy', testmanagerd')
           /\ \A x : (Known(x, proxy, testmanagerd) <=> Known(x, proxy', testmanagerd'))
                     /\ (Telling(x, testmanagerd) <=> Telling(x, testmanagerd'))
<1>1. Stream(proxy', testmanagerd') = Stream(proxy, testmanagerd)
  BY DEF Stream
<1>2. \A x : (Known(x, proxy, testmanagerd) <=> Known(x, proxy', testmanagerd'))
             /\ (Telling(x, testmanagerd) <=> Telling(x, testmanagerd'))
  BY DEF Known, Telling
<1>3. InStream(Stream(proxy, testmanagerd), proxy', testmanagerd')
  BY <1>2 DEF TmOpen, InStream
<1>4. ~proxy'.unread => ToFollow(Stream(proxy, testmanagerd), testmanagerd.rest, proxy', testmanagerd')
  BY <1>2 DEF TmOpen, ToFollow
<1> QED BY <1>1, <1>2, <1>3, <1>4

\* The caller: what it asks for, its replies, and the end of a poll.
LEMMA TmCalls ==
    ASSUME TmInv, T!MakeChannel \/ T!Polls \/ T!Replies \/ T!Written \/ T!TimesOut
    PROVE  TmInv'
<1> SUFFICES ASSUME proxy.socket = "open"  PROVE TmInv'
  BY DEF T!MakeChannel, T!Polls, T!Replies, T!Written, T!TimesOut, TmInv
<1>1. TmOpen /\ TmTyped /\ Steady(proxy, poll, testmanagerd) /\ Answered(proxy, poll, testmanagerd, answers)
  BY DEF TmInv, TmOpen
<1>2. proxy \in Px /\ poll \in Reader /\ testmanagerd \in Daemon /\ answers \in Seq(T!Channel \X Nat)
  BY <1>1 DEF TmTyped
<1>3. 0 \in T!Channel /\ 1 \in T!Channel /\ \A ch \in T!Channel : ch = 0 \/ ch = 1
  BY DEF T!Channel
<1>4. proxy' = proxy
  BY DEF T!MakeChannel, T!Polls, T!Replies, T!Written, T!TimesOut
<1>5. ASSUME testmanagerd' \in Daemon, testmanagerd'.wire = testmanagerd.wire, testmanagerd'.rest = testmanagerd.rest,
             testmanagerd'.count = testmanagerd.count, testmanagerd'.asked = testmanagerd.asked,
             poll' \in Reader, answers' \in Seq(T!Channel \X Nat),
             Steady(proxy', poll', testmanagerd'), Answered(proxy', poll', testmanagerd', answers')
      PROVE  TmInv'
  BY <1>1, <1>2, <1>4, <1>5, TmSame DEF TmInv, TmOpen, TmTyped
<1>6. CASE T!MakeChannel
  <2>1. /\ poll.at = "idle" /\ ~testmanagerd.requested /\ testmanagerd' = [testmanagerd EXCEPT !.requested = TRUE]
        /\ poll' = [poll EXCEPT !.at = "reading", !.target = 0, !.phase = "header", !.timed = FALSE] /\ answers' = answers
    BY <1>6 DEF T!MakeChannel, T!Reads
  <2>2. /\ testmanagerd' \in Daemon /\ testmanagerd'.wire = testmanagerd.wire /\ testmanagerd'.rest = testmanagerd.rest
        /\ testmanagerd'.count = testmanagerd.count /\ testmanagerd'.asked = testmanagerd.asked /\ testmanagerd'.requested
    BY <1>2, <2>1 DEF Daemon
  <2>3. poll' \in Reader /\ poll'.at = "reading" /\ poll'.target = 0 /\ poll'.phase = "header" /\ ~poll'.timed
    BY <1>2, <1>3, <2>1 DEF Reader
  <2>4. poll.target = 0
    BY <1>1, <1>2, <1>3, <2>1 DEF Steady, Reader
  <2>5. Steady(proxy', poll', testmanagerd')
    BY <1>1, <1>4, <2>1, <2>2, <2>3, <2>4 DEF Steady
  <2>6. Answered(proxy', poll', testmanagerd', answers')
    <3>1. /\ testmanagerd'.asked = testmanagerd.asked /\ proxy'.queue = proxy.queue /\ poll'.target = poll.target
          /\ answers' = answers
      BY <1>4, <2>1, <2>2, <2>3, <2>4
    <3> QED BY <1>1, <3>1 DEF Answered
  <2> QED BY <1>2, <1>5, <2>1, <2>2, <2>3, <2>5, <2>6
<1>7. CASE T!Polls
  <2>1. /\ poll.at = "idle" /\ proxy.made /\ testmanagerd' = testmanagerd /\ answers' = answers
        /\ poll' = [poll EXCEPT !.at = "reading", !.target = 1, !.phase = "header", !.timed = TRUE]
    BY <1>7 DEF T!Polls, T!Reads
  <2>2. poll' \in Reader /\ poll'.at = "reading" /\ poll'.target = 1 /\ poll'.phase = "header"
    BY <1>2, <1>3, <2>1 DEF Reader
  <2>3. Steady(proxy', poll', testmanagerd')
    BY <1>1, <1>4, <2>1, <2>2 DEF Steady
  <2>4. ASSUME NEW ch \in T!Channel, ch # 1, NEW j \in 1..Len(proxy.queue[ch]), proxy.queue[ch][j] \in testmanagerd.asked
        PROVE  \E i \in 1..Len(answers) : answers[i] = <<ch, proxy.queue[ch][j]>>
    <3>1. CASE poll.target = 0
      <4>1. ch = 0 /\ Len(proxy.queue[0]) = 0
        BY <1>1, <1>3, <2>1, <2>4, <3>1 DEF Steady
      <4>2. j \in 1..0
        BY <4>1
      <4> QED BY <4>2
    <3>2. CASE poll.target # 0
      BY <1>1, <1>3, <2>4, <3>2 DEF Answered
    <3> QED BY <3>1, <3>2
  <2>5. Answered(proxy', poll', testmanagerd', answers')
    BY <1>4, <2>1, <2>2, <2>4 DEF Answered
  <2> QED BY <1>2, <1>5, <2>1, <2>2, <2>3, <2>5
<1>8. ASSUME testmanagerd' = testmanagerd, poll' \in Reader, poll'.target = poll.target, poll'.phase = poll.phase,
             poll'.frame = poll.frame, poll'.timed = poll.timed, poll.target = 0 => poll'.at = poll.at \/ poll'.at = "idle",
             poll'.at = poll.at \/ (poll'.at = "idle" /\ poll.phase = "header"),
             poll.target = 0 /\ poll'.at = "idle" => poll.at # "reading",
             answers' \in Seq(T!Channel \X Nat),
             answers' = answers \/ \E a \in T!Channel \X Nat : answers' = Append(answers, a)
      PROVE  TmInv'
  <2>1. Steady(proxy', poll', testmanagerd')
    BY <1>1, <1>4, <1>8 DEF Steady
  <2>2. \A i \in 1..Len(answers) : i \in 1..Len(answers') /\ answers'[i] = answers[i]
    <3>1. CASE answers' = answers
      BY <3>1
    <3>2. CASE \E a \in T!Channel \X Nat : answers' = Append(answers, a)
      <4>1. PICK a \in T!Channel \X Nat : answers' = Append(answers, a)
        BY <3>2
      <4>2. /\ Len(answers') = Len(answers) + 1 /\ Len(answers) \in Nat
            /\ \A i \in 1..Len(answers) : answers'[i] = answers[i]
        BY <1>2, <4>1
      <4> QED BY <4>2
    <3> QED BY <1>8, <3>1, <3>2
  <2>3. Answered(proxy', poll', testmanagerd', answers')
    <3>1. testmanagerd'.asked = testmanagerd.asked /\ proxy'.queue = proxy.queue /\ poll'.target = poll.target
      BY <1>4, <1>8
    <3> QED BY <1>1, <2>2, <3>1 DEF Answered
  <2> QED BY <1>2, <1>5, <1>8, <2>1, <2>3
<1>9. CASE T!Written
  <2>1. poll' = [poll EXCEPT !.writing = FALSE] /\ testmanagerd' = testmanagerd /\ answers' = answers
    BY <1>9 DEF T!Written
  <2>2. poll' \in Reader /\ poll'.at = poll.at /\ poll'.target = poll.target /\ poll'.phase = poll.phase
        /\ poll'.frame = poll.frame /\ poll'.timed = poll.timed
    BY <1>2, <2>1 DEF Reader
  <2>3. poll.target = 0 /\ poll'.at = "idle" => poll.at # "reading"
    BY <2>2
  <2> QED BY <1>2, <1>8, <2>1, <2>2, <2>3
<1>10. CASE T!TimesOut
  <2>1. poll.timed /\ poll.phase = "header" /\ poll' = [poll EXCEPT !.at = "idle"] /\ testmanagerd' = testmanagerd
        /\ answers' = answers
    BY <1>10 DEF T!TimesOut, T!Abortable
  <2>2. poll' \in Reader /\ poll'.at = "idle" /\ poll'.target = poll.target /\ poll'.phase = poll.phase
        /\ poll'.frame = poll.frame /\ poll'.timed = poll.timed
    BY <1>2, <2>1 DEF Reader
  <2>3. poll.target # 0
    BY <1>1, <2>1 DEF Steady
  <2> QED BY <1>2, <1>8, <2>1, <2>2, <2>3
<1>11. CASE T!Replies
  <2>1. poll.at = "got" /\ testmanagerd' = testmanagerd
    BY <1>11 DEF T!Replies
  <2>2. poll.phase = "header"
    BY <1>1, <1>2, <2>1 DEF Steady, Reader
  <2>3. CASE poll' = [poll EXCEPT !.at = "idle"] /\ answers' = answers
    <3>1. poll' \in Reader /\ poll'.at = "idle" /\ poll'.target = poll.target /\ poll'.phase = poll.phase
          /\ poll'.frame = poll.frame /\ poll'.timed = poll.timed
      BY <1>2, <2>3 DEF Reader
    <3> QED BY <1>2, <1>8, <2>1, <2>2, <2>3, <3>1
  <2>4. CASE T!Writes(poll.target, [poll EXCEPT !.at = "idle"])
    <3>1. PICK later \in BOOLEAN : poll' = [poll EXCEPT !.at = "idle", !.writing = later]
      BY <2>4 DEF T!Writes
    <3>2. poll' \in Reader /\ poll'.at = "idle" /\ poll'.target = poll.target /\ poll'.phase = poll.phase
          /\ poll'.frame = poll.frame /\ poll'.timed = poll.timed
      BY <1>2, <3>1 DEF Reader
    <3> DEFINE a == <<poll.target, proxy.lastId[poll.target]>>
    <3>3. answers' = Append(answers, a)
      BY <2>4 DEF T!Writes
    <3>4. a \in T!Channel \X Nat
      BY <1>2 DEF Px, Reader
    <3> HIDE DEF a
    <3>5. answers' \in Seq(T!Channel \X Nat)
      BY <1>2, <3>3, <3>4
    <3> QED BY <1>2, <1>8, <2>1, <2>2, <3>2, <3>3, <3>4, <3>5
  <2> QED BY <1>11, <2>3, <2>4 DEF T!Replies
<1> QED BY <1>6, <1>7, <1>9, <1>10, <1>11

\* What a frame has.
LEMMA TmItem ==
    \A x \in Item : x.ch \in T!Channel /\ x.id \in Nat /\ x.f \in Nat /\ x.n \in Nat /\ x.asks \in BOOLEAN
BY DEF Item

Drops(s, t, k, c, px, py, d) ==
    /\ k \in {1, 2} /\ c \in T!Channel /\ k <= Len(s) /\ Len(t) = Len(s) - k
    /\ \A i \in 1..Len(t) : t[i] = s[i + k]
    /\ \A i \in 1..k : s[i].ch = c /\ Known(s[i], py, d)
    /\ \A x \in T!Channel : x # c => py.lastId[x] = px.lastId[x] /\ py.asks[x] = px.asks[x]

\* The first frames of the stream are read: what is known of their channel is now of them.
LEMMA TmDrop ==
    ASSUME NEW px \in Px, NEW py \in Px, NEW d \in Daemon, NEW s \in Seq(Item), NEW t \in Seq(Item), NEW rest \in Seq(Item),
           NEW k, NEW c, Drops(s, t, k, c, px, py, d), InStream(s, px, d)
    PROVE  InStream(t, py, d) /\ (ToFollow(s, rest, px, d) => ToFollow(t, rest, py, d))
<1> USE DEF Drops
<1> DEFINE m == py.lastId[c]
<1>1. \A i \in 1..Len(s) : s[i] \in Item /\ s[i].ch \in T!Channel /\ s[i].id \in Nat /\ s[i].f \in Nat
  <2>1. \A i \in 1..Len(s) : s[i] \in Item
    OBVIOUS
  <2> QED BY <2>1, TmItem
<1>2. \A i \in 1..Len(rest) : rest[i] \in Item /\ rest[i].ch \in T!Channel /\ rest[i].id \in Nat /\ rest[i].f \in Nat
  <2>1. \A i \in 1..Len(rest) : rest[i] \in Item
    OBVIOUS
  <2> QED BY <2>1, TmItem
<1>3. \A x \in T!Channel : px.lastId[x] \in Nat /\ py.lastId[x] \in Nat
  BY DEF Px
<1>4. 1 \in 1..Len(s) /\ 1 \in 1..k /\ \A i \in 1..k : i \in 1..Len(s)
  OBVIOUS
<1>5. m \in Nat /\ s[1].ch = c /\ \A i \in 1..k : s[i].id = m /\ s[i].ch = c
  BY <1>3, <1>4 DEF Known
<1>6. \A x : x.ch = c /\ x.id = m => Known(x, py, d)
  BY <1>4, <1>5 DEF Known
<1>7. \A x : x.ch # c /\ x.ch \in T!Channel /\ Known(x, px, d) => Known(x, py, d)
  BY DEF Known
<1>8. px.lastId[c] <= m
  BY <1>4, <1>5 DEF InStream
<1>9. \A i \in 1..Len(t) : i + k \in 1..Len(s) /\ 1 <= i + k
  OBVIOUS
<1>10. \A i \in 1..Len(s) : s[i].ch = c => m <= s[i].id
  BY <1>4, <1>5 DEF InStream
<1>11. \A x : x.ch = c /\ x.id \in Nat /\ m <= x.id /\ Known(x, px, d) => Known(x, py, d)
  <2> TAKE x
  <2> HAVE x.ch = c /\ x.id \in Nat /\ m <= x.id /\ Known(x, px, d)
  <2>1. px.lastId[c] = x.id
    BY DEF Known
  <2>2. x.id = m
    BY <1>3, <1>5, <1>8, <2>1
  <2> QED BY <1>6, <2>2
<1>12. \A i \in 1..k : \A x : Begins(s[i], x) => Known(x, py, d)
  BY <1>5, <1>6 DEF Begins
<1> HIDE DEF m
<1>13. ASSUME NEW i \in 1..Len(t)
       PROVE  /\ Telling(t[i], d) /\ py.lastId[t[i].ch] <= t[i].id
              /\ t[i].f = 0 \/ Known(t[i], py, d) \/ \E j \in 1..i - 1 : Begins(t[j], t[i])
  <2>1. t[i] = s[i + k] /\ i + k \in 1..Len(s)
    BY <1>9
  <2> DEFINE x == s[i + k]
  <2>2. Telling(x, d) /\ px.lastId[x.ch] <= x.id
        /\ (x.f = 0 \/ Known(x, px, d) \/ \E j \in 1..(i + k) - 1 : Begins(s[j], x))
    BY <2>1 DEF InStream
  <2>3. x.ch \in T!Channel /\ x.id \in Nat
    BY <1>1, <2>1
  <2>4. py.lastId[x.ch] <= x.id
    <3>1. CASE x.ch = c
      BY <1>10, <2>1, <3>1 DEF m
    <3>2. CASE x.ch # c
      BY <2>2, <2>3, <3>2
    <3> QED BY <3>1, <3>2
  <2>5. Known(x, px, d) => Known(x, py, d)
    <3>1. CASE x.ch = c
      <4>1. m <= x.id
        BY <1>10, <2>1, <3>1
      <4> QED BY <1>11, <2>3, <3>1, <4>1
    <3>2. CASE x.ch # c
      BY <1>7, <2>3, <3>2
    <3> QED BY <3>1, <3>2
  <2>6. ASSUME NEW j \in 1..(i + k) - 1, Begins(s[j], x)
        PROVE  Known(x, py, d) \/ \E l \in 1..i - 1 : Begins(t[l], x)
    <3>1. CASE j <= k
      <4>1. j \in 1..k
        BY <3>1
      <4> QED BY <1>12, <2>6, <4>1
    <3>2. CASE j > k
      <4>1. j - k \in 1..i - 1 /\ j - k \in 1..Len(t) /\ (j - k) + k = j
        BY <3>2
      <4>2. t[j - k] = s[j]
        BY <4>1
      <4> QED BY <2>6, <4>1, <4>2
    <3> QED BY <3>1, <3>2
  <2> HIDE DEF x
  <2>7. t[i] = x
    BY <2>1 DEF x
  <2> QED BY <2>2, <2>4, <2>5, <2>6, <2>7
<1>14. ASSUME NEW i \in 1..Len(t), NEW j \in 1..Len(t), i <= j, t[i].ch = t[j].ch
       PROVE  t[i].id <= t[j].id
  <2>1. i + k \in 1..Len(s) /\ j + k \in 1..Len(s) /\ i + k <= j + k
    BY <1>9, <1>14
  <2>2. t[i] = s[i + k] /\ t[j] = s[j + k]
    OBVIOUS
  <2>3. s[i + k].ch = s[j + k].ch
    BY <1>14, <2>2
  <2>4. s[i + k].id <= s[j + k].id
    BY <2>1, <2>3 DEF InStream
  <2> QED BY <2>2, <2>4
<1>15. InStream(t, py, d)
  BY <1>13, <1>14 DEF InStream
<1>16. ASSUME ToFollow(s, rest, px, d)
       PROVE  ToFollow(t, rest, py, d)
  <2>1. ASSUME NEW i \in 1..Len(rest)
        PROVE  /\ Telling(rest[i], d) /\ py.lastId[rest[i].ch] <= rest[i].id
               /\ \/ rest[i].f = 0 \/ Known(rest[i], py, d)
                  \/ \E j \in 1..Len(t) : Begins(t[j], rest[i])
                  \/ \E j \in 1..i - 1 : Begins(rest[j], rest[i])
    <3> DEFINE x == rest[i]
    <3>1. /\ Telling(x, d) /\ px.lastId[x.ch] <= x.id
          /\ x.f = 0 \/ Known(x, px, d) \/ (\E j \in 1..Len(s) : Begins(s[j], x)) \/ \E j \in 1..i - 1 : Begins(rest[j], x)
      BY <1>16 DEF ToFollow
    <3>2. x.ch \in T!Channel /\ x.id \in Nat
      BY <1>2
    <3>3. x.ch = c => m <= x.id
      <4>1. x.ch = c => s[1].id <= x.id
        BY <1>4, <1>5, <1>16 DEF ToFollow
      <4> QED BY <1>4, <1>5, <4>1
    <3>4. py.lastId[x.ch] <= x.id
      <4>1. CASE x.ch = c
        BY <3>3, <4>1 DEF m
      <4>2. CASE x.ch # c
        BY <3>1, <3>2, <4>2
      <4> QED BY <4>1, <4>2
    <3>5. Known(x, px, d) => Known(x, py, d)
      BY <1>7, <1>11, <3>2, <3>3
    <3>6. ASSUME NEW j \in 1..Len(s), Begins(s[j], x)
          PROVE  Known(x, py, d) \/ \E l \in 1..Len(t) : Begins(t[l], x)
      <4>1. CASE j <= k
        <5>1. j \in 1..k
          BY <4>1
        <5> QED BY <1>12, <3>6, <5>1
      <4>2. CASE j > k
        <5>1. j - k \in 1..Len(t) /\ (j - k) + k = j
          BY <4>2
        <5>2. t[j - k] = s[j]
          BY <5>1
        <5> QED BY <3>6, <5>1, <5>2
      <4> QED BY <4>1, <4>2
    <3> HIDE DEF x
    <3>7. rest[i] = x
      BY DEF x
    <3> QED BY <3>1, <3>4, <3>5, <3>6, <3>7
  <2>2. ASSUME NEW i \in 1..Len(t), NEW j \in 1..Len(rest), t[i].ch = rest[j].ch
        PROVE  t[i].id <= rest[j].id
    <3>1. i + k \in 1..Len(s) /\ t[i] = s[i + k]
      BY <1>9
    <3>2. s[i + k].ch = rest[j].ch
      BY <2>2, <3>1
    <3>3. s[i + k].id <= rest[j].id
      BY <1>16, <3>1, <3>2 DEF ToFollow
    <3> QED BY <3>1, <3>3
  <2>3. \A i, j \in 1..Len(rest) : i <= j /\ rest[i].ch = rest[j].ch => rest[i].id <= rest[j].id
    BY <1>16 DEF ToFollow
  <2> QED BY <2>1, <2>2, <2>3 DEF ToFollow
<1> QED BY <1>15, <1>16

\* A message is handed over: its queue is one shorter.
LEMMA TmReturns ==
    ASSUME TmInv, T!Returns
    PROVE  TmInv'
<1> SUFFICES ASSUME proxy'.socket = "open"  PROVE TmOpen'
  BY DEF TmInv
<1> DEFINE px == proxy
           q == proxy.queue[poll.target]
           made == TRUE
           lent == [proxy.queue EXCEPT ![poll.target] = Tail(q)]
<1>1. /\ poll.at = "reading" /\ poll.phase = "header" /\ q # <<>>
      /\ proxy' = [proxy EXCEPT !.queue[poll.target] = Tail(@), !.made = TRUE, !.fragmenters = T!Channel]
      /\ poll' = [poll EXCEPT !.at = IF proxy.made THEN "got" ELSE "idle"]
  BY DEF T!Returns, T!Reading, T!HasMessage
<1>0. testmanagerd' = testmanagerd /\ answers' = answers
  BY DEF T!Returns
<1>2. proxy'.socket = proxy.socket
  BY <1>1
<1>3. TmOpen /\ TmTyped /\ Steady(proxy, poll, testmanagerd) /\ Answered(proxy, poll, testmanagerd, answers)
  BY <1>2 DEF TmInv, TmOpen
<1>4. proxy \in Px /\ poll \in Reader /\ testmanagerd \in Daemon /\ answers \in Seq(T!Channel \X Nat)
  BY <1>3 DEF TmTyped
<1>5. poll.target \in T!Channel /\ proxy.queue \in [T!Channel -> Seq(Nat)] /\ q \in Seq(Nat)
  BY <1>4 DEF Reader, Px
<1>6. Tail(q) \in Seq(Nat) /\ Len(Tail(q)) = Len(q) - 1 /\ \A j \in 1..Len(Tail(q)) : Tail(q)[j] = q[j + 1] /\ j + 1 \in 1..Len(q)
  BY <1>1, <1>5
<1>7. /\ lent \in [T!Channel -> Seq(Nat)] /\ lent[poll.target] = Tail(q)
      /\ \A ch \in T!Channel : ch # poll.target => lent[ch] = proxy.queue[ch]
  BY <1>5, <1>6
<1>8. proxy' = [proxy EXCEPT !.queue = lent, !.made = TRUE, !.fragmenters = T!Channel]
  BY <1>1
<1> HIDE DEF lent
<1>9. /\ proxy' \in Px /\ proxy'.queue = lent /\ proxy'.made /\ proxy'.lastId = proxy.lastId /\ proxy'.asks = proxy.asks
      /\ proxy'.buffer = proxy.buffer /\ proxy'.unread = proxy.unread
  BY <1>4, <1>7, <1>8 DEF Px
<1>10. /\ poll' \in Reader /\ poll'.at \in {"got", "idle"} /\ poll'.target = poll.target /\ poll'.phase = "header"
       /\ poll'.timed = poll.timed
  BY <1>1, <1>4 DEF Reader
<1>11. \A ch \in T!Channel : \A j \in 1..Len(lent[ch]) :
          \E l \in 1..Len(proxy.queue[ch]) : lent[ch][j] = proxy.queue[ch][l]
  <2> TAKE ch \in T!Channel
  <2>1. CASE ch = poll.target
    BY <1>6, <1>7, <2>1
  <2>2. CASE ch # poll.target
    BY <1>7, <2>2
  <2> QED BY <2>1, <2>2
<1> HIDE DEF q
<1>12. poll.target = 0 => Len(lent[0]) = 0
  <2>1. poll.target = 0 => Len(q) <= 1 /\ lent[0] = Tail(q)
    BY <1>3, <1>7 DEF Steady, q
  <2>2. Len(q) # 0
    BY <1>1, <1>5
  <2> QED BY <1>5, <1>6, <2>1, <2>2
<1>13. Steady(proxy', poll', testmanagerd')
  <2>1. \A ch \in T!Channel : proxy.lastId[ch] <= testmanagerd.count /\ \A j \in 1..Len(proxy.queue[ch]) : proxy.queue[ch][j] <= testmanagerd.count
    BY <1>3 DEF Steady
  <2>2. \A ch \in T!Channel : \A j \in 1..Len(lent[ch]) : lent[ch][j] <= testmanagerd.count
    BY <1>11, <2>1
  <2>3. testmanagerd.requested /\ (poll.target = 0 => ~poll.timed) /\ \A id \in testmanagerd.asked : id <= testmanagerd.count
    <3>1. poll.at = "reading"
      BY <1>1
    <3> QED BY <1>3, <3>1 DEF Steady
  <2>4. poll.target = 0 => ~poll'.timed /\ Len(lent[0]) <= 1
    BY <1>10, <1>12, <2>3
  <2>5. poll'.at # "failed" /\ poll'.at # "reading" /\ poll'.phase # "payload"
    BY <1>10
  <2> QED BY <1>0, <1>9, <1>10, <1>12, <2>1, <2>2, <2>3, <2>4, <2>5 DEF Steady
<1>14. Answered(proxy', poll', testmanagerd', answers')
  <2> SUFFICES ASSUME NEW ch \in T!Channel, ch # poll.target, NEW j \in 1..Len(lent[ch]), lent[ch][j] \in testmanagerd.asked
               PROVE  \E i \in 1..Len(answers) : answers[i] = <<ch, lent[ch][j]>>
    BY <1>0, <1>9, <1>10 DEF Answered
  <2> QED BY <1>3, <1>7 DEF Answered
<1>15. TmTyped'
  BY <1>0, <1>4, <1>9, <1>10 DEF TmTyped
<1>16. /\ InStream(Stream(proxy', testmanagerd'), proxy', testmanagerd')
       /\ ~proxy'.unread => ToFollow(Stream(proxy', testmanagerd'), testmanagerd'.rest, proxy', testmanagerd')
  BY <1>0, <1>3, <1>4, <1>9, TmSame
<1> QED BY <1>13, <1>14, <1>15, <1>16 DEF TmOpen

\* A sequence that is followed by another, without its first elements.
LEMMA Shortened ==
    ASSUME NEW b \in Seq(Item), NEW c \in Seq(Item), NEW w \in Seq(Item), NEW k \in 1..2, k <= Len(b),
           Len(c) = Len(b) - k, \A i \in 1..Len(c) : c[i] = b[i + k]
    PROVE  /\ b \o w \in Seq(Item) /\ c \o w \in Seq(Item) /\ Len(c \o w) = Len(b \o w) - k
           /\ \A i \in 1..Len(c \o w) : (c \o w)[i] = (b \o w)[i + k]
           /\ \A i \in 1..k : (b \o w)[i] = b[i] /\ i \in 1..Len(b \o w) /\ i \in 1..Len(b)
<1>1. b \o w \in Seq(Item) /\ c \o w \in Seq(Item) /\ Len(b \o w) = Len(b) + Len(w) /\ Len(c \o w) = Len(c) + Len(w)
  BY ConcatProperties
<1>2. ASSUME NEW i \in 1..Len(c \o w)  PROVE (c \o w)[i] = (b \o w)[i + k]
  <2>1. CASE i <= Len(c)
    BY <1>1, <2>1
  <2>2. CASE i > Len(c)
    <3>1. (c \o w)[i] = w[i - Len(c)]
      BY <1>1, <2>2, ConcatProperties
    <3>2. (b \o w)[i + k] = w[(i + k) - Len(b)] /\ (i + k) - Len(b) = i - Len(c)
      BY <1>1, <2>2, ConcatProperties
    <3> QED BY <3>1, <3>2
  <2> QED BY <1>1, <2>1, <2>2
<1>3. \A i \in 1..k : (b \o w)[i] = b[i] /\ i \in 1..Len(b \o w) /\ i \in 1..Len(b)
  BY <1>1
<1>4. Len(c \o w) = Len(b \o w) - k
  BY <1>1
<1> QED BY <1>1, <1>2, <1>3, <1>4

\* The stream without the first bytes of the buffer is what is left of both.
LEMMA TmBytes ==
    ASSUME NEW px \in Px, NEW py \in Px, NEW d \in Daemon, NEW k \in {1, 2}, k <= Len(px.buffer),
           py.unread = px.unread, py.buffer = SubSeq(px.buffer, k + 1, Len(px.buffer))
    PROVE  /\ Stream(px, d) \in Seq(Item) /\ Stream(py, d) \in Seq(Item) /\ k <= Len(Stream(px, d))
           /\ Len(Stream(py, d)) = Len(Stream(px, d)) - k
           /\ \A i \in 1..Len(Stream(py, d)) : Stream(py, d)[i] = Stream(px, d)[i + k]
           /\ \A i \in 1..k : Stream(px, d)[i] = px.buffer[i] /\ px.buffer[i] \in Item /\ i \in 1..Len(Stream(px, d))
<1>1. px.buffer \in Seq(Item) /\ d.wire \in Seq(Item) /\ py.buffer \in Seq(Item) /\ px.unread \in BOOLEAN
  BY DEF Px, Daemon
<1>7. k \in 1..2
  OBVIOUS
<1> DEFINE b == px.buffer
           c == py.buffer
           w == d.wire
<1>2. c \in Seq(Item) /\ b \in Seq(Item) /\ w \in Seq(Item) /\ Len(c) = Len(b) - k /\ \A i \in 1..Len(c) : c[i] = b[i + k]
  BY <1>1
<1> HIDE DEF b, c, w
<1>8. k <= Len(b)
  BY DEF b
<1>3. /\ b \o w \in Seq(Item) /\ c \o w \in Seq(Item) /\ Len(c \o w) = Len(b \o w) - k
      /\ \A i \in 1..Len(c \o w) : (c \o w)[i] = (b \o w)[i + k]
      /\ \A i \in 1..k : (b \o w)[i] = b[i] /\ i \in 1..Len(b \o w) /\ i \in 1..Len(b)
  BY <1>2, <1>7, <1>8, Shortened
<1>4. \A i \in 1..k : b[i] \in Item
  BY <1>2, <1>3
<1>5. CASE px.unread
  <2>1. Stream(px, d) = b /\ Stream(py, d) = c
    BY <1>5 DEF Stream, b, c
  <2> QED BY <1>2, <1>3, <1>4, <1>8, <2>1 DEF b
<1>6. CASE ~px.unread
  <2>1. Stream(px, d) = b \o w /\ Stream(py, d) = c \o w
    BY <1>6 DEF Stream, b, c, w
  <2>2. k <= Len(b \o w)
    BY <1>2, <1>7, <1>8
  <2> QED BY <1>2, <1>3, <1>4, <2>1, <2>2 DEF b
<1> QED BY <1>1, <1>5, <1>6

\* Nothing is read: what comes is not what the reader expects.
LEMMA TmGarbles ==
    ASSUME TmInv, T!Garbles, UNCHANGED <<testmanagerd, answers>>
    PROVE  TmInv'
<1> SUFFICES ASSUME proxy'.socket = "open"  PROVE TmOpen'
  BY DEF TmInv
<1>1. proxy' = [proxy EXCEPT !.garbled = TRUE] /\ poll' = poll /\ testmanagerd' = testmanagerd /\ answers' = answers
  BY DEF T!Garbles
<1>2. proxy'.socket = proxy.socket
  BY <1>1
<1>3. TmOpen /\ TmTyped /\ Steady(proxy, poll, testmanagerd) /\ Answered(proxy, poll, testmanagerd, answers)
  BY <1>2 DEF TmInv, TmOpen
<1>4. proxy \in Px /\ poll \in Reader /\ testmanagerd \in Daemon /\ answers \in Seq(T!Channel \X Nat)
  BY <1>3 DEF TmTyped
<1>5. /\ proxy' \in Px /\ proxy'.queue = proxy.queue /\ proxy'.made = proxy.made /\ proxy'.lastId = proxy.lastId
      /\ proxy'.asks = proxy.asks /\ proxy'.buffer = proxy.buffer /\ proxy'.unread = proxy.unread
  BY <1>1, <1>4 DEF Px
<1>6. /\ InStream(Stream(proxy', testmanagerd'), proxy', testmanagerd')
      /\ ~proxy'.unread => ToFollow(Stream(proxy', testmanagerd'), testmanagerd'.rest, proxy', testmanagerd')
      /\ \A x : Known(x, proxy, testmanagerd) <=> Known(x, proxy', testmanagerd')
  BY <1>1, <1>3, <1>4, <1>5, TmSame
<1>7. Steady(proxy', poll', testmanagerd')
  BY <1>1, <1>3, <1>5, <1>6 DEF Steady
<1>8. Answered(proxy', poll', testmanagerd', answers')
  BY <1>1, <1>3, <1>5 DEF Answered
<1>9. TmTyped'
  BY <1>1, <1>4, <1>5 DEF TmTyped
<1> QED BY <1>6, <1>7, <1>8, <1>9 DEF TmOpen

\* A header is read.
LEMMA TmHeader ==
    ASSUME TmInv, T!TakesHeader
    PROVE  TmInv'
<1> SUFFICES ASSUME ~T!Garbles, proxy'.socket = "open"  PROVE TmOpen'
  BY TmGarbles DEF T!TakesHeader, TmInv
<1> DEFINE b == proxy.buffer
           h == proxy.buffer[1]
           lasts == [proxy.lastId EXCEPT ![h.ch] = h.id]
           expects == [proxy.asks EXCEPT ![h.ch] = T!AsksOf(h)]
           rest == SubSeq(proxy.buffer, 3, Len(proxy.buffer))
           some == proxy.fragmenters \cup {h.ch}
<1>1. /\ poll.at = "reading" /\ poll.phase = "header" /\ proxy.queue[poll.target] = <<>> /\ Len(b) >= 2
      /\ testmanagerd' = testmanagerd /\ answers' = answers /\ b[2] = [h EXCEPT !.part = 2]
  BY DEF T!TakesHeader, T!Reading, T!HasMessage
<1>2. proxy' = [proxy EXCEPT !.buffer = rest, !.fragmenters = some, !.lastId = lasts, !.asks = expects]
  BY DEF T!TakesHeader
<1>3. poll' = IF h.n > 1 /\ h.f = 0 THEN poll ELSE [poll EXCEPT !.phase = "payload", !.frame = h]
  BY DEF T!TakesHeader
<1>4. proxy'.socket = proxy.socket
  BY <1>2
<1>5. TmOpen /\ TmTyped /\ Steady(proxy, poll, testmanagerd) /\ Answered(proxy, poll, testmanagerd, answers)
  BY <1>4 DEF TmInv, TmOpen
<1>6. proxy \in Px /\ poll \in Reader /\ testmanagerd \in Daemon /\ answers \in Seq(T!Channel \X Nat)
  BY <1>5 DEF TmTyped
<1>7. b \in Seq(Item) /\ proxy.lastId \in [T!Channel -> Nat] /\ proxy.asks \in [T!Channel -> BOOLEAN]
      /\ proxy.fragmenters \in SUBSET T!Channel /\ poll.target \in T!Channel
  BY <1>6 DEF Px, Reader
<1>8. h \in Item /\ rest \in Seq(Item) /\ b[2] \in Item
  BY <1>1, <1>7
<1> HIDE DEF rest
<1>9. h.ch \in T!Channel /\ h.id \in Nat /\ T!AsksOf(h) \in BOOLEAN
  BY <1>7, <1>8, TmItem DEF T!AsksOf
<1>10. b[2].ch = h.ch /\ b[2].id = h.id
  BY <1>1, <1>8 DEF Item
<1>11. some \in SUBSET T!Channel
  BY <1>7, <1>9
<1> DEFINE c == h.ch
           asking == T!AsksOf(h)
<1>12. /\ lasts \in [T!Channel -> Nat] /\ lasts[c] = h.id
       /\ expects \in [T!Channel -> BOOLEAN] /\ expects[c] = asking
       /\ \A x \in T!Channel : x # c => lasts[x] = proxy.lastId[x] /\ expects[x] = proxy.asks[x]
  BY <1>7, <1>9
<1> HIDE DEF lasts, expects, some
<1>13. /\ proxy' \in Px /\ proxy'.queue = proxy.queue /\ proxy'.made = proxy.made /\ proxy'.lastId = lasts
       /\ proxy'.asks = expects /\ proxy'.buffer = rest /\ proxy'.unread = proxy.unread
  BY <1>2, <1>6, <1>8, <1>11, <1>12 DEF Px
<1>14. /\ poll' \in Reader /\ poll'.at = "reading" /\ poll'.target = poll.target /\ poll'.timed = poll.timed
       /\ poll'.phase = "payload" => poll'.frame = h
  <2>1. CASE h.n > 1 /\ h.f = 0
    BY <1>1, <1>3, <1>6, <2>1
  <2>2. CASE ~(h.n > 1 /\ h.f = 0)
    <3>1. poll' = [poll EXCEPT !.phase = "payload", !.frame = h]
      BY <1>3, <2>2
    <3> HIDE DEF h
    <3> QED BY <1>1, <1>6, <1>8, <3>1 DEF Reader
  <2> QED BY <2>1, <2>2
<1> DEFINE st == Stream(proxy, testmanagerd)
<1>15. 2 <= Len(proxy.buffer) /\ rest = SubSeq(proxy.buffer, 2 + 1, Len(proxy.buffer)) /\ 2 \in {1, 2}
  BY <1>1, <1>7 DEF rest
<1>16. /\ st \in Seq(Item) /\ Stream(proxy', testmanagerd) \in Seq(Item) /\ 2 <= Len(st)
       /\ Len(Stream(proxy', testmanagerd)) = Len(st) - 2
       /\ \A i \in 1..Len(Stream(proxy', testmanagerd)) : Stream(proxy', testmanagerd)[i] = st[i + 2]
       /\ \A i \in 1..2 : st[i] = b[i] /\ b[i] \in Item /\ i \in 1..Len(st)
  BY <1>6, <1>13, <1>15, TmBytes
<1>17. st[1] = h /\ st[2] = b[2] /\ 1 \in 1..Len(st)
  BY <1>16
<1>18. Telling(h, testmanagerd) /\ (h.f = 0 \/ Known(h, proxy, testmanagerd))
  <2>1. InStream(st, proxy, testmanagerd)
    BY <1>5 DEF TmOpen
  <2>2. Telling(st[1], testmanagerd) /\ (st[1].f = 0 \/ Known(st[1], proxy, testmanagerd) \/ \E j \in 1..1 - 1 : Begins(st[j], st[1]))
    BY <1>17, <2>1 DEF InStream
  <2>3. 1..1 - 1 = {}
    OBVIOUS
  <2> QED BY <1>17, <2>2, <2>3
<1>19. h.id \in testmanagerd.asked => asking
  BY <1>18 DEF Telling, Known, T!AsksOf
<1> HIDE DEF asking
<1>20. Known(h, proxy', testmanagerd) /\ Known(b[2], proxy', testmanagerd)
  BY <1>10, <1>12, <1>13, <1>19 DEF Known
<1>21. \A i \in 1..2 : st[i].ch = c /\ Known(st[i], proxy', testmanagerd)
  <2>1. st[1].ch = c /\ st[2].ch = c /\ Known(st[1], proxy', testmanagerd) /\ Known(st[2], proxy', testmanagerd)
    BY <1>10, <1>17, <1>20
  <2>2. \A i \in 1..2 : i = 1 \/ i = 2
    OBVIOUS
  <2> HIDE DEF st
  <2> QED BY <2>1, <2>2
<1>22. \A x \in T!Channel : x # c => proxy'.lastId[x] = proxy.lastId[x] /\ proxy'.asks[x] = proxy.asks[x]
  BY <1>12, <1>13
<1>23. testmanagerd.rest \in Seq(Item) /\ InStream(st, proxy, testmanagerd)
       /\ (~proxy.unread => ToFollow(st, testmanagerd.rest, proxy, testmanagerd))
  BY <1>5, <1>6 DEF Daemon, TmOpen
<1>24. c \in T!Channel
  BY <1>9
<1> DEFINE nt == Stream(proxy', testmanagerd)
           fol == testmanagerd.rest
           py == proxy'
<1> HIDE DEF st, h, b, c, nt, fol, py
<1>25. /\ InStream(Stream(proxy', testmanagerd), proxy', testmanagerd)
       /\ ToFollow(st, testmanagerd.rest, proxy, testmanagerd)
             => ToFollow(Stream(proxy', testmanagerd), testmanagerd.rest, proxy', testmanagerd)
  <2>1. proxy \in Px /\ py \in Px /\ testmanagerd \in Daemon /\ st \in Seq(Item) /\ nt \in Seq(Item) /\ fol \in Seq(Item)
    BY <1>6, <1>13, <1>16, <1>23 DEF nt, fol, py
  <2>2. 2 <= Len(st) /\ Len(nt) = Len(st) - 2 /\ \A i \in 1..Len(nt) : nt[i] = st[i + 2]
    BY <1>16 DEF nt
  <2>3. \A i \in 1..2 : st[i].ch = c /\ Known(st[i], py, testmanagerd)
    BY <1>21 DEF py
  <2>4. \A x \in T!Channel : x # c => py.lastId[x] = proxy.lastId[x] /\ py.asks[x] = proxy.asks[x]
    BY <1>22 DEF py
  <2>5. InStream(nt, py, testmanagerd) /\ (ToFollow(st, fol, proxy, testmanagerd) => ToFollow(nt, fol, py, testmanagerd))
    <3>1. Drops(st, nt, 2, c, proxy, py, testmanagerd)
      BY <1>15, <1>24, <2>2, <2>3, <2>4 DEF Drops
    <3> QED BY <1>23, <2>1, <3>1, TmDrop
  <2> QED BY <2>5 DEF nt, fol, py
<1>26. Steady(proxy', poll', testmanagerd')
  <2>1. \A ch \in T!Channel : lasts[ch] <= testmanagerd.count /\ \A j \in 1..Len(proxy.queue[ch]) : proxy.queue[ch][j] <= testmanagerd.count
    BY <1>5, <1>12, <1>18 DEF Steady, Telling, c
  <2>2. Len(proxy.queue[poll.target]) = 0
    BY <1>1
  <2> QED BY <1>1, <1>5, <1>13, <1>14, <1>18, <1>20, <2>1, <2>2 DEF Steady
<1>27. Answered(proxy', poll', testmanagerd', answers')
  <2>1. answers' = answers /\ testmanagerd'.asked = testmanagerd.asked /\ proxy'.queue = proxy.queue /\ poll'.target = poll.target
    BY <1>1, <1>13, <1>14
  <2> QED BY <1>5, <2>1 DEF Answered
<1>28. TmTyped'
  BY <1>1, <1>6, <1>13, <1>14 DEF TmTyped
<1> QED BY <1>1, <1>13, <1>23, <1>25, <1>26, <1>27, <1>28 DEF TmOpen

\* A payload is read, and the daemon answered when the message is not of the channel read.
LEMMA TmPayload ==
    ASSUME TmInv, T!TakesPayload
    PROVE  TmInv'
<1> DEFINE h == poll.frame
           n == h.ch
           b == proxy.buffer
           rest == Tail(proxy.buffer)
           old == proxy.queue[h.ch]
           now == IF h.f = h.n - 1 THEN Append(proxy.queue[h.ch], h.id) ELSE proxy.queue[h.ch]
           queues == [proxy.queue EXCEPT ![h.ch] = now]
           next == [poll EXCEPT !.phase = "header", !.frame = T!NoFrame]
           a == <<h.ch, proxy.lastId[h.ch]>>
           due == h.ch # poll.target /\ ~h.reply /\ proxy.asks[h.ch] /\ proxy.socket = "open"
<1> SUFFICES ASSUME ~(T!Garbles /\ UNCHANGED answers), proxy'.socket = "open"  PROVE TmOpen'
  <2>1. UNCHANGED testmanagerd
    BY DEF T!TakesPayload
  <2>2. T!Garbles /\ UNCHANGED answers => TmInv'
    BY <2>1, TmGarbles
  <2> QED BY <2>2 DEF TmInv
<1>1. /\ poll.at = "reading" /\ poll.phase = "payload" /\ b # <<>>
      /\ testmanagerd' = testmanagerd /\ Head(b) = [h EXCEPT !.part = 3]
  BY DEF T!TakesPayload, T!Reading
<1>2. proxy' = [proxy EXCEPT !.buffer = rest, !.queue = queues]
  BY DEF T!TakesPayload
<1>3. IF due THEN T!Writes(n, next) ELSE poll' = next /\ answers' = answers
  BY DEF T!TakesPayload
<1>4. proxy'.socket = proxy.socket
  BY <1>2
<1>5. TmOpen /\ TmTyped /\ Steady(proxy, poll, testmanagerd) /\ Answered(proxy, poll, testmanagerd, answers)
  BY <1>4 DEF TmInv, TmOpen
<1>6. proxy \in Px /\ poll \in Reader /\ testmanagerd \in Daemon /\ answers \in Seq(T!Channel \X Nat)
  BY <1>5 DEF TmTyped
<1>7. /\ b \in Seq(Item) /\ proxy.lastId \in [T!Channel -> Nat] /\ proxy.asks \in [T!Channel -> BOOLEAN]
      /\ proxy.queue \in [T!Channel -> Seq(Nat)] /\ poll.target \in T!Channel /\ h \in Item
  BY <1>6 DEF Px, Reader
<1>8. n \in T!Channel /\ h.id \in Nat
  BY <1>7, TmItem
<1>9. rest \in Seq(Item) /\ Len(b) >= 1 /\ rest = SubSeq(b, 1 + 1, Len(b)) /\ b[1] = Head(b) /\ b[1] \in Item
  BY <1>1, <1>7
<1>10. b[1].ch = n /\ b[1].id = h.id
  BY <1>1, <1>7, <1>9 DEF Item
<1>11. /\ Known(h, proxy, testmanagerd) /\ Telling(h, testmanagerd) /\ Len(proxy.queue[poll.target]) = 0
  BY <1>1, <1>5 DEF Steady
<1>12. T!NoFrame \in Item
  BY DEF T!NoFrame, Item, T!Channel
<1> DEFINE noFrame == T!NoFrame
<1> HIDE DEF rest, b
<1>13. /\ now \in Seq(Nat) /\ Len(old) <= Len(now) /\ Len(now) <= Len(old) + 1
       /\ \A j \in 1..Len(now) : (j \in 1..Len(old) /\ now[j] = old[j]) \/ now[j] = h.id
  <2>1. old \in Seq(Nat)
    BY <1>7, <1>8
  <2>2. CASE h.f = h.n - 1
    <3>1. now = Append(old, h.id)
      BY <2>2
    <3> HIDE DEF now, old
    <3> QED BY <1>8, <2>1, <3>1
  <2>3. CASE h.f # h.n - 1
    <3>1. now = old
      BY <2>3
    <3> HIDE DEF now, old
    <3> QED BY <2>1, <3>1
  <2> QED BY <2>2, <2>3
<1> HIDE DEF now
<1>14. queues \in [T!Channel -> Seq(Nat)] /\ queues[n] = now /\ \A ch \in T!Channel : ch # n => queues[ch] = proxy.queue[ch]
  BY <1>7, <1>8, <1>13
<1> HIDE DEF queues
<1>15. /\ proxy' \in Px /\ proxy'.queue = queues /\ proxy'.made = proxy.made /\ proxy'.lastId = proxy.lastId
       /\ proxy'.asks = proxy.asks /\ proxy'.buffer = rest /\ proxy'.unread = proxy.unread
  BY <1>2, <1>6, <1>9, <1>14 DEF Px
<1>16. a \in T!Channel \X Nat /\ a = <<n, h.id>>
  BY <1>7, <1>8, <1>11 DEF Known
<1> HIDE DEF a
<1>17. /\ answers' \in Seq(T!Channel \X Nat) /\ (due => answers' = Append(answers, a))
       /\ \A i \in 1..Len(answers) : i \in 1..Len(answers') /\ answers'[i] = answers[i]
  <2>1. CASE due
    <3>1. answers' = Append(answers, a)
      BY <1>3, <2>1 DEF T!Writes, a
    <3> HIDE DEF due
    <3> QED BY <1>6, <1>16, <3>1
  <2>2. CASE ~due
    <3>1. answers' = answers
      BY <1>3, <2>2
    <3> HIDE DEF due
    <3> QED BY <1>6, <2>2, <3>1
  <2> QED BY <2>1, <2>2
<1>18. /\ poll' \in Reader /\ poll'.at = "reading" /\ poll'.target = poll.target /\ poll'.timed = poll.timed
       /\ poll'.phase = "header"
  <2>1. /\ next \in Reader /\ next.at = "reading" /\ next.target = poll.target /\ next.timed = poll.timed
        /\ next.phase = "header"
    <3>1. next = [poll EXCEPT !.phase = "header", !.frame = noFrame]
      OBVIOUS
    <3> HIDE DEF next, noFrame
    <3>2. noFrame \in Item
      BY <1>12 DEF noFrame
    <3> QED BY <1>1, <1>6, <3>1, <3>2 DEF Reader
  <2> HIDE DEF next
  <2>2. poll' = next \/ \E later \in BOOLEAN : poll' = [next EXCEPT !.writing = later]
    BY <1>3 DEF T!Writes
  <2> QED BY <2>1, <2>2 DEF Reader
<1> DEFINE st == Stream(proxy, testmanagerd)
           nt == Stream(proxy', testmanagerd)
           fol == testmanagerd.rest
           py == proxy'
<1>19. 1 <= Len(proxy.buffer) /\ proxy'.buffer = SubSeq(proxy.buffer, 1 + 1, Len(proxy.buffer)) /\ 1 \in {1, 2}
  BY <1>9, <1>15 DEF b
<1>20. /\ st \in Seq(Item) /\ nt \in Seq(Item) /\ 1 <= Len(st)
       /\ Len(nt) = Len(st) - 1
       /\ \A i \in 1..Len(nt) : nt[i] = st[i + 1]
       /\ \A i \in 1..1 : st[i] = proxy.buffer[i] /\ proxy.buffer[i] \in Item /\ i \in 1..Len(st)
  BY <1>6, <1>15, <1>19, TmBytes
<1>21. st[1] = b[1]
  BY <1>20 DEF b
<1>22. Known(b[1], proxy', testmanagerd)
  BY <1>10, <1>11, <1>15 DEF Known
<1>23. \A i \in 1..1 : st[i].ch = n /\ Known(st[i], py, testmanagerd)
  BY <1>10, <1>21, <1>22
<1>24. fol \in Seq(Item) /\ InStream(st, proxy, testmanagerd)
       /\ (~proxy.unread => ToFollow(st, fol, proxy, testmanagerd))
  BY <1>5, <1>6 DEF Daemon, TmOpen
<1>25. py.lastId = proxy.lastId /\ py.asks = proxy.asks /\ py \in Px
  BY <1>15
<1>26. InStream(nt, py, testmanagerd) /\ (ToFollow(st, fol, proxy, testmanagerd) => ToFollow(nt, fol, py, testmanagerd))
  <2> HIDE DEF st, nt, fol, py, n
  <2>1. Drops(st, nt, 1, n, proxy, py, testmanagerd)
    BY <1>8, <1>19, <1>20, <1>23, <1>25 DEF Drops
  <2> QED BY <1>6, <1>20, <1>24, <1>25, <2>1, TmDrop
<1>27. ASSUME NEW ch \in T!Channel, NEW j \in 1..Len(queues[ch])
       PROVE  (j \in 1..Len(proxy.queue[ch]) /\ queues[ch][j] = proxy.queue[ch][j]) \/ (ch = n /\ queues[ch][j] = h.id)
  BY <1>13, <1>14
<1>28. Steady(proxy', poll', testmanagerd')
  <2>1. \A ch \in T!Channel : proxy.lastId[ch] <= testmanagerd.count /\ \A j \in 1..Len(proxy.queue[ch]) : proxy.queue[ch][j] <= testmanagerd.count
    BY <1>5 DEF Steady
  <2>2. h.id <= testmanagerd.count
    BY <1>11 DEF Telling
  <2>3. \A ch \in T!Channel : \A j \in 1..Len(queues[ch]) : queues[ch][j] <= testmanagerd.count
    BY <1>27, <2>1, <2>2
  <2>4. poll.target = 0 => Len(queues[0]) <= 1
    <3>1. CASE n = 0
      BY <1>11, <1>13, <1>14, <3>1
    <3>2. CASE n # 0
      BY <1>7, <1>11, <1>14, <3>2
    <3> QED BY <3>1, <3>2
  <2>5. /\ (proxy.made => testmanagerd.requested) /\ testmanagerd.requested
        /\ (poll.target = 0 => ~poll.timed /\ ~proxy.made) /\ \A id \in testmanagerd.asked : id <= testmanagerd.count
    BY <1>1, <1>5 DEF Steady
  <2>6. poll'.at # "failed" /\ poll'.phase # "payload"
    BY <1>18
  <2> QED BY <1>1, <1>15, <1>18, <2>1, <2>3, <2>4, <2>5, <2>6 DEF Steady
<1>29. Answered(proxy', poll', testmanagerd', answers')
  <2> SUFFICES ASSUME NEW ch \in T!Channel, ch # poll.target, NEW j \in 1..Len(queues[ch]), queues[ch][j] \in testmanagerd.asked
               PROVE  \E i \in 1..Len(answers') : answers'[i] = <<ch, queues[ch][j]>>
    <3>1. testmanagerd'.asked = testmanagerd.asked /\ proxy'.queue = queues /\ poll'.target = poll.target
      BY <1>1, <1>15, <1>18
    <3> QED BY <3>1 DEF Answered
  <2>1. CASE j \in 1..Len(proxy.queue[ch]) /\ queues[ch][j] = proxy.queue[ch][j]
    <3>1. PICK i \in 1..Len(answers) : answers[i] = <<ch, proxy.queue[ch][j]>>
      BY <1>5, <2>1 DEF Answered
    <3> QED BY <1>17, <2>1, <3>1
  <2>2. CASE ch = n /\ queues[ch][j] = h.id
    <3>1. due
      <4>1. h.id \in testmanagerd.asked /\ n # poll.target
        BY <2>2
      <4>2. ~h.reply /\ proxy.asks[n]
        BY <1>11, <4>1 DEF Known, Telling
      <4> QED BY <1>4, <4>1, <4>2
    <3> HIDE DEF due
    <3>2. answers' = Append(answers, a)
      BY <1>17, <3>1
    <3>3. Len(answers) + 1 \in 1..Len(answers') /\ answers'[Len(answers) + 1] = a
      BY <1>6, <1>16, <3>2
    <3> QED BY <1>16, <2>2, <3>3
  <2> QED BY <1>27, <2>1, <2>2
<1>30. TmTyped'
  BY <1>1, <1>6, <1>15, <1>17, <1>18 DEF TmTyped
<1> QED BY <1>1, <1>15, <1>24, <1>26, <1>28, <1>29, <1>30 DEF TmOpen

\* The socket fails, or is closed: nothing more is said.
LEMMA TmFails ==
    ASSUME TmInv, T!ReadFails \/ T!SocketFails \/ T!Close
    PROVE  TmInv'
<1>1. CASE T!ReadFails
  BY <1>1 DEF T!ReadFails, TmInv
<1>2. CASE T!SocketFails
  <2>1. proxy.socket = "open" /\ proxy' = [proxy EXCEPT !.socket = "lost"]
    BY <1>2 DEF T!SocketFails
  <2>2. proxy \in Px
    BY <2>1 DEF TmInv, TmOpen, TmTyped
  <2>3. proxy'.socket = "lost"
    BY <2>1, <2>2 DEF Px
  <2> QED BY <2>3 DEF TmInv
<1>3. CASE T!Close
  <2> DEFINE none == [c \in T!Channel |-> <<>>]
             zero == [c \in T!Channel |-> 0]
             no == [c \in T!Channel |-> FALSE]
  <2>1. proxy' = [proxy EXCEPT !.socket = "closed", !.fragmenters = {0}, !.made = FALSE, !.queue = none,
                                !.lastId = zero, !.asks = no]
    BY <1>3 DEF T!Close
  <2> HIDE DEF none, zero, no
  <2>2. CASE proxy.socket = "open"
    <3>1. proxy \in Px
      BY <2>2 DEF TmInv, TmOpen, TmTyped
    <3>2. proxy'.socket = "closed"
      BY <2>1, <3>1 DEF Px
    <3> QED BY <3>2 DEF TmInv
  <2>3. CASE proxy.socket # "open"
    <3>1. proxy'.socket = "closed" \/ proxy'.socket = proxy.socket
      BY <2>1
    <3> QED BY <2>3, <3>1 DEF TmInv
  <2> QED BY <2>2, <2>3
<1> QED BY <1>1, <1>2, <1>3

LEMMA TmRegroup ==
    ASSUME NEW a \in Seq(Item), NEW b \in Seq(Item), NEW c \in Seq(Item)
    PROVE  (a \o b) \o c = a \o (b \o c)
BY ConcatAssociative

\* 'data': what comes is the next of the stream, or is read by nobody.
LEMMA TmData ==
    ASSUME TmInv, NEW k \in Nat, T!Data(k)
    PROVE  TmInv'
<1> SUFFICES ASSUME proxy'.socket = "open"  PROVE TmOpen'
  BY DEF TmInv
<1> DEFINE b == proxy.buffer
           w == testmanagerd.wire
           size == IF k < Len(testmanagerd.wire) THEN k ELSE Len(testmanagerd.wire)
           come == SubSeq(testmanagerd.wire, 1, size)
           left == SubSeq(testmanagerd.wire, size + 1, Len(testmanagerd.wire))
           d == testmanagerd'
           px == proxy'
<1>1. ~proxy.unread /\ proxy.socket = "open" /\ size > 0
  BY DEF T!Data, T!Quiet
<1>2. testmanagerd' = [testmanagerd EXCEPT !.wire = left] /\ poll' = poll /\ answers' = answers
  BY DEF T!Data
<1>3. proxy' = [proxy EXCEPT !.buffer = proxy.buffer \o come] \/ proxy' = [proxy EXCEPT !.unread = TRUE]
  BY DEF T!Data
<1>4. TmOpen /\ TmTyped /\ Steady(proxy, poll, testmanagerd) /\ Answered(proxy, poll, testmanagerd, answers)
  BY <1>1 DEF TmInv, TmOpen
<1>5. proxy \in Px /\ poll \in Reader /\ testmanagerd \in Daemon /\ answers \in Seq(T!Channel \X Nat)
  BY <1>4 DEF TmTyped
<1>6. b \in Seq(Item) /\ w \in Seq(Item)
  BY <1>5 DEF Px, Daemon
<1>7. size \in 1..Len(w)
  <2>1. Len(w) \in Nat
    BY <1>6
  <2> QED BY <1>1, <2>1
<1> HIDE DEF size, b, w
<1>8. come \in Seq(Item) /\ left \in Seq(Item) /\ (b \o come) \in Seq(Item)
  BY <1>6, <1>7 DEF b, w
<1>9. b \o w = (b \o come) \o left
  <2>1. come \o left = w
    <3>1. size \in 1 - 1..Len(w) /\ Len(w) \in size..Len(w) /\ 1 \in 1..Len(w) + 1
      BY <1>6, <1>7
    <3>2. SubSeq(w, 1, size) \o SubSeq(w, size + 1, Len(w)) = SubSeq(w, 1, Len(w))
      BY <1>6, <3>1, ConcatAdjacentSubSeq, Zenon
    <3>3. SubSeq(w, 1, Len(w)) = w
      BY <1>6, SubSeqFull
    <3> QED BY <3>2, <3>3 DEF w
  <2> HIDE DEF come, left
  <2>2. (b \o come) \o left = b \o (come \o left)
    BY <1>6, <1>8, TmRegroup
  <2> QED BY <2>1, <2>2
<1> DEFINE more == b \o come
<1>10. proxy' = [proxy EXCEPT !.buffer = more] \/ proxy' = [proxy EXCEPT !.unread = TRUE]
  BY <1>3 DEF b
<1> HIDE DEF come, left, more
<1>11. /\ d \in Daemon /\ d.wire = left /\ d.count = testmanagerd.count /\ d.asked = testmanagerd.asked
       /\ d.requested = testmanagerd.requested /\ d.rest = testmanagerd.rest
  BY <1>2, <1>5, <1>8 DEF Daemon
<1>12. /\ px \in Px /\ px.queue = proxy.queue /\ px.made = proxy.made /\ px.lastId = proxy.lastId /\ px.asks = proxy.asks
       /\ \/ px.buffer = more /\ px.unread = proxy.unread
          \/ px.buffer = proxy.buffer /\ px.unread
  <2>1. more \in Seq(Item)
    BY <1>8 DEF more
  <2> QED BY <1>5, <1>10, <2>1 DEF Px
<1>13. \A x : (Known(x, proxy, testmanagerd) <=> Known(x, px, d)) /\ (Telling(x, testmanagerd) <=> Telling(x, d))
  BY <1>11, <1>12 DEF Known, Telling
<1> DEFINE st == Stream(proxy, testmanagerd)
           nt == Stream(px, d)
<1>14. InStream(st, proxy, testmanagerd) /\ ToFollow(st, testmanagerd.rest, proxy, testmanagerd) /\ st = b \o w
  BY <1>1, <1>4 DEF TmOpen, Stream, b, w
<1>17. InStream(nt, px, d) /\ (~px.unread => ToFollow(nt, d.rest, px, d))
  <2>15. CASE px.buffer = more /\ px.unread = proxy.unread
    <3>1. nt = st
      <4>1. nt = more \o left
        BY <1>1, <1>11, <2>15 DEF Stream
      <4> QED BY <1>9, <1>14, <4>1 DEF more
    <3> HIDE DEF nt, st, px, d
    <3>2. InStream(st, px, d)
      <4>1. px.lastId = proxy.lastId /\ InStream(st, proxy, testmanagerd)
        BY <1>12, <1>14
      <4> QED BY <1>13, <4>1 DEF InStream
    <3>3. ToFollow(st, testmanagerd.rest, px, d)
      <4>1. px.lastId = proxy.lastId /\ ToFollow(st, testmanagerd.rest, proxy, testmanagerd)
        BY <1>12, <1>14
      <4> QED BY <1>13, <4>1 DEF ToFollow
    <3> QED BY <1>11, <3>1, <3>2, <3>3
  <2>16. CASE px.buffer = proxy.buffer /\ px.unread
    <3>1. nt = b
      BY <2>16 DEF Stream, b
    <3>2. \A i \in 1..Len(b) : i \in 1..Len(st) /\ st[i] = b[i]
      BY <1>6, <1>14
    <3>3. \A i \in 1..Len(b) : \A j \in 1..i - 1 : j \in 1..Len(b)
      BY <1>6
    <3> HIDE DEF nt, st, px, d
    <3>4. \A i \in 1..Len(b) : /\ Telling(b[i], d) /\ px.lastId[b[i].ch] <= b[i].id
                               /\ b[i].f = 0 \/ Known(b[i], px, d) \/ \E j \in 1..i - 1 : Begins(b[j], b[i])
      BY <1>12, <1>13, <1>14, <3>2, <3>3 DEF InStream
    <3>5. \A i, j \in 1..Len(b) : i <= j /\ b[i].ch = b[j].ch => b[i].id <= b[j].id
      BY <1>14, <3>2 DEF InStream
    <3> HIDE DEF b
    <3>6. InStream(b, px, d)
      BY <3>4, <3>5 DEF InStream
    <3> QED BY <2>16, <3>1, <3>6
  <2> QED BY <1>12, <2>15, <2>16
<1>18. Steady(proxy', poll', testmanagerd')
  <2> HIDE DEF px, d
  <2> USE <1>2
  <2>1. Steady(px, poll, d)
    BY <1>4, <1>11, <1>12, <1>13 DEF Steady
  <2> QED BY <2>1 DEF px, d
<1>19. Answered(proxy', poll', testmanagerd', answers')
  <2>1. answers' = answers /\ testmanagerd'.asked = testmanagerd.asked /\ proxy'.queue = proxy.queue /\ poll' = poll
    BY <1>2, <1>11, <1>12
  <2> QED BY <1>4, <2>1 DEF Answered
<1>20. TmTyped'
  BY <1>2, <1>5, <1>11, <1>12 DEF TmTyped
<1> QED BY <1>17, <1>18, <1>19, <1>20 DEF TmOpen

\* The frames of a message, and the bytes of a frame.
LEMMA TmFrames ==
    ASSUME NEW m \in Item, m.n \in {1, 3}
    PROVE  /\ T!Frames(m) \in Seq(Item) /\ Len(T!Frames(m)) = m.n
           /\ \A i \in 1..m.n : /\ T!Frames(m)[i].id = m.id /\ T!Frames(m)[i].ch = m.ch /\ T!Frames(m)[i].f = i - 1
                                 /\ T!Frames(m)[i].reply = m.reply /\ (T!Frames(m)[i].asks <=> m.asks /\ i = 1)
<1> DEFINE fr == T!Frames(m)
           Frame(i) == [m EXCEPT !.f = i - 1, !.asks = m.asks /\ i = 1]
<1>1. fr = [i \in 1..m.n |-> Frame(i)]
  BY DEF T!Frames
<1>2. ASSUME NEW i \in 1..m.n
      PROVE  Frame(i) \in Item /\ Frame(i).id = m.id /\ Frame(i).ch = m.ch /\ Frame(i).f = i - 1 /\ Frame(i).reply = m.reply
             /\ (Frame(i).asks <=> m.asks /\ i = 1)
  <2> DEFINE first == m.asks /\ i = 1
             g == i - 1
  <2>1. first \in BOOLEAN /\ g \in Nat
    OBVIOUS
  <2>2. Frame(i) = [m EXCEPT !.f = g, !.asks = first]
    OBVIOUS
  <2>3. first <=> m.asks /\ i = 1
    OBVIOUS
  <2> HIDE DEF first, g, Frame
  <2>4. Frame(i) \in Item /\ Frame(i).id = m.id /\ Frame(i).ch = m.ch /\ Frame(i).f = g /\ Frame(i).reply = m.reply
        /\ Frame(i).asks = first
    BY <2>1, <2>2 DEF Item
  <2> QED BY <2>3, <2>4 DEF g
<1> HIDE DEF fr, Frame
<1>3. \A i \in 1..m.n : fr[i] = Frame(i)
  BY <1>1
<1>4. fr \in [1..m.n -> Item]
  BY <1>1, <1>2
<1>5. m.n \in Nat
  OBVIOUS
<1>6. fr \in Seq(Item) /\ Len(fr) = m.n
  <2> DEFINE n == m.n
  <2> HIDE DEF n
  <2>1. fr \in [1..n -> Item] /\ n \in Nat
    BY <1>4, <1>5 DEF n
  <2>2. fr \in Seq(Item) /\ Len(fr) = n
    BY <2>1
  <2> QED BY <2>2 DEF n
<1> QED BY <1>2, <1>3, <1>6 DEF fr

\* The daemon has a message to send: its frames are after all others, the first of them first.
LEMMA TmSends ==
    ASSUME TmInv, NEW ch \in T!Channel, NEW n \in {1, 3}, NEW wants \in BOOLEAN, NEW re \in BOOLEAN, ~(wants /\ re),
           T!Sends(ch, n, wants, re), UNCHANGED <<proxy, poll, answers>>
    PROVE  TmInv'
<1> SUFFICES ASSUME proxy.socket = "open"  PROVE TmOpen'
  BY DEF TmInv
<1>1. TmOpen /\ TmTyped /\ Steady(proxy, poll, testmanagerd) /\ Answered(proxy, poll, testmanagerd, answers)
  BY DEF TmInv, TmOpen
<1>2. proxy \in Px /\ poll \in Reader /\ testmanagerd \in Daemon /\ answers \in Seq(T!Channel \X Nat)
  BY <1>1 DEF TmTyped
<1>3. proxy' = proxy /\ poll' = poll /\ answers' = answers
  OBVIOUS
<1> DEFINE d == testmanagerd'
           id == testmanagerd.count + 1
           rest == testmanagerd.rest
           msg == [id |-> id, ch |-> ch, f |-> 0, n |-> n, asks |-> wants, reply |-> re, part |-> 0]
           fr == T!Frames(msg)
           asked == IF wants THEN testmanagerd.asked \cup {id} ELSE testmanagerd.asked
           st == Stream(proxy, testmanagerd)
           follow == rest \o fr
<1>4. /\ testmanagerd.count \in Nat /\ rest \in Seq(Item) /\ testmanagerd.asked \in SUBSET Nat
  BY <1>2 DEF Daemon
<1>5. /\ Len(fr) = n /\ fr \in Seq(Item)
      /\ \A i \in 1..n : /\ fr[i].id = id /\ fr[i].ch = ch /\ fr[i].f = i - 1 /\ fr[i].reply = re
                         /\ fr[i].asks <=> wants /\ i = 1
  <2>1. msg \in Item
    BY <1>4 DEF Item
  <2>2. msg.n = n /\ msg.id = id /\ msg.ch = ch /\ msg.reply = re /\ msg.asks = wants
    OBVIOUS
  <2> HIDE DEF fr, msg
  <2> QED BY <2>1, <2>2, TmFrames DEF fr
<1>6. id \in Nat /\ id > testmanagerd.count /\ asked \in SUBSET Nat
  BY <1>4
<1>7. testmanagerd' = [testmanagerd EXCEPT !.count = id, !.asked = asked, !.rest = follow]
  BY DEF T!Sends
<1> HIDE DEF fr, msg, asked
<1>8. /\ follow \in Seq(Item) /\ Len(follow) = Len(rest) + n
      /\ \A i \in 1..Len(rest) : follow[i] = rest[i]
      /\ \A i \in 1..n : follow[Len(rest) + i] = fr[i]
  BY <1>4, <1>5, ConcatProperties
<1> HIDE DEF follow, rest
<1>9. /\ d \in Daemon /\ d.wire = testmanagerd.wire /\ d.count = id /\ d.asked = asked
      /\ d.requested = testmanagerd.requested /\ d.rest = follow
  BY <1>2, <1>6, <1>7, <1>8 DEF Daemon
<1>10. \A x : x \in Nat /\ x <= testmanagerd.count => (x \in asked <=> x \in testmanagerd.asked) /\ x <= id
  BY <1>4, <1>6 DEF asked
<1>11. id \in asked => wants
  BY <1>1, <1>4, <1>6 DEF asked, Steady
<1>12. Stream(proxy, d) = st
  BY <1>9 DEF Stream
<1> HIDE DEF d, id
<1>13. \A x \in Item : Telling(x, testmanagerd) => Telling(x, d)
  BY <1>9, <1>10, TmItem DEF Telling
<1>14. \A x \in Item : Telling(x, testmanagerd) /\ Known(x, proxy, testmanagerd) => Known(x, proxy, d)
  BY <1>9, <1>10, TmItem DEF Telling, Known
<1>15. st \in Seq(Item)
  BY <1>2 DEF Stream, Px, Daemon
<1>16. InStream(st, proxy, testmanagerd) /\ (~proxy.unread => ToFollow(st, rest, proxy, testmanagerd))
  BY <1>1 DEF TmOpen, rest
<1> HIDE DEF st
<1>17. \A i \in 1..Len(st) : st[i] \in Item
  BY <1>15
<1>18. InStream(st, proxy, d)
  BY <1>13, <1>14, <1>16, <1>17 DEF InStream
<1>19. ASSUME ~proxy.unread  PROVE ToFollow(st, follow, proxy, d)
  <2>1. ToFollow(st, rest, proxy, testmanagerd)
    BY <1>16, <1>19
  <2>2. \A i \in 1..Len(follow) : i \in 1..Len(rest) \/ \E k \in 1..n : i = Len(rest) + k
    <3>1. \A i \in 1..Len(follow) : i > Len(rest) => i - Len(rest) \in 1..n /\ i = Len(rest) + (i - Len(rest))
      BY <1>4, <1>8 DEF rest
    <3>2. Len(rest) \in Nat
      BY <1>4 DEF rest
    <3> QED BY <3>1, <3>2
  <2>3. Len(rest) \in Nat /\ \A i \in 1..Len(rest) : rest[i] \in Item
    BY <1>4
  <2>4. ASSUME NEW i \in 1..Len(rest)
        PROVE  /\ Telling(follow[i], d) /\ proxy.lastId[follow[i].ch] <= follow[i].id
               /\ \/ follow[i].f = 0 \/ Known(follow[i], proxy, d)
                  \/ \E j \in 1..Len(st) : Begins(st[j], follow[i])
                  \/ \E j \in 1..i - 1 : Begins(follow[j], follow[i])
    <3>1. /\ Telling(rest[i], testmanagerd) /\ proxy.lastId[rest[i].ch] <= rest[i].id
          /\ \/ rest[i].f = 0 \/ Known(rest[i], proxy, testmanagerd)
             \/ \E j \in 1..Len(st) : Begins(st[j], rest[i])
             \/ \E j \in 1..i - 1 : Begins(rest[j], rest[i])
      BY <2>1 DEF ToFollow
    <3>2. follow[i] = rest[i] /\ \A j \in 1..i - 1 : follow[j] = rest[j]
      BY <1>8, <2>3
    <3>3. Telling(rest[i], d) /\ (Known(rest[i], proxy, testmanagerd) => Known(rest[i], proxy, d))
      BY <1>13, <1>14, <2>3, <3>1
    <3> QED BY <3>1, <3>2, <3>3
  <2>5. ASSUME NEW k \in 1..n
        PROVE  LET i == Len(rest) + k
               IN  /\ Telling(follow[i], d) /\ proxy.lastId[follow[i].ch] <= follow[i].id
                   /\ \/ follow[i].f = 0 \/ Known(follow[i], proxy, d)
                      \/ \E j \in 1..Len(st) : Begins(st[j], follow[i])
                      \/ \E j \in 1..i - 1 : Begins(follow[j], follow[i])
    <3> DEFINE i == Len(rest) + k
    <3>1. follow[i] = fr[k] /\ follow[i].id = id /\ follow[i].ch = ch /\ follow[i].f = k - 1 /\ follow[i].reply = re
          /\ (follow[i].asks <=> wants /\ k = 1)
      BY <1>5, <1>8
    <3>2. Telling(follow[i], d)
      BY <1>6, <1>9, <1>11, <3>1 DEF Telling
    <3>3. proxy.lastId[ch] \in Nat /\ proxy.lastId[ch] <= testmanagerd.count
      BY <1>1, <1>2 DEF Steady, Px
    <3>4. follow[i].f = 0 \/ \E j \in 1..i - 1 : Begins(follow[j], follow[i])
      <4>1. CASE k = 1
        BY <3>1, <4>1
      <4>2. CASE k # 1
        <5>1. Len(rest) + 1 \in 1..i - 1 /\ 1 \in 1..n
          BY <2>3, <4>2
        <5>2. follow[Len(rest) + 1].f = 0 /\ follow[Len(rest) + 1].ch = ch /\ follow[Len(rest) + 1].id = id
          BY <1>5, <1>8, <5>1
        <5>3. Begins(follow[Len(rest) + 1], follow[i])
          BY <3>1, <5>2 DEF Begins
        <5> QED BY <5>1, <5>3
      <4> QED BY <4>1, <4>2
    <3>5. proxy.lastId[follow[i].ch] <= follow[i].id
      BY <1>4, <1>6, <3>1, <3>3
    <3> QED BY <3>2, <3>4, <3>5
  <2>6. \A i \in 1..Len(follow) : follow[i].id \in Nat /\ (i \in 1..Len(rest) => follow[i].id <= testmanagerd.count)
                                  /\ (i \notin 1..Len(rest) => follow[i].id = id)
    <3>1. \A i \in 1..Len(rest) : follow[i].id \in Nat /\ follow[i].id <= testmanagerd.count
      BY <1>8, <2>1, <2>3, TmItem DEF ToFollow, Telling
    <3>2. \A k \in 1..n : follow[Len(rest) + k].id = id
      BY <1>5, <1>8
    <3> QED BY <1>6, <2>2, <3>1, <3>2
  <2>7. ASSUME NEW i \in 1..Len(follow), NEW j \in 1..Len(follow), i <= j, follow[i].ch = follow[j].ch
        PROVE  follow[i].id <= follow[j].id
    <3>1. CASE j \in 1..Len(rest)
      <4>1. i \in 1..Len(rest)
        BY <2>3, <2>7, <3>1
      <4> QED BY <1>8, <2>1, <2>7, <3>1, <4>1 DEF ToFollow
    <3>2. CASE j \notin 1..Len(rest)
      BY <1>4, <1>6, <2>6, <3>2
    <3> QED BY <3>1, <3>2
  <2>8. ASSUME NEW i \in 1..Len(st), NEW j \in 1..Len(follow), st[i].ch = follow[j].ch
        PROVE  st[i].id <= follow[j].id
    <3>1. CASE j \in 1..Len(rest)
      BY <1>8, <2>1, <2>8, <3>1 DEF ToFollow
    <3>2. CASE j \notin 1..Len(rest)
      <4>1. st[i].id <= testmanagerd.count /\ st[i].id \in Nat
        BY <1>16, <1>17, TmItem DEF InStream, Telling
      <4> QED BY <1>4, <1>6, <2>6, <3>2, <4>1
    <3> QED BY <3>1, <3>2
  <2>9. \A i \in 1..Len(follow) :
            /\ Telling(follow[i], d) /\ proxy.lastId[follow[i].ch] <= follow[i].id
            /\ \/ follow[i].f = 0 \/ Known(follow[i], proxy, d)
               \/ \E j \in 1..Len(st) : Begins(st[j], follow[i])
               \/ \E j \in 1..i - 1 : Begins(follow[j], follow[i])
    BY <2>2, <2>4, <2>5
  <2> QED BY <2>7, <2>8, <2>9 DEF ToFollow
<1>20. Steady(proxy, poll, d)
  <2>1. \A ch0 \in T!Channel : proxy.lastId[ch0] <= testmanagerd.count /\ \A j \in 1..Len(proxy.queue[ch0]) : proxy.queue[ch0][j] <= testmanagerd.count
    BY <1>1 DEF Steady
  <2>2. \A ch0 \in T!Channel : proxy.lastId[ch0] \in Nat /\ \A j \in 1..Len(proxy.queue[ch0]) : proxy.queue[ch0][j] \in Nat
    BY <1>2 DEF Px
  <2>3. \A ch0 \in T!Channel : proxy.lastId[ch0] <= id /\ \A j \in 1..Len(proxy.queue[ch0]) : proxy.queue[ch0][j] <= id
    BY <1>10, <2>1, <2>2
  <2>4. \A x \in asked : x <= id
    BY <1>1, <1>4, <1>6, <1>10 DEF asked, Steady
  <2>5. poll.phase = "payload" => Known(poll.frame, proxy, d) /\ Telling(poll.frame, d)
    BY <1>1, <1>2, <1>13, <1>14 DEF Steady, Reader
  <2> QED BY <1>1, <1>9, <2>3, <2>4, <2>5 DEF Steady
<1>21. Answered(proxy, poll, d, answers)
  <2> SUFFICES ASSUME NEW c \in T!Channel, c # poll.target, NEW j \in 1..Len(proxy.queue[c]), proxy.queue[c][j] \in asked
               PROVE  \E i \in 1..Len(answers) : answers[i] = <<c, proxy.queue[c][j]>>
    BY <1>9 DEF Answered
  <2>1. proxy.queue[c][j] \in Nat /\ proxy.queue[c][j] <= testmanagerd.count
    BY <1>1, <1>2 DEF Steady, Px
  <2>2. proxy.queue[c][j] \in testmanagerd.asked
    BY <1>10, <2>1
  <2> QED BY <1>1, <2>2 DEF Answered
<1>22. TmTyped'
  BY <1>2, <1>9 DEF TmTyped, d
<1> QED BY <1>3, <1>9, <1>12, <1>18, <1>19, <1>20, <1>21, <1>22 DEF TmOpen, d

LEMMA TmJoined ==
    ASSUME NEW a \in Seq(Item), NEW b \in Seq(Item)
    PROVE  /\ a \o b \in Seq(Item) /\ Len(a \o b) = Len(a) + Len(b) /\ Len(a) \in Nat /\ Len(b) \in Nat
           /\ \A i \in 1..Len(a) : (a \o b)[i] = a[i] /\ i \in 1..Len(a \o b)
           /\ \A i \in 1..Len(b) : (a \o b)[Len(a) + i] = b[i] /\ Len(a) + i \in 1..Len(a \o b)
           /\ \A i \in 1..Len(a \o b) : i \notin 1..Len(a) =>
                 i - Len(a) \in 1..Len(b) /\ i = Len(a) + (i - Len(a)) /\ (a \o b)[i] = b[i - Len(a)]
<1>1. a \o b \in Seq(Item) /\ Len(a \o b) = Len(a) + Len(b) /\ Len(a) \in Nat /\ Len(b) \in Nat
  BY ConcatProperties
<1>2. \A i \in 1..Len(a) : (a \o b)[i] = a[i] /\ i \in 1..Len(a \o b)
  BY <1>1
<1>3. \A i \in 1..Len(b) : (a \o b)[Len(a) + i] = b[i] /\ Len(a) + i \in 1..Len(a \o b)
  BY <1>1
<1>4. \A i \in 1..Len(a \o b) : i \notin 1..Len(a) => i - Len(a) \in 1..Len(b) /\ i = Len(a) + (i - Len(a))
  BY <1>1
<1> QED BY <1>1, <1>2, <1>3, <1>4

LEMMA TmParts ==
    ASSUME NEW h \in Item
    PROVE  /\ T!Bytes(h) \in Seq(Item) /\ Len(T!Bytes(h)) \in {2, 3}
           /\ \A i \in 1..Len(T!Bytes(h)) :
                 /\ T!Bytes(h)[i].id = h.id /\ T!Bytes(h)[i].ch = h.ch /\ T!Bytes(h)[i].f = h.f
                 /\ T!Bytes(h)[i].reply = h.reply /\ T!Bytes(h)[i].asks = h.asks
<1> DEFINE bs == T!Bytes(h)
           n == IF h.n > 1 /\ h.f = 0 THEN 2 ELSE 3
           Byte(p) == [h EXCEPT !.part = p]
<1>1. bs = [p \in 1..n |-> Byte(p)]
  BY DEF T!Bytes
<1>2. ASSUME NEW p \in 1..n
      PROVE  Byte(p) \in Item /\ Byte(p).id = h.id /\ Byte(p).ch = h.ch /\ Byte(p).f = h.f /\ Byte(p).reply = h.reply
             /\ Byte(p).asks = h.asks
  <2>1. p \in Nat
    OBVIOUS
  <2> HIDE DEF n
  <2> QED BY <2>1 DEF Item
<1>3. n \in {2, 3}
  OBVIOUS
<1> HIDE DEF bs, Byte, n
<1>4. \A p \in 1..n : bs[p] = Byte(p)
  BY <1>1
<1>5. bs \in [1..n -> Item] /\ n \in Nat
  BY <1>1, <1>2, <1>3
<1>6. bs \in Seq(Item) /\ Len(bs) = n
  BY <1>5
<1> QED BY <1>2, <1>3, <1>4, <1>6 DEF bs

\* One of the next frames, the first of its channel, is on the way.
LEMMA TmEmits ==
    ASSUME TmInv, NEW at \in DOMAIN testmanagerd.rest, T!DaemonEmits(at)
    PROVE  TmInv'
<1> SUFFICES ASSUME proxy.socket = "open"  PROVE TmOpen'
  BY DEF TmInv, T!DaemonEmits
<1>1. TmOpen /\ TmTyped /\ Steady(proxy, poll, testmanagerd) /\ Answered(proxy, poll, testmanagerd, answers)
  BY DEF TmInv, TmOpen
<1>2. proxy \in Px /\ poll \in Reader /\ testmanagerd \in Daemon /\ answers \in Seq(T!Channel \X Nat)
  BY <1>1 DEF TmTyped
<1>3. proxy' = proxy /\ poll' = poll /\ answers' = answers
  BY DEF T!DaemonEmits
<1> DEFINE d == testmanagerd'
           rest == testmanagerd.rest
           h == rest[at]
           bs == T!Bytes(h)
           fewer == SubSeq(testmanagerd.rest, 1, at - 1) \o SubSeq(testmanagerd.rest, at + 1, Len(testmanagerd.rest))
           more == testmanagerd.wire \o T!Bytes(testmanagerd.rest[at])
           st == Stream(proxy, testmanagerd)
           nt == Stream(proxy, testmanagerd')
<1>4. rest \in Seq(Item) /\ at \in 1..Len(rest) /\ h \in Item /\ testmanagerd.wire \in Seq(Item) /\ Len(rest) \in Nat
  <2>1. rest \in Seq(Item) /\ testmanagerd.wire \in Seq(Item)
    BY <1>2 DEF Daemon
  <2> QED BY <2>1
<1>5. \A j \in 1..at - 1 : rest[j].ch # h.ch
  BY DEF T!DaemonEmits
<1>6. testmanagerd' = [testmanagerd EXCEPT !.rest = fewer, !.wire = more]
  BY DEF T!DaemonEmits, T!RemoveAt
<1>7. /\ bs \in Seq(Item) /\ Len(bs) \in {2, 3}
      /\ \A i \in 1..Len(bs) : bs[i].id = h.id /\ bs[i].ch = h.ch /\ bs[i].f = h.f /\ bs[i].reply = h.reply /\ bs[i].asks = h.asks
  BY <1>4, TmParts
<1> HIDE DEF bs, rest, h
<1>8. more \in Seq(Item) /\ more = testmanagerd.wire \o bs
  <2>1. more = testmanagerd.wire \o bs
    BY DEF bs, h, rest
  <2> HIDE DEF more
  <2> QED BY <1>4, <1>7, <2>1
<1>9. /\ fewer \in Seq(Item) /\ Len(fewer) = Len(rest) - 1
      /\ \A j \in 1..Len(fewer) : fewer[j] = IF j < at THEN rest[j] ELSE rest[j + 1]
  <2> DEFINE low == SubSeq(rest, 1, at - 1)
             high == SubSeq(rest, at + 1, Len(rest))
  <2>1. low \in Seq(Item) /\ Len(low) = at - 1 /\ \A j \in 1..at - 1 : low[j] = rest[j]
    BY <1>4
  <2>2. high \in Seq(Item) /\ Len(high) = Len(rest) - at /\ \A j \in 1..Len(rest) - at : high[j] = rest[at + j]
    BY <1>4
  <2>3. fewer = low \o high
    BY DEF rest
  <2> HIDE DEF fewer, low, high
  <2>4. fewer \in Seq(Item) /\ Len(fewer) = Len(rest) - 1
    BY <1>4, <2>1, <2>2, <2>3
  <2>5. ASSUME NEW j \in 1..Len(fewer)  PROVE fewer[j] = IF j < at THEN rest[j] ELSE rest[j + 1]
    <3>1. CASE j < at
      BY <1>4, <2>1, <2>2, <2>3, <2>4, <3>1, ConcatProperties
    <3>2. CASE ~(j < at)
      <4>1. fewer[j] = high[j - (at - 1)]
        <5>1. j \notin 1..Len(low) /\ j \in 1..Len(low \o high)
          BY <1>4, <2>1, <2>3, <3>2
        <5>2. (low \o high)[j] = high[j - Len(low)]
          BY <2>1, <2>2, <5>1, TmJoined
        <5> QED BY <2>1, <2>3, <5>2
      <4>2. j - (at - 1) \in 1..Len(rest) - at /\ at + (j - (at - 1)) = j + 1
        BY <1>4, <2>4, <3>2
      <4> QED BY <2>2, <3>2, <4>1, <4>2
    <3> QED BY <3>1, <3>2
  <2> QED BY <2>4, <2>5
<1> HIDE DEF fewer, more
<1>10. /\ d \in Daemon /\ d.wire = more /\ d.rest = fewer /\ d.count = testmanagerd.count /\ d.asked = testmanagerd.asked
       /\ d.requested = testmanagerd.requested
  BY <1>2, <1>6, <1>8, <1>9 DEF Daemon
<1>11. \A x : (Known(x, proxy, testmanagerd) <=> Known(x, proxy, d)) /\ (Telling(x, testmanagerd) <=> Telling(x, d))
  BY <1>10 DEF Known, Telling
<1>12. InStream(st, proxy, testmanagerd) /\ (~proxy.unread => ToFollow(st, rest, proxy, testmanagerd)) /\ st \in Seq(Item)
  BY <1>1, <1>2 DEF TmOpen, rest, Stream, Px, Daemon
<1>13. InStream(st, proxy, d)
  BY <1>11, <1>12 DEF InStream
<1>14. /\ proxy.unread => nt = st
       /\ ~proxy.unread => nt = st \o bs
  <2>1. CASE proxy.unread
    BY <2>1 DEF Stream
  <2>2. CASE ~proxy.unread
    <3>1. st = proxy.buffer \o testmanagerd.wire /\ nt = proxy.buffer \o more
      BY <1>10, <2>2 DEF Stream
    <3>2. proxy.buffer \in Seq(Item)
      BY <1>2 DEF Px
    <3>3. (proxy.buffer \o testmanagerd.wire) \o bs = proxy.buffer \o (testmanagerd.wire \o bs)
      BY <1>4, <1>7, <3>2, TmRegroup
    <3> QED BY <1>8, <2>2, <3>1, <3>3
  <2> QED BY <2>1, <2>2
<1> HIDE DEF d, st, nt
<1>15. ASSUME ~proxy.unread
       PROVE  InStream(nt, proxy, d) /\ ToFollow(nt, fewer, proxy, d)
  <2>0. nt = st \o bs
    BY <1>14, <1>15
  <2>1. /\ nt \in Seq(Item) /\ Len(nt) = Len(st) + Len(bs) /\ Len(st) \in Nat
        /\ \A i \in 1..Len(st) : nt[i] = st[i]
        /\ \A i \in 1..Len(bs) : nt[Len(st) + i] = bs[i]
    BY <1>7, <1>12, <2>0, TmJoined
  <2>2. \A i \in 1..Len(nt) : i \in 1..Len(st) \/ \E k \in 1..Len(bs) : i = Len(st) + k
    BY <1>7, <1>12, <2>0, TmJoined
  <2>3. ToFollow(st, rest, proxy, testmanagerd)
    BY <1>12, <1>15
  <2>4. ToFollow(st, rest, proxy, d)
    BY <1>11, <2>3 DEF ToFollow
  <2>5. \A x : Begins(x, h) /\ x.ch # h.ch => FALSE
    BY DEF Begins
  <2>6. /\ Telling(h, d) /\ proxy.lastId[h.ch] <= h.id
        /\ h.f = 0 \/ Known(h, proxy, d) \/ \E j \in 1..Len(st) : Begins(st[j], h)
    <3>1. /\ Telling(rest[at], d) /\ proxy.lastId[rest[at].ch] <= rest[at].id
          /\ \/ rest[at].f = 0 \/ Known(rest[at], proxy, d)
             \/ \E j \in 1..Len(st) : Begins(st[j], rest[at])
             \/ \E j \in 1..at - 1 : Begins(rest[j], rest[at])
      BY <1>4, <2>4 DEF ToFollow
    <3> QED BY <1>5, <2>5, <3>1 DEF h
  <2>7. \A i \in 1..Len(bs) : /\ Telling(bs[i], d) /\ proxy.lastId[bs[i].ch] <= bs[i].id
                              /\ (Known(h, proxy, d) => Known(bs[i], proxy, d))
                              /\ \A x : (Begins(x, h) <=> Begins(x, bs[i])) /\ (Begins(h, x) <=> Begins(bs[i], x))
    BY <1>7, <2>6 DEF Telling, Known, Begins
  <2>8. \A i \in 1..Len(nt) : /\ Telling(nt[i], d) /\ proxy.lastId[nt[i].ch] <= nt[i].id
                              /\ nt[i].f = 0 \/ Known(nt[i], proxy, d) \/ \E j \in 1..i - 1 : Begins(nt[j], nt[i])
    <3>1. ASSUME NEW i \in 1..Len(st)
          PROVE  /\ Telling(nt[i], d) /\ proxy.lastId[nt[i].ch] <= nt[i].id
                 /\ nt[i].f = 0 \/ Known(nt[i], proxy, d) \/ \E j \in 1..i - 1 : Begins(nt[j], nt[i])
      <4>1. nt[i] = st[i] /\ \A j \in 1..i - 1 : nt[j] = st[j]
        BY <2>1
      <4> QED BY <1>13, <4>1 DEF InStream
    <3>2. ASSUME NEW k \in 1..Len(bs)
          PROVE  /\ Telling(bs[k], d) /\ proxy.lastId[bs[k].ch] <= bs[k].id
                 /\ bs[k].f = 0 \/ Known(bs[k], proxy, d) \/ \E j \in 1..(Len(st) + k) - 1 : Begins(nt[j], bs[k])
      <4>1. \A j \in 1..Len(st) : j \in 1..(Len(st) + k) - 1 /\ nt[j] = st[j]
        BY <1>7, <2>1
      <4> QED BY <1>7, <2>6, <2>7, <4>1
    <3> QED BY <2>1, <2>2, <3>1, <3>2
  <2>9. \A i \in 1..Len(bs) : bs[i].id = h.id /\ bs[i].ch = h.ch
    BY <1>7
  <2>10. \A i, j \in 1..Len(st) : i <= j /\ st[i].ch = st[j].ch => st[i].id <= st[j].id
    BY <1>13 DEF InStream
  <2>11. \A i \in 1..Len(st) : st[i].ch = h.ch => st[i].id <= h.id
    BY <1>4, <2>4 DEF ToFollow, h
  <2>12. h.id \in Nat /\ h.id <= h.id
    BY <1>4, TmItem
  <2>13. ASSUME NEW i \in 1..Len(nt), NEW j \in 1..Len(nt), i <= j, nt[i].ch = nt[j].ch
         PROVE  nt[i].id <= nt[j].id
    <3>1. CASE j \in 1..Len(st)
      <4>1. i \in 1..Len(st)
        BY <2>1, <2>13, <3>1
      <4> QED BY <2>1, <2>10, <2>13, <3>1, <4>1
    <3>2. CASE j \notin 1..Len(st)
      <4>1. nt[j].id = h.id /\ nt[j].ch = h.ch
        BY <2>1, <2>2, <2>9, <3>2
      <4>2. CASE i \in 1..Len(st)
        BY <2>1, <2>11, <2>13, <4>1, <4>2
      <4>3. CASE i \notin 1..Len(st)
        BY <2>1, <2>2, <2>9, <2>12, <4>1, <4>3
      <4> QED BY <4>2, <4>3
    <3> QED BY <3>1, <3>2
  <2>14. InStream(nt, proxy, d)
    BY <2>8, <2>13 DEF InStream
  <2> DEFINE From(j) == IF j < at THEN j ELSE j + 1
  <2>15. \A j \in 1..Len(fewer) : From(j) \in 1..Len(rest) /\ From(j) # at /\ fewer[j] = rest[From(j)]
    BY <1>4, <1>9
  <2>16. \A i, j \in 1..Len(fewer) : i <= j => From(i) <= From(j)
    BY <1>4, <1>9
  <2>17. \A j \in 1..Len(fewer) : \A l \in 1..From(j) - 1 : l = at \/ \E i \in 1..j - 1 : i \in 1..Len(fewer) /\ From(i) = l
    <3>1. ASSUME NEW j \in 1..Len(fewer), NEW l \in 1..From(j) - 1, l < at
          PROVE  l \in 1..j - 1 /\ l \in 1..Len(fewer) /\ From(l) = l
      BY <1>4, <1>9, <3>1
    <3>2. ASSUME NEW j \in 1..Len(fewer), NEW l \in 1..From(j) - 1, l > at
          PROVE  l - 1 \in 1..j - 1 /\ l - 1 \in 1..Len(fewer) /\ From(l - 1) = l
      BY <1>4, <1>9, <3>2
    <3>3. \A j \in 1..Len(fewer) : \A l \in 1..From(j) - 1 : l < at \/ l = at \/ l > at
      BY <1>4, <1>9
    <3> QED BY <3>1, <3>2, <3>3
  <2> HIDE DEF From
  <2>18. \A i \in 1..Len(st) : i \in 1..Len(nt) /\ nt[i] = st[i]
    BY <1>7, <2>1
  <2>19. Len(st) + 1 \in 1..Len(nt) /\ \A x : Begins(h, x) => Begins(nt[Len(st) + 1], x)
    <3>1. Len(bs) >= 1 /\ Len(bs) \in Nat
      <4>1. Len(bs) \in {2, 3}
        BY <1>7
      <4> QED BY <4>1
    <3>2. 1 \in 1..Len(bs)
      BY <3>1
    <3>3. nt[Len(st) + 1] = bs[1]
      BY <2>1, <3>2
    <3>4. Len(nt) = Len(st) + Len(bs) /\ Len(st) \in Nat
      BY <2>1
    <3>5. Len(st) + 1 \in 1..Len(nt)
      BY <3>1, <3>4
    <3> QED BY <2>7, <3>2, <3>3, <3>5
  <2>20. ASSUME NEW j \in 1..Len(fewer)
         PROVE  /\ Telling(fewer[j], d) /\ proxy.lastId[fewer[j].ch] <= fewer[j].id
                /\ \/ fewer[j].f = 0 \/ Known(fewer[j], proxy, d)
                   \/ \E i \in 1..Len(nt) : Begins(nt[i], fewer[j])
                   \/ \E i \in 1..j - 1 : Begins(fewer[i], fewer[j])
    <3> DEFINE l == From(j)
    <3>1. l \in 1..Len(rest) /\ fewer[j] = rest[l]
      BY <2>15
    <3>2. /\ Telling(rest[l], d) /\ proxy.lastId[rest[l].ch] <= rest[l].id
          /\ \/ rest[l].f = 0 \/ Known(rest[l], proxy, d)
             \/ \E i \in 1..Len(st) : Begins(st[i], rest[l])
             \/ \E i \in 1..l - 1 : Begins(rest[i], rest[l])
      BY <2>4, <3>1 DEF ToFollow
    <3>3. ASSUME NEW i \in 1..l - 1, Begins(rest[i], rest[l])
          PROVE  (\E k \in 1..Len(nt) : Begins(nt[k], rest[l])) \/ \E k \in 1..j - 1 : Begins(fewer[k], rest[l])
      <4>1. CASE i = at
        BY <2>19, <3>3, <4>1 DEF h
      <4>2. CASE i # at
        <5>1. PICK k \in 1..j - 1 : k \in 1..Len(fewer) /\ From(k) = i
          BY <2>17, <4>2
        <5>2. fewer[k] = rest[i]
          BY <2>15, <5>1
        <5> QED BY <3>3, <5>2
      <4> QED BY <4>1, <4>2
    <3> HIDE DEF l
    <3> QED BY <2>18, <3>1, <3>2, <3>3
  <2>21. ASSUME NEW i \in 1..Len(fewer), NEW j \in 1..Len(fewer), i <= j, fewer[i].ch = fewer[j].ch
         PROVE  fewer[i].id <= fewer[j].id
    <3>1. From(i) \in 1..Len(rest) /\ From(j) \in 1..Len(rest) /\ From(i) <= From(j) /\ fewer[i] = rest[From(i)] /\ fewer[j] = rest[From(j)]
      BY <2>15, <2>16, <2>21
    <3> QED BY <2>4, <2>21, <3>1 DEF ToFollow
  <2>22. ASSUME NEW i \in 1..Len(nt), NEW j \in 1..Len(fewer), nt[i].ch = fewer[j].ch
         PROVE  nt[i].id <= fewer[j].id
    <3>1. From(j) \in 1..Len(rest) /\ From(j) # at /\ fewer[j] = rest[From(j)]
      BY <2>15
    <3>2. CASE i \in 1..Len(st)
      BY <2>1, <2>4, <2>22, <3>1, <3>2 DEF ToFollow
    <3>3. CASE i \notin 1..Len(st)
      <4>1. nt[i].id = h.id /\ nt[i].ch = h.ch
        BY <2>1, <2>2, <2>9, <3>3
      <4>2. rest[From(j)].ch = h.ch
        BY <2>22, <3>1, <4>1
      <4>3. at <= From(j)
        <5>1. From(j) < at => From(j) \in 1..at - 1
          BY <1>4, <3>1
        <5> QED BY <1>4, <1>5, <3>1, <4>2, <5>1
      <4>4. rest[at].id <= rest[From(j)].id
        BY <1>4, <2>4, <3>1, <4>2, <4>3 DEF ToFollow, h
      <4> QED BY <3>1, <4>1, <4>4 DEF h
    <3> QED BY <3>2, <3>3
  <2>23. ToFollow(nt, fewer, proxy, d)
    BY <2>20, <2>21, <2>22 DEF ToFollow
  <2> QED BY <2>14, <2>23
<1>16. InStream(nt, proxy, d) /\ (~proxy.unread => ToFollow(nt, fewer, proxy, d))
  <2>1. proxy.unread => InStream(nt, proxy, d)
    BY <1>13, <1>14
  <2> QED BY <1>15, <2>1
<1>17. Steady(proxy, poll, d)
  BY <1>1, <1>10, <1>11 DEF Steady
<1>18. Answered(proxy, poll, d, answers)
  BY <1>1, <1>10 DEF Answered
<1>19. TmTyped'
  BY <1>2, <1>3, <1>10 DEF TmTyped, d
<1> QED BY <1>3, <1>10, <1>16, <1>17, <1>18, <1>19 DEF TmOpen, d, nt

\* The daemon: an answer of its own accord, or a call.
LEMMA TmDaemon ==
    ASSUME TmInv, T!DaemonAnswers \/ \E ch \in T!Channel, n \in {1, 3}, wants \in BOOLEAN : T!DaemonCalls(ch, n, wants)
    PROVE  TmInv'
<1>1. CASE T!DaemonAnswers
  <2>1. T!Sends(0, 1, FALSE, TRUE) /\ UNCHANGED <<proxy, poll, answers>>
    BY <1>1 DEF T!DaemonAnswers
  <2>2. 0 \in T!Channel /\ 1 \in {1, 3} /\ FALSE \in BOOLEAN /\ TRUE \in BOOLEAN
    BY DEF T!Channel
  <2> QED BY <2>1, <2>2, TmSends
<1>2. ASSUME NEW ch \in T!Channel, NEW n \in {1, 3}, NEW wants \in BOOLEAN, T!DaemonCalls(ch, n, wants)
      PROVE  TmInv'
  <2>1. T!Sends(ch, n, wants, FALSE) /\ UNCHANGED <<proxy, poll, answers>>
    BY <1>2 DEF T!DaemonCalls
  <2> QED BY <2>1, TmSends
<1> QED BY <1>1, <1>2

LEMMA TmStep ==
    ASSUME TmInv, T!TmNext
    PROVE  TmInv'
<1>1. CASE T!MakeChannel \/ T!Polls \/ T!Replies \/ T!Written \/ T!TimesOut
  BY <1>1, TmCalls
<1>2. CASE T!Returns
  BY <1>2, TmReturns
<1>3. CASE T!TakesHeader
  BY <1>3, TmHeader
<1>4. CASE T!TakesPayload
  BY <1>4, TmPayload
<1>5. CASE T!ReadFails \/ T!SocketFails \/ T!Close
  BY <1>5, TmFails
<1>6. CASE \E k \in Chunks : T!Data(k)
  BY <1>6, TmData, LinksBounds
<1>7. CASE T!DaemonAnswers \/ \E ch \in T!Channel, n \in {1, 3}, wants \in BOOLEAN : T!DaemonCalls(ch, n, wants)
  BY <1>7, TmDaemon
<1>8. CASE \E i \in DOMAIN testmanagerd.rest : T!DaemonEmits(i)
  BY <1>8, TmEmits
<1> QED BY <1>1, <1>2, <1>3, <1>4, <1>5, <1>6, <1>7, <1>8 DEF T!TmNext

LEMMA TmHolds ==
    ASSUME TmInv
    PROVE  T!OthersAnswered
<1> SUFFICES ASSUME proxy.socket = "open", NEW ch \in T!Channel, ch # poll.target, NEW id \in T!Range(proxy.queue[ch]),
                    id \in testmanagerd.asked
             PROVE  <<ch, id>> \in T!Range(answers)
  BY DEF T!OthersAnswered
<1>1. Answered(proxy, poll, testmanagerd, answers) /\ proxy \in Px /\ answers \in Seq(T!Channel \X Nat)
  BY DEF TmInv, TmOpen, TmTyped
<1>2. proxy.queue[ch] \in Seq(Nat)
  BY <1>1 DEF Px
<1>3. PICK j \in DOMAIN proxy.queue[ch] : id = proxy.queue[ch][j]
  BY DEF T!Range
<1>4. j \in 1..Len(proxy.queue[ch])
  BY <1>2
<1>5. PICK i \in 1..Len(answers) : answers[i] = <<ch, proxy.queue[ch][j]>>
  BY <1>1, <1>3, <1>4 DEF Answered
<1>6. i \in DOMAIN answers
  BY <1>1
<1> QED BY <1>3, <1>5, <1>6 DEF T!Range

-----------------------------------------------------------------------------
(* TestManager: what the reader finds next in the stream is what it reads for, a header's   *)
(* first byte or the payload of the frame at hand, whoever asks and whatever was given up.  *)
FrameShapes ==
    /\ proxy = [socket |-> proxy.socket, buffer |-> proxy.buffer, made |-> proxy.made, fragmenters |-> proxy.fragmenters,
                queue |-> proxy.queue, lastId |-> proxy.lastId, asks |-> proxy.asks, unread |-> proxy.unread, garbled |-> proxy.garbled]
    /\ poll = [at |-> poll.at, target |-> poll.target, phase |-> poll.phase, frame |-> poll.frame,
               timed |-> poll.timed, writing |-> poll.writing]
    /\ testmanagerd = [count |-> testmanagerd.count, rest |-> testmanagerd.rest, wire |-> testmanagerd.wire,
                       requested |-> testmanagerd.requested, asked |-> testmanagerd.asked]
    /\ proxy.buffer \in Seq(Item) /\ testmanagerd.wire \in Seq(Item) /\ testmanagerd.rest \in Seq(Item)
    /\ proxy.unread \in BOOLEAN /\ testmanagerd.count \in Nat /\ poll.phase \in {"header", "payload"}

\* The bytes to come: none of the daemon's once some were lost.
OnTheWay(px, d) == IF px.unread THEN <<>> ELSE d.wire
Coming(px, d) == px.buffer \o OnTheWay(px, d)

FrameEnds(x) == x.part = 3 \/ (x.part = 2 /\ x.n > 1 /\ x.f = 0)
Follows(x, y) == IF FrameEnds(x) THEN y.part = 1 ELSE y = [x EXCEPT !.part = x.part + 1]
Chained(s) == \A i \in 1..Len(s) - 1 : Follows(s[i], s[i + 1])
Opens(s, pl) == Len(s) > 0 => IF pl.phase = "header" THEN s[1].part = 1 ELSE s[1] = [pl.frame EXCEPT !.part = 3]
Closed(s, pl) == IF Len(s) = 0 THEN pl.phase = "header" ELSE FrameEnds(s[Len(s)])
Aligned(px, pl, d) ==
    /\ Chained(Coming(px, d)) /\ Opens(Coming(px, d), pl)
    /\ ~px.unread => Closed(Coming(px, d), pl)
FrameInv ==
    /\ FrameShapes /\ proxy.garbled = FALSE
    /\ poll.at \in {"idle", "got"} => poll.phase = "header"
    /\ Aligned(proxy, poll, testmanagerd)

\* Nothing has come yet, and a header is read first.
LEMMA FrameInitInv ==
    ASSUME T!TmInit
    PROVE  FrameInv
<1>1. <<>> \in Seq(Item) /\ Len(<<>> \o <<>>) = 0
  OBVIOUS
<1>2. FrameShapes /\ proxy.garbled = FALSE /\ poll.phase = "header" /\ proxy.buffer = <<>> /\ testmanagerd.wire = <<>>
  BY <1>1 DEF T!TmInit, FrameShapes
<1>3. Len(Coming(proxy, testmanagerd)) = 0
  BY <1>1, <1>2 DEF Coming, OnTheWay, FrameShapes
<1> QED BY <1>2, <1>3 DEF FrameInv, Aligned, Chained, Opens, Closed

\* What is to come.
LEMMA FrameComing ==
    ASSUME FrameShapes
    PROVE  /\ OnTheWay(proxy, testmanagerd) \in Seq(Item) /\ Coming(proxy, testmanagerd) \in Seq(Item)
           /\ Len(Coming(proxy, testmanagerd)) = Len(proxy.buffer) + Len(OnTheWay(proxy, testmanagerd))
           /\ Len(proxy.buffer) \in Nat /\ Len(OnTheWay(proxy, testmanagerd)) \in Nat
           /\ \A i \in 1..Len(proxy.buffer) : Coming(proxy, testmanagerd)[i] = proxy.buffer[i] /\ proxy.buffer[i] \in Item
<1> DEFINE b == proxy.buffer  w == OnTheWay(proxy, testmanagerd)
<1>1. b \in Seq(Item) /\ w \in Seq(Item)
  BY DEF FrameShapes, OnTheWay
<1> HIDE DEF b, w
<1>2. /\ b \o w \in Seq(Item) /\ Len(b \o w) = Len(b) + Len(w) /\ Len(b) \in Nat /\ Len(w) \in Nat
      /\ \A i \in 1..Len(b) : (b \o w)[i] = b[i]
  BY <1>1, TmJoined
<1>3. \A i \in 1..Len(b) : b[i] \in Item
  BY <1>1
<1> QED BY <1>1, <1>2, <1>3 DEF Coming, b, w

\* Steps that change neither the stream nor what is read for.
LEMMA FrameSame ==
    ASSUME FrameInv, FrameShapes', proxy'.garbled = FALSE, poll'.phase = poll.phase, poll'.frame = poll.frame,
           proxy'.buffer = proxy.buffer, proxy'.unread = proxy.unread, testmanagerd'.wire = testmanagerd.wire,
           poll'.at \in {"idle", "got"} => poll.phase = "header"
    PROVE  FrameInv'
<1>1. Coming(proxy', testmanagerd') = Coming(proxy, testmanagerd)
  BY DEF Coming, OnTheWay
<1>2. Aligned(proxy', poll', testmanagerd')
  BY <1>1 DEF FrameInv, Aligned, Opens, Closed
<1> QED BY <1>2 DEF FrameInv

\* The caller, and what ends a read.
LEMMA FrameCalls ==
    ASSUME FrameInv, \/ T!MakeChannel \/ T!Polls \/ T!Replies \/ T!Written \/ T!Returns
                     \/ T!TimesOut \/ T!ReadFails \/ T!SocketFails \/ T!Close
    PROVE  FrameInv'
<1>0. FrameShapes /\ proxy.garbled = FALSE /\ (poll.at \in {"idle", "got"} => poll.phase = "header")
  BY DEF FrameInv
<1>1. CASE T!MakeChannel \/ T!Polls
  <2>1. poll.at = "idle" /\ poll.phase = "header" /\ proxy' = proxy /\ \E c, t : poll' = T!Reads(c, t)
    BY <1>0, <1>1 DEF T!MakeChannel, T!Polls
  <2>2. poll'.phase = "header" /\ poll'.frame = poll.frame
        /\ poll' = [at |-> poll'.at, target |-> poll'.target, phase |-> poll'.phase, frame |-> poll'.frame,
                    timed |-> poll'.timed, writing |-> poll'.writing]
    BY <1>0, <2>1 DEF T!Reads, FrameShapes
  <2>3. testmanagerd' = testmanagerd \/ testmanagerd' = [testmanagerd EXCEPT !.requested = TRUE]
    BY <1>1 DEF T!MakeChannel, T!Polls
  <2>4. FrameShapes' /\ testmanagerd'.wire = testmanagerd.wire
    BY <1>0, <2>1, <2>2, <2>3 DEF FrameShapes
  <2> QED BY <1>0, <2>1, <2>2, <2>4, FrameSame
<1>2. CASE T!Replies \/ T!Written \/ T!TimesOut \/ T!ReadFails
  <2>1. proxy' = proxy /\ testmanagerd' = testmanagerd
    BY <1>2 DEF T!Replies, T!Written, T!TimesOut, T!ReadFails
  <2>2. \/ poll' = [poll EXCEPT !.at = "idle"] /\ poll.phase = "header"
        \/ poll' = [poll EXCEPT !.at = "failed"]
        \/ poll' = [poll EXCEPT !.writing = FALSE]
        \/ (\E later \in BOOLEAN : poll' = [[poll EXCEPT !.at = "idle"] EXCEPT !.writing = later]) /\ poll.phase = "header"
    BY <1>0, <1>2 DEF T!Replies, T!Written, T!TimesOut, T!ReadFails, T!Writes, T!Abortable
  <2>3. /\ poll' = [at |-> poll'.at, target |-> poll'.target, phase |-> poll'.phase, frame |-> poll'.frame,
                    timed |-> poll'.timed, writing |-> poll'.writing]
        /\ poll'.phase = poll.phase /\ poll'.frame = poll.frame /\ (poll'.at \in {"idle", "got"} => poll.phase = "header")
    BY <1>0, <2>2 DEF FrameShapes
  <2>4. FrameShapes'
    BY <1>0, <2>1, <2>3 DEF FrameShapes
  <2> QED BY <1>0, <2>1, <2>3, <2>4, FrameSame
<1>3. CASE T!Returns
  <2> DEFINE queues == [proxy.queue EXCEPT ![poll.target] = Tail(proxy.queue[poll.target])]
  <2>1. /\ proxy' = [proxy EXCEPT !.queue = queues, !.made = TRUE, !.fragmenters = T!Channel]
        /\ \E a \in {"got", "idle"} : poll' = [poll EXCEPT !.at = a]
        /\ poll.phase = "header" /\ testmanagerd' = testmanagerd
    BY <1>3 DEF T!Returns
  <2> HIDE DEF queues
  <2>2. /\ poll' = [at |-> poll'.at, target |-> poll'.target, phase |-> poll'.phase, frame |-> poll'.frame,
                    timed |-> poll'.timed, writing |-> poll'.writing]
        /\ poll'.phase = poll.phase /\ poll'.frame = poll.frame
    BY <1>0, <2>1 DEF FrameShapes
  <2>3. FrameShapes' /\ proxy'.garbled = FALSE /\ proxy'.buffer = proxy.buffer /\ proxy'.unread = proxy.unread
    BY <1>0, <2>1, <2>2 DEF FrameShapes
  <2> QED BY <1>0, <2>1, <2>2, <2>3, FrameSame
<1>4. CASE T!SocketFails
  <2>1. proxy' = [proxy EXCEPT !.socket = "lost"] /\ poll' = poll /\ testmanagerd' = testmanagerd
    BY <1>4 DEF T!SocketFails
  <2>2. FrameShapes' /\ proxy'.garbled = FALSE /\ proxy'.buffer = proxy.buffer /\ proxy'.unread = proxy.unread
    BY <1>0, <2>1 DEF FrameShapes
  <2> QED BY <1>0, <2>1, <2>2, FrameSame
<1>5. CASE T!Close
  <2> DEFINE none == [c \in T!Channel |-> <<>>]
             zero == [c \in T!Channel |-> 0]
             no == [c \in T!Channel |-> FALSE]
  <2>1. /\ proxy' = [proxy EXCEPT !.socket = "closed", !.fragmenters = {0}, !.made = FALSE, !.queue = none,
                                !.lastId = zero, !.asks = no]
        /\ poll' = [poll EXCEPT !.at = "failed"] /\ testmanagerd' = testmanagerd
    BY <1>5 DEF T!Close
  <2> HIDE DEF none, zero, no
  <2>2. /\ poll' = [at |-> poll'.at, target |-> poll'.target, phase |-> poll'.phase, frame |-> poll'.frame,
                    timed |-> poll'.timed, writing |-> poll'.writing]
        /\ poll'.at = "failed" /\ poll'.phase = poll.phase /\ poll'.frame = poll.frame
    BY <1>0, <2>1 DEF FrameShapes
  <2>3. FrameShapes' /\ proxy'.garbled = FALSE /\ proxy'.buffer = proxy.buffer /\ proxy'.unread = proxy.unread
    BY <1>0, <2>1, <2>2 DEF FrameShapes
  <2> QED BY <1>0, <2>1, <2>2, <2>3, FrameSame
<1> QED BY <1>1, <1>2, <1>3, <1>4, <1>5

\* A chain without its first bytes, one that goes on, one that is cut short.
LEMMA FrameRest ==
    ASSUME NEW s \in Seq(Item), NEW t \in Seq(Item), NEW k \in 1..2, k <= Len(s), Len(t) = Len(s) - k,
           \A i \in 1..Len(t) : t[i] = s[i + k], Chained(s)
    PROVE  /\ Chained(t) /\ (Len(t) > 0 => Follows(s[k], t[1]) /\ t[Len(t)] = s[Len(s)])
           /\ k = 2 => Follows(s[1], s[2])
<1>1. Len(s) \in Nat /\ Len(t) \in Nat
  OBVIOUS
<1>2. ASSUME NEW i \in 1..Len(t) - 1  PROVE Follows(t[i], t[i + 1])
  <2>1. i + k \in 1..Len(s) - 1 /\ i \in 1..Len(t) /\ i + 1 \in 1..Len(t) /\ (i + 1) + k = (i + k) + 1
    BY <1>1
  <2>2. t[i] = s[i + k] /\ t[i + 1] = s[(i + k) + 1]
    BY <2>1
  <2> QED BY <2>1, <2>2 DEF Chained
<1>3. ASSUME Len(t) > 0  PROVE Follows(s[k], t[1]) /\ t[Len(t)] = s[Len(s)]
  <2>1. k \in 1..Len(s) - 1 /\ 1 \in 1..Len(t) /\ Len(t) \in 1..Len(t) /\ Len(t) + k = Len(s) /\ 1 + k = k + 1
    BY <1>1, <1>3
  <2>2. t[1] = s[k + 1] /\ t[Len(t)] = s[Len(s)]
    BY <2>1
  <2> QED BY <2>1, <2>2 DEF Chained
<1>4. ASSUME k = 2  PROVE Follows(s[1], s[2])
  <2>1. 1 \in 1..Len(s) - 1 /\ 1 + 1 = 2
    BY <1>1, <1>4
  <2> QED BY <2>1 DEF Chained
<1> QED BY <1>2, <1>3, <1>4 DEF Chained

LEMMA FrameMore ==
    ASSUME NEW s \in Seq(Item), NEW t \in Seq(Item), Chained(s), Chained(t), Len(t) > 0,
           t[1].part = 1, FrameEnds(t[Len(t)]), Len(s) > 0 => FrameEnds(s[Len(s)])
    PROVE  /\ Chained(s \o t) /\ FrameEnds((s \o t)[Len(s \o t)]) /\ Len(s \o t) > 0
           /\ (s \o t)[1] = IF Len(s) > 0 THEN s[1] ELSE t[1]
<1> DEFINE u == s \o t
<1>1. /\ u \in Seq(Item) /\ Len(u) = Len(s) + Len(t) /\ Len(s) \in Nat /\ Len(t) \in Nat
      /\ \A i \in 1..Len(s) : u[i] = s[i]
      /\ \A i \in 1..Len(t) : u[Len(s) + i] = t[i]
  BY TmJoined
<1> HIDE DEF u
<1>2. ASSUME NEW i \in 1..Len(u) - 1  PROVE Follows(u[i], u[i + 1])
  <2>1. CASE i < Len(s)
    <3>1. i \in 1..Len(s) - 1 /\ i \in 1..Len(s) /\ i + 1 \in 1..Len(s)
      BY <1>1, <2>1
    <3> QED BY <1>1, <3>1 DEF Chained
  <2>2. CASE i = Len(s)
    <3>1. Len(s) \in 1..Len(s) /\ 1 \in 1..Len(t) /\ Len(s) > 0
      BY <1>1, <2>2
    <3>2. u[i] = s[Len(s)] /\ u[i + 1] = t[1]
      BY <1>1, <2>2, <3>1
    <3> QED BY <3>1, <3>2 DEF Follows
  <2>3. CASE i > Len(s)
    <3>1. i - Len(s) \in 1..Len(t) - 1 /\ i - Len(s) \in 1..Len(t) /\ (i - Len(s)) + 1 \in 1..Len(t)
          /\ Len(s) + (i - Len(s)) = i /\ Len(s) + ((i - Len(s)) + 1) = i + 1
      BY <1>1, <2>3
    <3> DEFINE j == i - Len(s)
    <3>2. j \in 1..Len(t) - 1 /\ j \in 1..Len(t) /\ j + 1 \in 1..Len(t) /\ Len(s) + j = i /\ Len(s) + (j + 1) = i + 1
      BY <3>1
    <3> HIDE DEF j
    <3>3. u[Len(s) + j] = t[j] /\ u[Len(s) + (j + 1)] = t[j + 1]
      BY <1>1, <3>2
    <3>4. Follows(t[j], t[j + 1])
      BY <3>2 DEF Chained
    <3> QED BY <3>2, <3>3, <3>4
  <2> QED BY <1>1, <2>1, <2>2, <2>3
<1>3. u[Len(u)] = t[Len(t)]
  <2>1. Len(t) \in 1..Len(t)
    BY <1>1
  <2> QED BY <1>1, <2>1
<1>4. u[1] = IF Len(s) > 0 THEN s[1] ELSE t[1]
  <2>1. CASE Len(s) > 0
    <3>1. 1 \in 1..Len(s)
      BY <1>1, <2>1
    <3> QED BY <1>1, <2>1, <3>1
  <2>2. CASE ~(Len(s) > 0)
    <3>1. Len(s) + 1 = 1 /\ 1 \in 1..Len(t)
      BY <1>1, <2>2
    <3> QED BY <1>1, <2>2, <3>1
  <2> QED BY <2>1, <2>2
<1>5. Len(u) > 0
  BY <1>1
<1> QED BY <1>2, <1>3, <1>4, <1>5 DEF Chained, u

LEMMA FrameCut ==
    ASSUME NEW s \in Seq(Item), NEW t \in Seq(Item), Chained(s \o t), NEW pl, Opens(s \o t, pl)
    PROVE  Chained(s) /\ Opens(s, pl)
<1> DEFINE u == s \o t
<1>1. /\ u \in Seq(Item) /\ Len(u) = Len(s) + Len(t) /\ Len(s) \in Nat /\ Len(t) \in Nat
      /\ \A i \in 1..Len(s) : u[i] = s[i]
  BY TmJoined
<1>2. Chained(u) /\ Opens(u, pl)
  OBVIOUS
<1> HIDE DEF u
<1>3. ASSUME NEW i \in 1..Len(s) - 1  PROVE Follows(s[i], s[i + 1])
  <2>1. i \in 1..Len(u) - 1 /\ i \in 1..Len(s) /\ i + 1 \in 1..Len(s)
    BY <1>1
  <2> QED BY <1>1, <1>2, <2>1 DEF Chained
<1>4. ASSUME Len(s) > 0  PROVE Len(u) > 0 /\ u[1] = s[1]
  <2>1. 1 \in 1..Len(s)
    BY <1>1, <1>4
  <2> QED BY <1>1, <1>4, <2>1
<1> QED BY <1>2, <1>3, <1>4 DEF Chained, Opens

\* The stream once k bytes of the buffer were read.
LEMMA FrameTakes ==
    ASSUME FrameShapes, NEW k \in 1..2, k <= Len(proxy.buffer), NEW c \in Seq(Item), c = SubSeq(proxy.buffer, k + 1, Len(proxy.buffer)),
           proxy'.buffer = c, proxy'.unread = proxy.unread, testmanagerd' = testmanagerd
    PROVE  LET s == Coming(proxy, testmanagerd)
               t == Coming(proxy', testmanagerd')
           IN /\ s \in Seq(Item) /\ t \in Seq(Item) /\ k <= Len(s) /\ Len(t) = Len(s) - k
              /\ \A i \in 1..Len(t) : t[i] = s[i + k]
              /\ \A i \in 1..k : s[i] = proxy.buffer[i] /\ s[i] \in Item
<1> DEFINE b == proxy.buffer  w == OnTheWay(proxy, testmanagerd)
<1>1. b \in Seq(Item) /\ w \in Seq(Item) /\ k <= Len(b)
  BY DEF FrameShapes, OnTheWay
<1>2. Coming(proxy, testmanagerd) = b \o w /\ Coming(proxy', testmanagerd') = c \o w
  BY DEF Coming, OnTheWay
<1>3. c = SubSeq(b, k + 1, Len(b))
  OBVIOUS
<1> HIDE DEF b, w
<1>4. Len(c) = Len(b) - k /\ \A i \in 1..Len(c) : c[i] = b[i + k]
  BY <1>1, <1>3
<1>5. /\ b \o w \in Seq(Item) /\ c \o w \in Seq(Item) /\ Len(c \o w) = Len(b \o w) - k
      /\ \A i \in 1..Len(c \o w) : (c \o w)[i] = (b \o w)[i + k]
      /\ \A i \in 1..k : (b \o w)[i] = b[i] /\ i \in 1..Len(b \o w) /\ i \in 1..Len(b)
  <2>1. c \in Seq(Item)
    OBVIOUS
  <2>2. k \in 1..2
    OBVIOUS
  <2>3. Len(c) = Len(b) - k
    BY <1>4
  <2>4. \A i \in 1..Len(c) : c[i] = b[i + k]
    BY <1>4
  <2>5. b \in Seq(Item)
    BY <1>1
  <2>6. w \in Seq(Item)
    BY <1>1
  <2>7. k <= Len(b)
    BY <1>1
  <2> QED BY <2>1, <2>2, <2>3, <2>4, <2>5, <2>6, <2>7, Shortened
<1>6. k <= Len(b \o w)
  <2>1. k \in 1..k
    OBVIOUS
  <2> QED BY <1>5, <2>1
<1>7. \A i \in 1..k : (b \o w)[i] = b[i] /\ b[i] \in Item
  BY <1>1, <1>5
<1> QED BY <1>2, <1>5, <1>6, <1>7 DEF b

\* A header: the two bytes there are of one frame; then its payload is read for, if it has one.
LEMMA FrameHeader ==
    ASSUME FrameInv, T!TakesHeader
    PROVE  FrameInv'
<1> DEFINE s == Coming(proxy, testmanagerd)
           t == Coming(proxy', testmanagerd')
           h == proxy.buffer[1]
           g == proxy.buffer[2]
           c == SubSeq(proxy.buffer, 3, Len(proxy.buffer))
           some == proxy.fragmenters \cup {h.ch}
           lasts == [proxy.lastId EXCEPT ![h.ch] = h.id]
           expects == [proxy.asks EXCEPT ![h.ch] = T!AsksOf(h)]
<1>0. /\ FrameShapes /\ proxy.garbled = FALSE /\ Aligned(proxy, poll, testmanagerd)
      /\ poll.at = "reading" /\ poll.phase = "header" /\ Len(proxy.buffer) >= 2 /\ testmanagerd' = testmanagerd
  BY DEF FrameInv, T!TakesHeader, T!Reading
<1>1. s \in Seq(Item) /\ s[1] = h /\ s[2] = g /\ h \in Item /\ g \in Item /\ Len(s) >= 2 /\ Len(s) \in Nat
  <2>1. 1 \in 1..Len(proxy.buffer) /\ 2 \in 1..Len(proxy.buffer)
    BY <1>0, FrameComing
  <2>2. s \in Seq(Item) /\ s[1] = h /\ s[2] = g /\ h \in Item /\ g \in Item
    BY <1>0, <2>1, FrameComing
  <2>3. Len(s) >= 2 /\ Len(s) \in Nat
    <3> HIDE DEF s
    <3>1. Len(s) = Len(proxy.buffer) + Len(OnTheWay(proxy, testmanagerd)) /\ Len(proxy.buffer) \in Nat
          /\ Len(OnTheWay(proxy, testmanagerd)) \in Nat
      BY <1>0, FrameComing DEF s
    <3> QED BY <1>0, <3>1
  <2> QED BY <2>2, <2>3
<1>2. h.part = 1 /\ g = [h EXCEPT !.part = 2]
  <2>1. Chained(s) /\ Opens(s, poll)
    BY <1>0 DEF Aligned
  <2> HIDE DEF s
  <2>2. h.part = 1
    BY <1>0, <1>1, <2>1 DEF Opens
  <2>3. Follows(s[1], s[2])
    <3>1. 1 \in 1..Len(s) - 1 /\ 1 + 1 = 2
      BY <1>1
    <3> QED BY <2>1, <3>1 DEF Chained
  <2>4. ~FrameEnds(h)
    BY <2>2 DEF FrameEnds
  <2>5. g = [h EXCEPT !.part = h.part + 1]
    BY <1>1, <2>3, <2>4 DEF Follows
  <2> HIDE DEF h, g
  <2> QED BY <2>2, <2>5
<1>3. /\ proxy' = [proxy EXCEPT !.buffer = c, !.fragmenters = some, !.lastId = lasts, !.asks = expects]
      /\ poll' = IF h.n > 1 /\ h.f = 0 THEN poll ELSE [poll EXCEPT !.phase = "payload", !.frame = h]
  BY <1>2 DEF T!TakesHeader
<1>4. c \in Seq(Item)
  BY <1>0 DEF FrameShapes
<1>5. c = SubSeq(proxy.buffer, 2 + 1, Len(proxy.buffer)) /\ 2 \in 1..2 /\ 2 <= Len(proxy.buffer)
  BY <1>0
<1> HIDE DEF c, some, lasts, expects
<1>6. /\ proxy'.buffer = c /\ proxy'.unread = proxy.unread /\ proxy'.garbled = FALSE
      /\ proxy' = [socket |-> proxy'.socket, buffer |-> proxy'.buffer, made |-> proxy'.made, fragmenters |-> proxy'.fragmenters,
                   queue |-> proxy'.queue, lastId |-> proxy'.lastId, asks |-> proxy'.asks, unread |-> proxy'.unread, garbled |-> proxy'.garbled]
  BY <1>0, <1>3 DEF FrameShapes
<1>7. /\ t \in Seq(Item) /\ Len(t) = Len(s) - 2 /\ \A i \in 1..Len(t) : t[i] = s[i + 2]
  BY <1>0, <1>4, <1>5, <1>6, FrameTakes
<1>8. Chained(t) /\ (Len(t) > 0 => Follows(g, t[1]) /\ t[Len(t)] = s[Len(s)])
  <2>1. Chained(s) /\ 2 \in 1..2 /\ 2 <= Len(s)
    BY <1>0, <1>1 DEF Aligned
  <2> HIDE DEF s, t
  <2> QED BY <1>1, <1>7, <2>1, FrameRest
<1>9. ~proxy.unread => FrameEnds(s[Len(s)])
  <2>1. ~proxy.unread => Closed(s, poll)
    BY <1>0 DEF Aligned
  <2> HIDE DEF s
  <2> QED BY <1>1, <2>1 DEF Closed
<1> HIDE DEF s, t, h, g
<1>10. /\ poll'.phase = (IF h.n > 1 /\ h.f = 0 THEN "header" ELSE "payload") /\ poll'.at = "reading"
       /\ ~(h.n > 1 /\ h.f = 0) => poll'.frame = h
       /\ poll' = [at |-> poll'.at, target |-> poll'.target, phase |-> poll'.phase, frame |-> poll'.frame,
                   timed |-> poll'.timed, writing |-> poll'.writing]
  <2>1. CASE h.n > 1 /\ h.f = 0
    BY <1>0, <1>3, <2>1 DEF FrameShapes
  <2>2. CASE ~(h.n > 1 /\ h.f = 0)
    <3>1. poll' = [poll EXCEPT !.phase = "payload", !.frame = h]
      BY <1>3, <2>2
    <3> QED BY <1>0, <2>2, <3>1 DEF FrameShapes
  <2> QED BY <2>1, <2>2
<1>11. g.part = 2 /\ g.n = h.n /\ g.f = h.f /\ [g EXCEPT !.part = g.part + 1] = [h EXCEPT !.part = 3]
  <2>1. g.part = 2 /\ g.n = h.n /\ g.f = h.f
    BY <1>1, <1>2 DEF Item
  <2>2. [g EXCEPT !.part = 3] = [h EXCEPT !.part = 3]
    BY <1>1, <1>2 DEF Item
  <2> QED BY <2>1, <2>2
<1>12. FrameEnds(g) <=> h.n > 1 /\ h.f = 0
  BY <1>11 DEF FrameEnds
<1>13. Opens(t, poll')
  <2>1. Len(t) > 0 => Follows(g, t[1])
    BY <1>8
  <2>2. CASE h.n > 1 /\ h.f = 0
    BY <1>10, <1>12, <2>1, <2>2 DEF Opens, Follows
  <2>3. CASE ~(h.n > 1 /\ h.f = 0)
    <3>1. Len(t) > 0 => t[1] = [h EXCEPT !.part = 3]
      BY <1>11, <1>12, <2>1, <2>3 DEF Follows
    <3>2. poll'.phase = "payload" /\ poll'.frame = h
      BY <1>10, <2>3
    <3> QED BY <3>1, <3>2 DEF Opens
  <2> QED BY <2>2, <2>3
<1>14. ~proxy.unread => Closed(t, poll')
  <2> SUFFICES ASSUME ~proxy.unread  PROVE Closed(t, poll')
    OBVIOUS
  <2>1. FrameEnds(s[Len(s)])
    BY <1>9
  <2>2. CASE Len(t) = 0
    <3>1. Len(s) = 2
      BY <1>1, <1>7, <2>2
    <3>2. FrameEnds(g)
      BY <1>1, <2>1, <3>1
    <3> QED BY <1>10, <1>12, <2>2, <3>2 DEF Closed
  <2>3. CASE Len(t) # 0
    <3>1. Len(t) > 0
      BY <1>7, <2>3
    <3> QED BY <1>8, <2>1, <2>3, <3>1 DEF Closed
  <2> QED BY <2>2, <2>3
<1>15. FrameShapes'
  <2>1. poll'.phase \in {"header", "payload"}
    BY <1>10
  <2> QED BY <1>0, <1>4, <1>6, <1>10, <2>1 DEF FrameShapes
<1>16. Aligned(proxy', poll', testmanagerd')
  BY <1>6, <1>8, <1>13, <1>14 DEF Aligned, t
<1> QED BY <1>6, <1>10, <1>15, <1>16 DEF FrameInv

\* A payload: it is of the frame at hand; a header is read for again.
LEMMA FramePayload ==
    ASSUME FrameInv, T!TakesPayload
    PROVE  FrameInv'
<1> DEFINE s == Coming(proxy, testmanagerd)
           t == Coming(proxy', testmanagerd')
           h == poll.frame
           b == proxy.buffer
           c == SubSeq(proxy.buffer, 2, Len(proxy.buffer))
           queues == [proxy.queue EXCEPT ![h.ch] = IF h.f = h.n - 1 THEN Append(proxy.queue[h.ch], h.id) ELSE proxy.queue[h.ch]]
           next == [poll EXCEPT !.phase = "header", !.frame = T!NoFrame]
<1>0. /\ FrameShapes /\ proxy.garbled = FALSE /\ Aligned(proxy, poll, testmanagerd)
      /\ poll.at = "reading" /\ poll.phase = "payload" /\ proxy.buffer # <<>> /\ testmanagerd' = testmanagerd
  BY DEF FrameInv, T!TakesPayload, T!Reading
<1>1. b \in Seq(Item) /\ Len(b) \in Nat /\ Len(b) >= 1 /\ Head(b) = b[1] /\ Tail(b) = c
  <2>1. b \in Seq(Item) /\ b # <<>>
    BY <1>0 DEF FrameShapes
  <2> HIDE DEF b
  <2>2. Len(b) \in Nat /\ Len(b) # 0
    BY <2>1, LenProperties, EmptySeq
  <2>3. Tail(b) = SubSeq(b, 2, Len(b)) /\ Head(b) = b[1]
    BY <2>1, TailIsSubSeq, HeadTailProperties
  <2> QED BY <2>1, <2>2, <2>3 DEF b
<1>2. s \in Seq(Item) /\ s[1] = b[1] /\ b[1] \in Item /\ Len(s) >= 1 /\ Len(s) \in Nat
  <2>1. 1 \in 1..Len(proxy.buffer)
    BY <1>1
  <2>2. s \in Seq(Item) /\ s[1] = b[1] /\ b[1] \in Item
    BY <1>0, <2>1, FrameComing
  <2>3. Len(s) >= 1 /\ Len(s) \in Nat
    <3> HIDE DEF s
    <3>1. Len(s) = Len(proxy.buffer) + Len(OnTheWay(proxy, testmanagerd)) /\ Len(proxy.buffer) \in Nat
          /\ Len(OnTheWay(proxy, testmanagerd)) \in Nat
      BY <1>0, FrameComing DEF s
    <3> QED BY <1>1, <3>1
  <2> QED BY <2>2, <2>3
<1>3. b[1] = [h EXCEPT !.part = 3]
  <2>1. Opens(s, poll)
    BY <1>0 DEF Aligned
  <2> HIDE DEF s
  <2> QED BY <1>0, <1>2, <2>1 DEF Opens
<1>4. /\ proxy' = [proxy EXCEPT !.buffer = c, !.queue = queues]
      /\ poll' = next \/ \E later \in BOOLEAN : poll' = [next EXCEPT !.writing = later]
  BY <1>1, <1>3 DEF T!TakesPayload, T!Writes
<1>5. c \in Seq(Item) /\ c = SubSeq(proxy.buffer, 1 + 1, Len(proxy.buffer)) /\ 1 \in 1..2 /\ 1 <= Len(proxy.buffer)
  BY <1>1
<1> HIDE DEF c, queues, b
<1>6. /\ proxy'.buffer = c /\ proxy'.unread = proxy.unread /\ proxy'.garbled = FALSE
      /\ proxy' = [socket |-> proxy'.socket, buffer |-> proxy'.buffer, made |-> proxy'.made, fragmenters |-> proxy'.fragmenters,
                   queue |-> proxy'.queue, lastId |-> proxy'.lastId, asks |-> proxy'.asks, unread |-> proxy'.unread, garbled |-> proxy'.garbled]
  BY <1>0, <1>4 DEF FrameShapes
<1>7. /\ t \in Seq(Item) /\ Len(t) = Len(s) - 1 /\ \A i \in 1..Len(t) : t[i] = s[i + 1]
  BY <1>0, <1>5, <1>6, FrameTakes
<1>8. Chained(t) /\ (Len(t) > 0 => Follows(s[1], t[1]) /\ t[Len(t)] = s[Len(s)])
  <2>1. Chained(s) /\ 1 \in 1..2 /\ 1 <= Len(s)
    BY <1>0, <1>2 DEF Aligned
  <2> HIDE DEF s, t
  <2> QED BY <1>2, <1>7, <2>1, FrameRest
<1>9. ~proxy.unread => FrameEnds(s[Len(s)])
  <2>1. ~proxy.unread => Closed(s, poll)
    BY <1>0 DEF Aligned
  <2> HIDE DEF s
  <2> QED BY <1>2, <2>1 DEF Closed
<1>10. /\ poll'.phase = "header"
       /\ poll' = [at |-> poll'.at, target |-> poll'.target, phase |-> poll'.phase, frame |-> poll'.frame,
                   timed |-> poll'.timed, writing |-> poll'.writing]
  BY <1>0, <1>4 DEF FrameShapes
<1> HIDE DEF s, t
<1>11. s[1].part = 3
  <2>1. s[1] = [h EXCEPT !.part = 3] /\ s[1] \in Item
    BY <1>2, <1>3
  <2> HIDE DEF h
  <2> QED BY <2>1 DEF Item
<1>12. Opens(t, poll')
  BY <1>8, <1>10, <1>11 DEF Opens, Follows, FrameEnds
<1>13. ~proxy.unread => Closed(t, poll')
  <2>1. Len(t) = 0 \/ Len(t) > 0
    BY <1>2, <1>7
  <2> QED BY <1>8, <1>9, <1>10, <2>1 DEF Closed
<1>14. FrameShapes'
  <2>1. poll'.phase \in {"header", "payload"}
    BY <1>10
  <2> QED BY <1>0, <1>5, <1>6, <1>10, <2>1 DEF FrameShapes
<1>15. Aligned(proxy', poll', testmanagerd')
  BY <1>6, <1>8, <1>12, <1>13 DEF Aligned, t
<1> QED BY <1>6, <1>10, <1>14, <1>15 DEF FrameInv

\* 'data': the next bytes of the stream, or the end of it for the reader.
LEMMA FrameData ==
    ASSUME FrameInv, NEW k \in Nat, T!Data(k)
    PROVE  FrameInv'
<1> DEFINE b == proxy.buffer
           w == testmanagerd.wire
           size == IF k < Len(testmanagerd.wire) THEN k ELSE Len(testmanagerd.wire)
           come == SubSeq(testmanagerd.wire, 1, size)
           left == SubSeq(testmanagerd.wire, size + 1, Len(testmanagerd.wire))
           more == b \o come
<1>0. /\ FrameShapes /\ proxy.garbled = FALSE /\ (poll.at \in {"idle", "got"} => poll.phase = "header")
      /\ Aligned(proxy, poll, testmanagerd) /\ ~proxy.unread /\ size > 0 /\ poll' = poll
  BY DEF FrameInv, T!Data, T!Quiet
<1>1. testmanagerd' = [testmanagerd EXCEPT !.wire = left]
  BY DEF T!Data
<1>2. proxy' = [proxy EXCEPT !.buffer = more] \/ proxy' = [proxy EXCEPT !.unread = TRUE]
  BY DEF T!Data
<1>3. b \in Seq(Item) /\ w \in Seq(Item)
  BY <1>0 DEF FrameShapes
<1>4. size \in 1..Len(w)
  <2>1. Len(w) \in Nat
    BY <1>3
  <2> QED BY <1>0, <2>1
<1> HIDE DEF size, b, w
<1>5. come \in Seq(Item) /\ left \in Seq(Item) /\ b \o come \in Seq(Item)
  BY <1>3, <1>4 DEF b, w
<1>6. b \o w = (b \o come) \o left
  <2>1. come \o left = w
    <3>1. size \in 1 - 1..Len(w) /\ Len(w) \in size..Len(w) /\ 1 \in 1..Len(w) + 1
      BY <1>3, <1>4
    <3>2. SubSeq(w, 1, size) \o SubSeq(w, size + 1, Len(w)) = SubSeq(w, 1, Len(w))
      BY <1>3, <3>1, ConcatAdjacentSubSeq, Zenon
    <3>3. SubSeq(w, 1, Len(w)) = w
      BY <1>3, SubSeqFull
    <3> QED BY <3>2, <3>3 DEF w
  <2> HIDE DEF come, left
  <2>2. (b \o come) \o left = b \o (come \o left)
    BY <1>3, <1>5, TmRegroup
  <2> QED BY <2>1, <2>2
<1>7. more \in Seq(Item) /\ b \o w = more \o left
  BY <1>5, <1>6
<1> HIDE DEF come, left, more
<1>8. /\ testmanagerd'.wire = left
      /\ testmanagerd' = [count |-> testmanagerd'.count, rest |-> testmanagerd'.rest, wire |-> testmanagerd'.wire,
                          requested |-> testmanagerd'.requested, asked |-> testmanagerd'.asked]
      /\ testmanagerd'.rest = testmanagerd.rest /\ testmanagerd'.count = testmanagerd.count
  BY <1>0, <1>1 DEF FrameShapes
<1>9. /\ proxy' = [socket |-> proxy'.socket, buffer |-> proxy'.buffer, made |-> proxy'.made, fragmenters |-> proxy'.fragmenters,
                   queue |-> proxy'.queue, lastId |-> proxy'.lastId, asks |-> proxy'.asks, unread |-> proxy'.unread, garbled |-> proxy'.garbled]
      /\ proxy'.garbled = FALSE
      /\ \/ proxy'.buffer = more /\ proxy'.unread = proxy.unread
         \/ proxy'.buffer = b /\ proxy'.unread = TRUE
  BY <1>0, <1>2 DEF FrameShapes, b
<1>10. Coming(proxy, testmanagerd) = b \o w
  BY <1>0 DEF Coming, OnTheWay, b, w
<1>11. Aligned(proxy', poll', testmanagerd')
  <2>1. CASE proxy'.buffer = more /\ proxy'.unread = proxy.unread
    <3>1. Coming(proxy', testmanagerd') = Coming(proxy, testmanagerd)
      BY <1>0, <1>7, <1>8, <1>10, <2>1 DEF Coming, OnTheWay
    <3> QED BY <1>0, <2>1, <3>1 DEF Aligned
  <2>2. CASE proxy'.buffer = b /\ proxy'.unread = TRUE
    <3>1. Coming(proxy', testmanagerd') = b \o <<>>
      BY <2>2 DEF Coming, OnTheWay
    <3>2. b \o <<>> = b
      BY <1>3, ConcatEmptySeq
    <3>3. Chained(b \o w) /\ Opens(b \o w, poll)
      BY <1>0, <1>10 DEF Aligned
    <3>4. Chained(b) /\ Opens(b, poll)
      BY <1>3, <3>3, FrameCut
    <3> QED BY <1>0, <2>2, <3>1, <3>2, <3>4 DEF Aligned
  <2> QED BY <1>9, <2>1, <2>2
<1>12. FrameShapes'
  <2>1. proxy'.buffer \in Seq(Item) /\ proxy'.unread \in BOOLEAN
    BY <1>0, <1>3, <1>7, <1>9 DEF FrameShapes
  <2> QED BY <1>0, <1>5, <1>8, <1>9, <2>1 DEF FrameShapes
<1> QED BY <1>0, <1>9, <1>11, <1>12 DEF FrameInv

\* The daemon has a message to send.
LEMMA FrameSends ==
    ASSUME FrameInv, NEW ch \in T!Channel, NEW n \in {1, 3}, NEW wants \in BOOLEAN, NEW re \in BOOLEAN,
           T!Sends(ch, n, wants, re), UNCHANGED <<proxy, poll, answers>>
    PROVE  FrameInv'
<1> DEFINE id == testmanagerd.count + 1
           asked == IF wants THEN testmanagerd.asked \cup {id} ELSE testmanagerd.asked
           msg == [id |-> id, ch |-> ch, f |-> 0, n |-> n, asks |-> wants, reply |-> re, part |-> 0]
           fr == T!Frames(msg)
           follow == testmanagerd.rest \o fr
<1>0. FrameShapes /\ proxy.garbled = FALSE /\ (poll.at \in {"idle", "got"} => poll.phase = "header")
  BY DEF FrameInv
<1>1. testmanagerd' = [testmanagerd EXCEPT !.count = id, !.asked = asked, !.rest = follow]
  BY DEF T!Sends
<1>2. fr \in Seq(Item)
  <2>1. testmanagerd.count \in Nat
    BY <1>0 DEF FrameShapes
  <2>2. msg \in Item /\ msg.n = n
    BY <2>1 DEF Item
  <2> HIDE DEF msg
  <2> QED BY <2>2, TmFrames
<1> HIDE DEF fr, msg
<1>3. follow \in Seq(Item)
  BY <1>0, <1>2 DEF FrameShapes
<1>4. id \in Nat
  BY <1>0 DEF FrameShapes
<1> HIDE DEF asked, follow, id
<1>5. /\ testmanagerd'.wire = testmanagerd.wire /\ testmanagerd'.rest = follow /\ testmanagerd'.count = id
      /\ testmanagerd' = [count |-> testmanagerd'.count, rest |-> testmanagerd'.rest, wire |-> testmanagerd'.wire,
                          requested |-> testmanagerd'.requested, asked |-> testmanagerd'.asked]
  BY <1>0, <1>1 DEF FrameShapes
<1>6. FrameShapes'
  BY <1>0, <1>3, <1>4, <1>5 DEF FrameShapes
<1> QED BY <1>0, <1>5, <1>6, FrameSame

\* The bytes of a frame: a chain from the first byte of its header to its end.
LEMMA FrameBytes ==
    ASSUME NEW h \in Item
    PROVE  LET bs == T!Bytes(h)
           IN bs \in Seq(Item) /\ Chained(bs) /\ Len(bs) > 0 /\ bs[1].part = 1 /\ FrameEnds(bs[Len(bs)])
<1> DEFINE bs == T!Bytes(h)
           n == IF h.n > 1 /\ h.f = 0 THEN 2 ELSE 3
           Byte(p) == [h EXCEPT !.part = p]
<1>1. bs = [p \in 1..n |-> Byte(p)] /\ (n = 2 <=> h.n > 1 /\ h.f = 0) /\ n \in {2, 3}
  BY DEF T!Bytes
<1> HIDE DEF n
<1>2. ASSUME NEW p \in 1..n
      PROVE  Byte(p) \in Item /\ Byte(p).part = p /\ Byte(p).n = h.n /\ Byte(p).f = h.f
  <2>1. p \in Nat
    BY <1>1
  <2> QED BY <2>1 DEF Item
<1>9. ASSUME NEW p \in 1..n
      PROVE  Byte(p + 1) = [Byte(p) EXCEPT !.part = p + 1]
  OBVIOUS
<1> HIDE DEF bs, Byte
<1>3. \A p \in 1..n : bs[p] = Byte(p)
  BY <1>1
<1>4. bs \in [1..n -> Item] /\ n \in Nat
  BY <1>1, <1>2
<1>5. bs \in Seq(Item) /\ Len(bs) = n
  BY <1>4
<1>6. Chained(bs)
  <2> SUFFICES ASSUME NEW i \in 1..n - 1  PROVE Follows(bs[i], bs[i + 1])
    BY <1>5 DEF Chained
  <2>1. i \in 1..n /\ i + 1 \in 1..n /\ (i = 1 \/ (i = 2 /\ n = 3))
    BY <1>1
  <2>2. bs[i].part = i /\ bs[i].n = h.n /\ bs[i].f = h.f /\ bs[i + 1] = [bs[i] EXCEPT !.part = i + 1]
    BY <1>2, <1>3, <1>9, <2>1
  <2>3. ~FrameEnds(bs[i])
    BY <1>1, <2>1, <2>2 DEF FrameEnds
  <2> QED BY <2>2, <2>3 DEF Follows
<1>7. bs[1].part = 1
  <2>1. 1 \in 1..n
    BY <1>1
  <2> QED BY <1>2, <1>3, <2>1
<1>8. FrameEnds(bs[n])
  <2>1. n \in 1..n
    BY <1>1
  <2>2. bs[n].part = n /\ bs[n].n = h.n /\ bs[n].f = h.f
    BY <1>2, <1>3, <2>1
  <2> QED BY <1>1, <2>2 DEF FrameEnds
<1> QED BY <1>1, <1>5, <1>6, <1>7, <1>8 DEF bs

\* Its next frame is on the way.
LEMMA FrameEmits ==
    ASSUME FrameInv, NEW at \in DOMAIN testmanagerd.rest, T!DaemonEmits(at)
    PROVE  FrameInv'
<1> DEFINE rest == testmanagerd.rest
           h == rest[at]
           bs == T!Bytes(h)
           fewer == SubSeq(testmanagerd.rest, 1, at - 1) \o SubSeq(testmanagerd.rest, at + 1, Len(testmanagerd.rest))
           more == testmanagerd.wire \o T!Bytes(testmanagerd.rest[at])
           s == Coming(proxy, testmanagerd)
           t == Coming(proxy', testmanagerd')
<1>0. /\ FrameShapes /\ proxy.garbled = FALSE /\ (poll.at \in {"idle", "got"} => poll.phase = "header")
      /\ Aligned(proxy, poll, testmanagerd) /\ proxy' = proxy /\ poll' = poll
  BY DEF FrameInv, T!DaemonEmits
<1>1. rest \in Seq(Item) /\ at \in 1..Len(rest) /\ h \in Item /\ testmanagerd.wire \in Seq(Item) /\ proxy.buffer \in Seq(Item)
  <2>1. rest \in Seq(Item) /\ testmanagerd.wire \in Seq(Item) /\ proxy.buffer \in Seq(Item)
    BY <1>0 DEF FrameShapes
  <2> QED BY <2>1
<1>2. testmanagerd' = [testmanagerd EXCEPT !.rest = fewer, !.wire = more]
  BY DEF T!DaemonEmits, T!RemoveAt
<1>3. bs \in Seq(Item) /\ Chained(bs) /\ Len(bs) > 0 /\ bs[1].part = 1 /\ FrameEnds(bs[Len(bs)])
  BY <1>1, FrameBytes
<1>4. more = testmanagerd.wire \o bs
  OBVIOUS
<1>5. fewer \in Seq(Item)
  <2>1. SubSeq(rest, 1, at - 1) \in Seq(Item) /\ SubSeq(rest, at + 1, Len(rest)) \in Seq(Item)
    BY <1>1
  <2> QED BY <2>1
<1> HIDE DEF bs, h, rest, fewer, more
<1>6. more \in Seq(Item)
  BY <1>1, <1>3, <1>4
<1>7. FrameShapes' /\ testmanagerd'.wire = more
  BY <1>0, <1>2, <1>5, <1>6 DEF FrameShapes
<1>8. Aligned(proxy, poll, testmanagerd')
  <2>1. CASE proxy.unread
    <3>1. Coming(proxy, testmanagerd') = s
      BY <2>1 DEF Coming, OnTheWay
    <3> QED BY <1>0, <2>1, <3>1 DEF Aligned
  <2>2. CASE ~proxy.unread
    <3>1. Coming(proxy, testmanagerd') = s \o bs /\ s \in Seq(Item)
      <4>1. Coming(proxy, testmanagerd') = proxy.buffer \o more /\ s = proxy.buffer \o testmanagerd.wire
        BY <1>7, <2>2 DEF Coming, OnTheWay
      <4>2. (proxy.buffer \o testmanagerd.wire) \o bs = proxy.buffer \o (testmanagerd.wire \o bs)
        BY <1>1, <1>3, TmRegroup
      <4>3. s \in Seq(Item)
        BY <1>0, FrameComing
      <4> QED BY <1>4, <4>1, <4>2, <4>3
    <3>2. Chained(s) /\ Opens(s, poll) /\ Closed(s, poll) /\ Len(s) \in Nat
      <4>1. Chained(s) /\ Opens(s, poll) /\ Closed(s, poll)
        BY <1>0, <2>2 DEF Aligned
      <4> HIDE DEF s
      <4> QED BY <3>1, <4>1
    <3> DEFINE u == s \o bs
    <3> HIDE DEF s
    <3>3. Len(s) > 0 => FrameEnds(s[Len(s)])
      BY <3>2 DEF Closed
    <3>4. Chained(u) /\ FrameEnds(u[Len(u)]) /\ Len(u) > 0 /\ u[1] = IF Len(s) > 0 THEN s[1] ELSE bs[1]
      BY <1>3, <3>1, <3>2, <3>3, FrameMore
    <3> HIDE DEF u
    <3>5. Opens(u, poll)
      <4>1. CASE Len(s) > 0
        BY <3>2, <3>4, <4>1 DEF Opens
      <4>2. CASE ~(Len(s) > 0)
        <5>1. poll.phase = "header"
          BY <3>2, <4>2 DEF Closed
        <5> QED BY <1>3, <3>4, <4>2, <5>1 DEF Opens
      <4> QED BY <4>1, <4>2
    <3>6. Closed(u, poll)
      BY <3>4 DEF Closed
    <3> QED BY <3>1, <3>4, <3>5, <3>6 DEF Aligned, u
  <2> QED BY <2>1, <2>2
<1> QED BY <1>0, <1>7, <1>8 DEF FrameInv

\* Every step keeps it.
LEMMA FrameStep == FrameInv /\ T!TmNext => FrameInv'
<1> SUFFICES ASSUME FrameInv, T!TmNext  PROVE FrameInv'
  OBVIOUS
<1>1. ASSUME NEW k \in Chunks, T!Data(k)  PROVE FrameInv'
  BY <1>1, FrameData, LinksBounds
<1>2. CASE T!DaemonAnswers
  <2>1. T!Sends(0, 1, FALSE, TRUE) /\ UNCHANGED <<proxy, poll, answers>> /\ 0 \in T!Channel
    BY <1>2 DEF T!DaemonAnswers, T!Channel
  <2> QED BY <2>1, FrameSends
<1>3. ASSUME NEW ch \in T!Channel, NEW n \in {1, 3}, NEW asks1 \in BOOLEAN, T!DaemonCalls(ch, n, asks1)  PROVE FrameInv'
  <2>1. T!Sends(ch, n, asks1, FALSE) /\ UNCHANGED <<proxy, poll, answers>>
    BY <1>3 DEF T!DaemonCalls
  <2> QED BY <2>1, FrameSends
<1>4. ASSUME NEW i \in DOMAIN testmanagerd.rest, T!DaemonEmits(i)  PROVE FrameInv'
  BY <1>4, FrameEmits
<1> QED BY <1>1, <1>2, <1>3, <1>4, FrameCalls, FrameHeader, FramePayload DEF T!TmNext

LEMMA FrameHolds == FrameInv => T!FramingAligned
BY DEF FrameInv, T!FramingAligned

-----------------------------------------------------------------------------
(* WebInspector: of all that is dialled, at most one connection is or can become the one. *)

Inspector(in) == in = [connection |-> in.connection, promise |-> in.promise, receiving |-> in.receiving,
                       loop |-> in.loop, stop |-> in.stop, closedEarly |-> in.closedEarly]
DialState == {"none", "dial", "drain", "shut", "open", "closed", "failed"}

\* Whatever is dialled or open is what the promise is of, and what is open is the connection.
OneOf(d, promise, connection) ==
    \A k \in 1..MaxDials : /\ d[k] \in {"dial", "drain", "open"} => k = promise
                           /\ d[k] \in {"drain", "open"} => k = connection

\* Unless a close() came too early.
OneLive ==
    /\ Inspector(inspector) /\ inspector.closedEarly \in BOOLEAN
    /\ dials \in [1..MaxDials -> DialState]
    /\ ~inspector.closedEarly => OneOf(dials, inspector.promise, inspector.connection)

LEMMA WebInit ==
    ASSUME W!InspectInit
    PROVE  OneLive
  BY LinksBounds DEF W!InspectInit, OneLive, OneOf, Inspector, DialState

\* Neither the loop nor the generators touch the connection.
LEMMA OneLiveStays ==
    ASSUME OneLive, dials' = dials, Inspector(inspector'), inspector'.closedEarly = inspector.closedEarly,
           inspector'.promise = inspector.promise, inspector'.connection = inspector.connection
    PROVE  OneLive'
  BY DEF OneLive

LEMMA LoopBegins ==
    ASSUME OneLive, NEW X, inspector' = W!Receiving(inspector, X)
    PROVE  /\ Inspector(inspector') /\ inspector'.closedEarly = inspector.closedEarly
           /\ inspector'.promise = inspector.promise /\ inspector'.connection = inspector.connection
  BY DEF OneLive, Inspector, W!Receiving

LEMMA WebListen ==
    ASSUME OneLive, NEW g \in Listener, W!Listen(g)
    PROVE  OneLive'
<1>1. CASE inspector.connection # 0
  BY <1>1, LoopBegins, OneLiveStays DEF W!Listen
<1>2. CASE UNCHANGED <<dials, inspector>>
  BY <1>2 DEF OneLive
<1>3. CASE W!Dials /\ dials' = [dials EXCEPT ![W!Next1(dials)] = "dial"] /\ inspector' = [inspector EXCEPT !.promise = W!Next1(dials)]
  <2> DEFINE n == W!Next1(dials)
  <2> HIDE DEF n
  <2>1. inspector.promise = 0 /\ dials' = [dials EXCEPT ![n] = "dial"] /\ inspector' = [inspector EXCEPT !.promise = n]
    BY <1>3 DEF W!Dials, n
  <2>2. /\ Inspector(inspector') /\ inspector'.closedEarly = inspector.closedEarly
        /\ inspector'.promise = n /\ inspector'.connection = inspector.connection
    BY <2>1 DEF OneLive, Inspector
  <2>3. dials' \in [1..MaxDials -> DialState] /\ \A k \in 1..MaxDials : dials'[k] = IF k = n THEN "dial" ELSE dials[k]
    BY <2>1 DEF OneLive, DialState
  <2>4. ASSUME ~inspector.closedEarly  PROVE OneOf(dials', n, inspector.connection)
    BY <2>1, <2>3, <2>4, LinksBounds DEF OneLive, OneOf
  <2> QED BY <2>2, <2>3, <2>4 DEF OneLive
<1> QED BY <1>1, <1>2, <1>3 DEF W!Listen

LEMMA WebDialled ==
    ASSUME OneLive, NEW k \in 1..MaxDials, W!Dialled(k)
    PROVE  OneLive'
<1>1. dials[k] = "dial" /\ dials \in [1..MaxDials -> DialState] /\ Inspector(inspector) /\ inspector.closedEarly \in BOOLEAN
  BY DEF W!Dialled, OneLive
<1>2. CASE dials' = [dials EXCEPT ![k] = "drain"] /\ inspector' = [inspector EXCEPT !.connection = k]
  <2>1. /\ Inspector(inspector') /\ inspector'.closedEarly = inspector.closedEarly
        /\ inspector'.promise = inspector.promise /\ inspector'.connection = k
    BY <1>1, <1>2 DEF Inspector
  <2>2. dials' \in [1..MaxDials -> DialState] /\ \A i \in 1..MaxDials : dials'[i] = IF i = k THEN "drain" ELSE dials[i]
    BY <1>1, <1>2 DEF DialState
  <2>3. ASSUME ~inspector.closedEarly  PROVE OneOf(dials', inspector.promise, k)
    BY <1>1, <2>2, <2>3 DEF OneLive, OneOf
  <2> QED BY <1>1, <2>1, <2>2, <2>3 DEF OneLive
<1>3. CASE dials' = [dials EXCEPT ![k] = "failed"] /\ inspector' = [inspector EXCEPT !.connection = 0, !.promise = 0]
  <2>1. /\ Inspector(inspector') /\ inspector'.closedEarly = inspector.closedEarly
        /\ inspector'.promise = 0 /\ inspector'.connection = 0
    BY <1>1, <1>3 DEF Inspector
  <2>2. dials' \in [1..MaxDials -> DialState] /\ \A i \in 1..MaxDials : dials'[i] = IF i = k THEN "failed" ELSE dials[i]
    BY <1>1, <1>3 DEF DialState
  <2>3. ASSUME ~inspector.closedEarly  PROVE OneOf(dials', 0, 0)
    BY <1>1, <2>2, <2>3 DEF OneLive, OneOf
  <2> QED BY <1>1, <2>1, <2>2, <2>3 DEF OneLive
<1> QED BY <1>2, <1>3 DEF W!Dialled

LEMMA WebDrained ==
    ASSUME OneLive, NEW k \in 1..MaxDials, W!Drained(k)
    PROVE  OneLive'
<1>1. dials[k] \in {"drain", "shut"} /\ dials \in [1..MaxDials -> DialState] /\ Inspector(inspector)
      /\ inspector.closedEarly \in BOOLEAN
  BY DEF W!Drained, OneLive
<1>2. CASE inspector.connection = 0 /\ inspector.promise = 0
  <2> DEFINE n == W!Next1(dials)
  <2> HIDE DEF n
  <2>1. dials' = [dials EXCEPT ![k] = "closed", ![n] = "dial"] /\ inspector' = [inspector EXCEPT !.promise = n]
    BY <1>2 DEF W!Drained, n
  <2>2. /\ Inspector(inspector') /\ inspector'.closedEarly = inspector.closedEarly
        /\ inspector'.promise = n /\ inspector'.connection = 0
    BY <1>1, <1>2, <2>1 DEF Inspector
  <2>3. dials' \in [1..MaxDials -> DialState]
        /\ \A i \in 1..MaxDials : dials'[i] = IF i = n THEN "dial" ELSE IF i = k THEN "closed" ELSE dials[i]
    BY <1>1, <2>1 DEF DialState
  <2>4. ASSUME ~inspector.closedEarly  PROVE OneOf(dials', n, 0)
    BY <1>2, <2>3, <2>4, LinksBounds DEF OneLive, OneOf
  <2> QED BY <1>1, <2>2, <2>3, <2>4 DEF OneLive
<1>3. CASE inspector.connection = 0 /\ inspector.promise # 0
  <2>1. dials' = [dials EXCEPT ![k] = "closed"] /\ inspector' = inspector
    BY <1>3 DEF W!Drained
  <2>2. dials' \in [1..MaxDials -> DialState] /\ \A i \in 1..MaxDials : dials'[i] = IF i = k THEN "closed" ELSE dials[i]
    BY <1>1, <2>1 DEF DialState
  <2> QED BY <2>1, <2>2 DEF OneLive, OneOf
<1>4. CASE inspector.connection # 0
  <2> DEFINE s == IF dials[k] = "drain" THEN "open" ELSE "closed"
  <2>1. dials' = [dials EXCEPT ![k] = s] /\ \E X : inspector' = W!Receiving(inspector, X)
    BY <1>4 DEF W!Drained
  <2>2. dials' \in [1..MaxDials -> DialState] /\ \A i \in 1..MaxDials : dials'[i] = IF i = k THEN s ELSE dials[i]
    BY <1>1, <2>1 DEF DialState
  <2>3. /\ Inspector(inspector') /\ inspector'.closedEarly = inspector.closedEarly
        /\ inspector'.promise = inspector.promise /\ inspector'.connection = inspector.connection
    BY <2>1, LoopBegins
  <2> QED BY <1>1, <2>2, <2>3 DEF OneLive, OneOf
<1> QED BY <1>2, <1>3, <1>4

\* close() takes the connection with it; what is being dialled makes it a close() too early.
LEMMA WebStopDone ==
    ASSUME OneLive, W!StopDone
    PROVE  OneLive'
<1> DEFINE c == inspector.connection
           early == \E d \in 1..MaxDials : dials[d] \in {"dial", "drain", "shut"}
<1>1. dials \in [1..MaxDials -> DialState] /\ Inspector(inspector) /\ inspector.closedEarly \in BOOLEAN
      /\ DOMAIN dials = 1..MaxDials
  BY DEF OneLive
<1>2. CASE inspector.stop = "close"
  <2>1. inspector' = [inspector EXCEPT !.stop = "no", !.loop = 0, !.promise = 0, !.connection = 0,
                                       !.closedEarly = inspector.closedEarly \/ early]
    BY <1>1, <1>2 DEF W!StopDone
  <2>2. /\ Inspector(inspector') /\ inspector'.closedEarly \in BOOLEAN
        /\ inspector'.closedEarly = (inspector.closedEarly \/ early)
        /\ inspector'.promise = 0 /\ inspector'.connection = 0
    BY <1>1, <2>1 DEF Inspector
  <2>3. dials' \in [1..MaxDials -> DialState]
        /\ \A k \in 1..MaxDials : dials'[k] = IF k = c THEN (IF dials[k] = "drain" THEN "shut" ELSE "closed") ELSE dials[k]
    <3> DEFINE x == IF dials[c] = "drain" THEN "shut" ELSE "closed"
    <3>1. dials' = IF c # 0 THEN [dials EXCEPT ![c] = x] ELSE dials
      BY <1>2 DEF W!StopDone
    <3>2. CASE c # 0
      BY <1>1, <3>1, <3>2 DEF DialState
    <3>3. CASE c = 0
      BY <1>1, <3>1, <3>3, LinksBounds
    <3> QED BY <3>2, <3>3
  <2>4. ASSUME ~inspector'.closedEarly  PROVE OneOf(dials', 0, 0)
    <3>1. ~inspector.closedEarly /\ \A k \in 1..MaxDials : dials[k] \notin {"dial", "drain", "shut"}
      BY <2>2, <2>4
    <3> QED BY <2>3, <3>1 DEF OneLive, OneOf
  <2> QED BY <2>2, <2>3, <2>4 DEF OneLive
<1>3. CASE inspector.stop # "close"
  <2>1. inspector' = [inspector EXCEPT !.stop = "no", !.loop = 0, !.closedEarly = inspector.closedEarly] /\ dials' = dials
    BY <1>1, <1>3 DEF W!StopDone, Inspector
  <2>2. /\ Inspector(inspector') /\ inspector'.closedEarly = inspector.closedEarly
        /\ inspector'.promise = inspector.promise /\ inspector'.connection = inspector.connection
    BY <1>1, <2>1 DEF Inspector
  <2> QED BY <2>1, <2>2, OneLiveStays
<1> QED BY <1>2, <1>3

LEMMA WebStep ==
    ASSUME OneLive, W!InspectNext
    PROVE  OneLive'
<1>0. Inspector(inspector)
  BY DEF OneLive
<1>1. ASSUME NEW i \in 1..MaxLoops, W!Receives(i) \/ W!NothingCame(i) \/ W!LoopFails(i)  PROVE OneLive'
  <2>1. dials' = dials /\ \E r : inspector' = [inspector EXCEPT !.receiving = r]
    BY <1>1 DEF W!Receives, W!NothingCame, W!LoopFails, W!AfterReceive
  <2>2. /\ Inspector(inspector') /\ inspector'.closedEarly = inspector.closedEarly
        /\ inspector'.promise = inspector.promise /\ inspector'.connection = inspector.connection
    BY <1>0, <2>1 DEF Inspector
  <2> QED BY <2>1, <2>2, OneLiveStays
<1>2. ASSUME NEW how \in {"stop", "close"}, W!StopListening(how)  PROVE OneLive'
  <2>1. /\ dials' = dials /\ Inspector(inspector') /\ inspector'.closedEarly = inspector.closedEarly
        /\ inspector'.promise = inspector.promise /\ inspector'.connection = inspector.connection
    BY <1>0, <1>2 DEF Inspector, W!StopListening
  <2> QED BY <2>1, OneLiveStays
<1>3. ASSUME NEW g \in Listener, W!Asks(g) \/ W!Returns(g)  PROVE OneLive'
  BY <1>0, <1>3, OneLiveStays DEF W!Asks, W!Returns
<1>4. CASE W!DeviceSends
  BY <1>0, <1>4, OneLiveStays DEF W!DeviceSends
<1> QED BY <1>1, <1>2, <1>3, <1>4, WebListen, WebDialled, WebDrained, WebStopDone DEF W!InspectNext

LEMMA WebHolds ==
    ASSUME OneLive
    PROVE  W!OneConnection
<1> SUFFICES ASSUME ~inspector.closedEarly
             PROVE  Cardinality(W!Opened \cup {k \in DOMAIN dials : dials[k] = "dial"}) <= 1
  <2>1. \A X : W!Cardinality(X) = Cardinality(X)
    BY DEF W!Cardinality, Cardinality
  <2> QED BY <2>1 DEF W!OneConnection
<1> DEFINE live == W!Opened \cup {k \in DOMAIN dials : dials[k] = "dial"}
<1>1. live \subseteq {inspector.promise}
  BY DEF OneLive, OneOf, W!Opened
<1>2. IsFiniteSet({inspector.promise}) /\ Cardinality({inspector.promise}) = 1
  BY FS_Singleton
<1>3. Cardinality(live) <= Cardinality({inspector.promise})
  BY <1>1, <1>2, FS_Subset
<1> QED BY <1>2, <1>3

-----------------------------------------------------------------------------
(* WebInspector: what a generator has yielded, and what it keeps for its consumer, is what *)
(* came since it began; and one that was stopped, or has no handler left, does not wait.   *)
Generator == [at : {"idle", "connecting", "waiting", "yields", "ended"}, attached : BOOLEAN, queue : Seq(Nat),
              stopped : BOOLEAN, got : Seq(Nat), due : Seq(Nat), late : BOOLEAN]
Told(g, stop) ==
    /\ g.at \in {"idle", "connecting"} => ~g.attached /\ ~g.late /\ g.queue = <<>> /\ g.got = <<>> /\ g.due = <<>>
    /\ ~g.late => g.got \o g.queue = g.due
    /\ ~g.late /\ g.at = "waiting" => g.attached /\ g.queue = <<>> /\ stop = "no"
    /\ ~g.late /\ g.at = "yields" /\ (stop # "no" \/ ~g.attached) => g.stopped
YieldTyped ==
    /\ Inspector(inspector)
    /\ listeners \in [Listener -> Generator]
    /\ webinspectord \in [made : Nat, queue : Seq(Nat)]
YieldInv == YieldTyped /\ \A l \in Listener : Told(listeners[l], inspector.stop)

\* What the proof needs of sequences.
LEMMA YieldSequences ==
    ASSUME NEW s \in Seq(Nat), NEW t \in Seq(Nat), NEW m \in Nat
    PROVE  /\ Append(s, m) \in Seq(Nat)
           /\ s \o Append(t, m) = Append(s \o t, m)
           /\ t = <<>> => Append(s, m) \o t = Append(s \o t, m)
           /\ t # <<>> => Head(t) \in Nat /\ Tail(t) \in Seq(Nat) /\ Append(s, Head(t)) \o Tail(t) = s \o t
<1>1. Append(s, m) \in Seq(Nat)
  OBVIOUS
<1>2. s \o Append(t, m) = Append(s \o t, m)
  OBVIOUS
<1>3. t = <<>> => Append(s, m) \o t = Append(s \o t, m)
  BY ConcatEmptySeq
<1>4. ASSUME t # <<>>
      PROVE  Head(t) \in Nat /\ Tail(t) \in Seq(Nat) /\ Append(s, Head(t)) \o Tail(t) = s \o t
  <2>1. /\ Head(t) \in Nat /\ Tail(t) \in Seq(Nat) /\ Len(Tail(t)) = Len(t) - 1 /\ Len(t) >= 1
        /\ t[1] = Head(t) /\ \A i \in 1..Len(Tail(t)) : Tail(t)[i] = t[i + 1]
    BY <1>4, HeadTailProperties, EmptySeq
  <2> DEFINE u == Append(s, Head(t))  v == Tail(t)
  <2>2. u \in Seq(Nat) /\ v \in Seq(Nat) /\ Len(u) = Len(s) + 1 /\ u[Len(s) + 1] = t[1] /\ \A i \in 1..Len(s) : u[i] = s[i]
    BY <2>1
  <2>3. u \o v \in Seq(Nat) /\ s \o t \in Seq(Nat) /\ Len(u \o v) = Len(s \o t)
    BY <2>1, <2>2
  <2>4. ASSUME NEW i \in 1..Len(s \o t)  PROVE (u \o v)[i] = (s \o t)[i]
    <3>1. CASE i <= Len(s)
      BY <2>1, <2>2, <3>1
    <3>2. CASE i = Len(s) + 1
      BY <2>1, <2>2, <3>2
    <3>3. CASE i > Len(s) + 1
      BY <2>1, <2>2, <3>3
    <3>4. \/ i <= Len(s) \/ i = Len(s) + 1 \/ i > Len(s) + 1
      <4>1. Len(s) \in Nat /\ Len(s \o t) \in Nat
        BY <2>3, LenProperties
      <4> QED BY <4>1
    <3> HIDE DEF u, v
    <3> QED BY <3>1, <3>2, <3>3, <3>4
  <2> HIDE DEF u, v
  <2>5. u \o v = s \o t
    BY <2>3, <2>4, SeqEqual
  <2> QED BY <2>1, <2>5 DEF u, v
<1> QED BY <1>1, <1>2, <1>3, <1>4

\* At first nobody listens.
LEMMA YieldInitInv ==
    ASSUME W!InspectInit
    PROVE  YieldInv
<1>1. <<>> \in Seq(Nat) /\ <<>> \o <<>> = <<>>
  OBVIOUS
<1>2. W!NoListener \in Generator /\ Told(W!NoListener, "no")
  BY <1>1 DEF W!NoListener, Generator, Told
<1> QED BY <1>1, <1>2 DEF W!InspectInit, YieldInv, YieldTyped, Inspector

\* Generators that begin while nothing stops them have missed nothing.
LEMMA YieldBegins ==
    ASSUME YieldInv, NEW S \in SUBSET Listener, \A l \in S : listeners[l].at \in {"idle", "connecting"},
           W!Begins(S), inspector' = W!Receiving(inspector, S),
           webinspectord' \in [made : Nat, queue : Seq(Nat)]
    PROVE  YieldInv'
<1>1. Inspector(inspector') /\ inspector'.stop = inspector.stop
  BY DEF YieldInv, YieldTyped, Inspector, W!Receiving
<1>2. ASSUME NEW g \in Generator, Told(g, inspector.stop), g.at \in {"idle", "connecting"},
             NEW h, h = [g EXCEPT !.at = "waiting", !.attached = TRUE, !.late = inspector.stop # "no"]
      PROVE  h \in Generator /\ Told(h, inspector.stop)
  <2>1. (inspector.stop # "no") \in BOOLEAN
    BY SMT
  <2>2. h \in Generator
    BY <1>2, <2>1 DEF Generator
  <2> QED BY <1>2, <2>2 DEF Generator, Told
<1>3. \A l \in Listener : listeners'[l] \in Generator /\ Told(listeners'[l], inspector.stop)
  <2> SUFFICES ASSUME NEW l \in Listener
               PROVE  listeners'[l] \in Generator /\ Told(listeners'[l], inspector.stop)
    OBVIOUS
  <2>1. listeners[l] \in Generator /\ Told(listeners[l], inspector.stop)
    BY DEF YieldInv, YieldTyped
  <2>2. CASE l \in S
    <3>1. listeners'[l] = [listeners[l] EXCEPT !.at = "waiting", !.attached = TRUE, !.late = inspector.stop # "no"]
      BY <2>2 DEF W!Begins
    <3> QED BY <1>2, <2>1, <2>2, <3>1
  <2>3. CASE l \notin S
    BY <2>1, <2>3 DEF W!Begins
  <2> QED BY <2>2, <2>3
<1>4. listeners' \in [Listener -> Generator]
  BY <1>3 DEF W!Begins
<1> QED BY <1>1, <1>3, <1>4 DEF YieldInv, YieldTyped

\* Where each generator changes for itself, each for itself remains as it has to be.
LEMMA YieldEach ==
    ASSUME Inspector(inspector'), webinspectord' \in [made : Nat, queue : Seq(Nat)],
           listeners' = [l \in Listener |-> listeners'[l]],
           \A l \in Listener : listeners'[l] \in Generator /\ Told(listeners'[l], inspector'.stop)
    PROVE  YieldInv'
<1>1. listeners' \in [Listener -> Generator]
  OBVIOUS
<1> QED BY <1>1 DEF YieldInv, YieldTyped

\* connect() and who waits for it.
LEMMA YieldConnects ==
    ASSUME YieldInv, \/ \E l \in Listener : W!Listen(l)
                     \/ \E k \in 1..MaxDials : W!Dialled(k) \/ W!Drained(k)
    PROVE  YieldInv'
<1>0. /\ Inspector(inspector) /\ listeners \in [Listener -> Generator] /\ webinspectord \in [made : Nat, queue : Seq(Nat)]
      /\ \A l \in Listener : Told(listeners[l], inspector.stop)
  BY DEF YieldInv, YieldTyped
<1>1. ASSUME NEW l \in Listener, W!Listen(l)  PROVE YieldInv'
  <2>1. CASE inspector.connection # 0
    <3>1. W!Begins({l}) /\ inspector' = W!Receiving(inspector, {l}) /\ webinspectord' = webinspectord /\ listeners[l].at = "idle"
      BY <1>1, <2>1 DEF W!Listen
    <3>2. {l} \in SUBSET Listener /\ \A m \in {l} : listeners[m].at \in {"idle", "connecting"}
      BY <1>1, <3>1
    <3>3. webinspectord' \in [made : Nat, queue : Seq(Nat)]
      BY <1>0, <3>1
    <3> QED BY <3>1, <3>2, <3>3, YieldBegins
  <2>2. CASE inspector.connection = 0
    <3>0. listeners[l].at = "idle"
      BY <1>1 DEF W!Listen
    <3>1. /\ listeners' = [listeners EXCEPT ![l].at = "connecting"]
          /\ webinspectord' = webinspectord
          /\ inspector' = inspector \/ inspector' = [inspector EXCEPT !.promise = W!Next1(dials)]
      BY <1>1, <2>2 DEF W!Listen
    <3>2. Inspector(inspector') /\ inspector'.stop = inspector.stop
      BY <1>0, <3>1 DEF Inspector
    <3>3. listeners[l] \in Generator /\ Told(listeners[l], inspector.stop)
      BY <1>0
    <3>4. listeners'[l] = [listeners[l] EXCEPT !.at = "connecting"]
      BY <1>0, <3>1
    <3>5. listeners'[l] \in Generator /\ Told(listeners'[l], inspector.stop)
      BY <3>0, <3>3, <3>4 DEF Generator, Told
    <3>6. \A m \in Listener : m # l => listeners'[m] = listeners[m]
      BY <1>0, <3>1
    <3>7. listeners' \in [Listener -> Generator]
      BY <1>0, <3>1, <3>4, <3>5
    <3> QED BY <1>0, <3>1, <3>2, <3>5, <3>6, <3>7 DEF YieldInv, YieldTyped
  <2> QED BY <2>1, <2>2
<1>2. ASSUME NEW k \in 1..MaxDials, W!Dialled(k)  PROVE YieldInv'
  <2>1. webinspectord' = webinspectord
    BY <1>2 DEF W!Dialled
  <2>2. CASE inspector' = [inspector EXCEPT !.connection = k] /\ listeners' = listeners
    <3>1. Inspector(inspector') /\ inspector'.stop = inspector.stop
      BY <1>0, <2>2 DEF Inspector
    <3> QED BY <1>0, <2>1, <2>2, <3>1 DEF YieldInv, YieldTyped
  <2>3. CASE /\ inspector' = [inspector EXCEPT !.connection = 0, !.promise = 0]
             /\ listeners' = [l \in Listener |-> IF listeners[l].at = "connecting" THEN [listeners[l] EXCEPT !.at = "ended"] ELSE listeners[l]]
    <3>1. Inspector(inspector') /\ inspector'.stop = inspector.stop
      BY <1>0, <2>3 DEF Inspector
    <3>2. ASSUME NEW l \in Listener  PROVE listeners'[l] \in Generator /\ Told(listeners'[l], inspector'.stop)
      <4>1. listeners[l] \in Generator /\ Told(listeners[l], inspector.stop)
        BY <1>0
      <4>2. listeners'[l] = IF listeners[l].at = "connecting" THEN [listeners[l] EXCEPT !.at = "ended"] ELSE listeners[l]
        BY <2>3
      <4> QED BY <3>1, <4>1, <4>2 DEF Generator, Told
    <3>3. listeners' = [l \in Listener |-> listeners'[l]]
      BY <2>3
    <3> QED BY <1>0, <2>1, <3>1, <3>2, <3>3, YieldEach
  <2> QED BY <1>2, <2>2, <2>3 DEF W!Dialled
<1>3. ASSUME NEW k \in 1..MaxDials, W!Drained(k)  PROVE YieldInv'
  <2>1. CASE inspector.connection = 0
    <3>1. /\ listeners' = listeners /\ webinspectord' = webinspectord
          /\ inspector' = inspector \/ inspector' = [inspector EXCEPT !.promise = W!Next1(dials)]
      BY <1>3, <2>1 DEF W!Drained
    <3>2. Inspector(inspector') /\ inspector'.stop = inspector.stop
      BY <1>0, <3>1 DEF Inspector
    <3> QED BY <1>0, <3>1, <3>2 DEF YieldInv, YieldTyped
  <2>2. CASE inspector.connection # 0
    <3> DEFINE S == {l \in Listener : listeners[l].at = "connecting"}
    <3>1. W!Begins(S) /\ inspector' = W!Receiving(inspector, S)
      BY <1>3, <2>2 DEF W!Drained
    <3>2. webinspectord' \in [made : Nat, queue : Seq(Nat)]
      <4>1. \/ webinspectord.queue # <<>> /\ webinspectord' = [webinspectord EXCEPT !.queue = Tail(webinspectord.queue)]
            \/ webinspectord' = webinspectord
        BY <1>3, <2>2 DEF W!Drained
      <4>2. webinspectord.queue \in Seq(Nat)
        BY <1>0
      <4>3. webinspectord.queue # <<>> => Tail(webinspectord.queue) \in Seq(Nat)
        BY <4>2, YieldSequences
      <4> QED BY <1>0, <4>1, <4>3
    <3>3. S \in SUBSET Listener /\ \A l \in S : listeners[l].at \in {"idle", "connecting"}
      OBVIOUS
    <3> HIDE DEF S
    <3> QED BY <3>1, <3>2, <3>3, YieldBegins
  <2> QED BY <2>1, <2>2
<1> QED BY <1>1, <1>2, <1>3

\* What comes is handed on, or kept, and no more is asked for than there is.
LEMMA YieldMessage ==
    ASSUME NEW l \in Listener, NEW m \in Nat, listeners[l] \in Generator, Told(listeners[l], inspector.stop),
           listeners[l].attached
    PROVE  W!Handled(l, m) \in Generator /\ Told(W!Handled(l, m), inspector.stop)
<1> DEFINE g == listeners[l]  h == W!Handled(l, m)
<1>1. g.got \in Seq(Nat) /\ g.queue \in Seq(Nat) /\ g.due \in Seq(Nat)
  BY DEF Generator
<1>4. Append(g.due, m) \in Seq(Nat) /\ Append(g.got, m) \in Seq(Nat) /\ Append(g.queue, m) \in Seq(Nat)
  BY <1>1, YieldSequences
<1>2. CASE g.at = "waiting"
  <2>1. h = [g EXCEPT !.due = Append(g.due, m), !.at = "yields", !.got = Append(g.got, m), !.queue = g.queue]
    BY <1>2 DEF W!Handled, W!Awaits
  <2>2. h \in Generator /\ h.at = "yields" /\ h.attached /\ h.late = g.late /\ h.queue = g.queue
        /\ h.got = Append(g.got, m) /\ h.due = Append(g.due, m) /\ h.stopped = g.stopped
    BY <1>4, <2>1 DEF Generator
  <2>3. g.queue = <<>> => Append(g.got, m) \o g.queue = Append(g.got \o g.queue, m)
    BY <1>1, YieldSequences
  <2>4. ~g.late => h.got \o h.queue = h.due
    BY <1>2, <2>2, <2>3 DEF Told
  <2>5. ~g.late => inspector.stop = "no"
    BY <1>2 DEF Told
  <2> QED BY <2>2, <2>4, <2>5 DEF Told
<1>3. CASE g.at # "waiting"
  <2>1. h = [g EXCEPT !.due = Append(g.due, m), !.at = g.at, !.got = g.got, !.queue = Append(g.queue, m)]
    BY <1>3 DEF W!Handled, W!Awaits
  <2>2. h \in Generator /\ h.at = g.at /\ h.attached /\ g.attached /\ h.late = g.late /\ h.queue = Append(g.queue, m)
        /\ h.got = g.got /\ h.due = Append(g.due, m) /\ h.stopped = g.stopped
    BY <1>4, <2>1 DEF Generator
  <2>3. g.got \o Append(g.queue, m) = Append(g.got \o g.queue, m)
    BY <1>1, YieldSequences
  <2>4. ~g.late => h.got \o h.queue = h.due
    BY <2>2, <2>3 DEF Told
  <2> QED BY <1>3, <2>2, <2>4 DEF Told
<1> QED BY <1>2, <1>3

\* A generator that is stopped waits no more, and ends with what it is at.
LEMMA YieldStopped ==
    ASSUME NEW l \in Listener, listeners[l] \in Generator, Told(listeners[l], inspector.stop), listeners[l].attached
    PROVE  /\ W!Stopped(l) \in Generator
           /\ \A s : Told(W!Stopped(l), s)
<1> DEFINE g == listeners[l]  h == W!Stopped(l)
<1>1. h \in Generator /\ h.at = (IF g.at = "waiting" THEN "ended" ELSE g.at) /\ h.stopped /\ h.late = g.late
      /\ h.got = g.got /\ h.queue = g.queue /\ h.due = g.due
  BY DEF W!Stopped, Generator
<1> QED BY <1>1 DEF Told

\* The loop, the consumers and the device.
LEMMA YieldRuns ==
    ASSUME YieldInv, \/ \E i \in 1..MaxLoops : W!Receives(i) \/ W!NothingCame(i) \/ W!LoopFails(i)
                     \/ \E l \in Listener : W!Asks(l) \/ W!Returns(l)
                     \/ W!DeviceSends
    PROVE  YieldInv'
<1>0. /\ Inspector(inspector) /\ listeners \in [Listener -> Generator] /\ webinspectord \in [made : Nat, queue : Seq(Nat)]
      /\ \A l \in Listener : listeners[l] \in Generator /\ Told(listeners[l], inspector.stop)
  BY DEF YieldInv, YieldTyped
<1>1. ASSUME NEW i \in 1..MaxLoops, W!Receives(i)  PROVE YieldInv'
  <2>1. Inspector(inspector') /\ inspector'.stop = inspector.stop
    BY <1>0, <1>1 DEF W!Receives, W!AfterReceive, Inspector
  <2>2. webinspectord' \in [made : Nat, queue : Seq(Nat)] /\ Head(webinspectord.queue) \in Nat
    <3>1. webinspectord.queue # <<>> /\ webinspectord' = [webinspectord EXCEPT !.queue = Tail(webinspectord.queue)]
      BY <1>1 DEF W!Receives
    <3>2. webinspectord.queue \in Seq(Nat)
      BY <1>0
    <3>3. Head(webinspectord.queue) \in Nat /\ Tail(webinspectord.queue) \in Seq(Nat)
      BY <3>1, <3>2, YieldSequences
    <3> QED BY <1>0, <3>1, <3>3
  <2>3. listeners' = [l \in Listener |-> listeners'[l]]
    BY <1>1 DEF W!Receives
  <2>4. ASSUME NEW l \in Listener  PROVE listeners'[l] \in Generator /\ Told(listeners'[l], inspector'.stop)
    <3>1. listeners'[l] = IF listeners[l].attached THEN W!Handled(l, Head(webinspectord.queue)) ELSE listeners[l]
      BY <1>1 DEF W!Receives, W!Attached
    <3> QED BY <1>0, <2>1, <2>2, <3>1, YieldMessage
  <2> QED BY <2>1, <2>2, <2>3, <2>4, YieldEach
<1>2. ASSUME NEW i \in 1..MaxLoops, W!LoopFails(i)  PROVE YieldInv'
  <2>1. Inspector(inspector') /\ inspector'.stop = inspector.stop
    BY <1>0, <1>2 DEF W!LoopFails, Inspector
  <2>2. webinspectord' \in [made : Nat, queue : Seq(Nat)]
    BY <1>0, <1>2 DEF W!LoopFails
  <2>3. listeners' = [l \in Listener |-> listeners'[l]]
    BY <1>2 DEF W!LoopFails
  <2>4. ASSUME NEW l \in Listener  PROVE listeners'[l] \in Generator /\ Told(listeners'[l], inspector'.stop)
    <3>1. listeners'[l] = IF listeners[l].attached /\ inspector.receiving THEN W!Stopped(l) ELSE listeners[l]
      BY <1>2 DEF W!LoopFails, W!Attached
    <3> QED BY <1>0, <2>1, <3>1, YieldStopped
  <2> QED BY <2>1, <2>2, <2>3, <2>4, YieldEach
<1>3. ASSUME NEW i \in 1..MaxLoops, W!NothingCame(i)  PROVE YieldInv'
  <2>1. Inspector(inspector') /\ inspector'.stop = inspector.stop /\ UNCHANGED <<listeners, webinspectord>>
    BY <1>0, <1>3 DEF W!NothingCame, W!AfterReceive, Inspector
  <2> QED BY <1>0, <2>1 DEF YieldInv, YieldTyped
<1>4. CASE W!DeviceSends
  <2>1. webinspectord' \in [made : Nat, queue : Seq(Nat)] /\ UNCHANGED <<listeners, inspector>>
    <3>1. /\ webinspectord' = [webinspectord EXCEPT !.made = webinspectord.made + 1, !.queue = Append(webinspectord.queue, webinspectord.made + 1)]
          /\ UNCHANGED <<listeners, inspector>>
      BY <1>4 DEF W!DeviceSends
    <3>2. webinspectord.queue \in Seq(Nat) /\ webinspectord.made + 1 \in Nat
      BY <1>0
    <3>3. Append(webinspectord.queue, webinspectord.made + 1) \in Seq(Nat)
      BY <3>2, YieldSequences
    <3> QED BY <1>0, <3>1, <3>2, <3>3
  <2> QED BY <1>0, <2>1 DEF YieldInv, YieldTyped
<1>5. ASSUME NEW l \in Listener, NEW h, h \in Generator, Told(h, inspector.stop),
             listeners' = [listeners EXCEPT ![l] = h], UNCHANGED <<inspector, webinspectord>>
      PROVE  YieldInv'
  BY <1>0, <1>5 DEF YieldInv, YieldTyped
<1>6. ASSUME NEW l \in Listener, W!Asks(l)  PROVE YieldInv'
  <2> DEFINE g == listeners[l]
  <2>1. g \in Generator /\ Told(g, inspector.stop) /\ g.at = "yields" /\ UNCHANGED <<inspector, webinspectord>>
    BY <1>0, <1>6 DEF W!Asks
  <2>2. CASE g.stopped
    <3> DEFINE h == [g EXCEPT !.at = "ended", !.attached = FALSE]
    <3>1. listeners' = [listeners EXCEPT ![l] = h]
      BY <1>0, <1>6, <2>2 DEF W!Asks
    <3>2. h \in Generator /\ Told(h, inspector.stop)
      BY <2>1 DEF Generator, Told
    <3> QED BY <1>5, <2>1, <3>1, <3>2
  <2>3. CASE ~g.stopped /\ g.queue # <<>>
    <3> DEFINE h == [g EXCEPT !.got = Append(g.got, Head(g.queue)), !.queue = Tail(g.queue)]
    <3>1. listeners' = [listeners EXCEPT ![l] = h]
      BY <1>6, <2>3 DEF W!Asks
    <3>2. g.got \in Seq(Nat) /\ g.queue \in Seq(Nat)
      BY <2>1 DEF Generator
    <3>3. Append(g.got, Head(g.queue)) \o Tail(g.queue) = g.got \o g.queue
      BY <2>3, <3>2, YieldSequences
    <3>4. h \in Generator
      <4>1. Append(g.got, Head(g.queue)) \in Seq(Nat) /\ Tail(g.queue) \in Seq(Nat)
        BY <2>3, <3>2, YieldSequences
      <4> QED BY <2>1, <4>1 DEF Generator
    <3>5. h.got \o h.queue = g.got \o g.queue /\ h.at = "yields" /\ h.late = g.late /\ h.due = g.due
          /\ h.attached = g.attached /\ h.stopped = g.stopped
      BY <2>1, <3>3 DEF Generator
    <3>6. Told(h, inspector.stop)
      BY <2>1, <3>5 DEF Told
    <3> QED BY <1>5, <2>1, <3>1, <3>4, <3>6
  <2>4. CASE ~g.stopped /\ g.queue = <<>>
    <3> DEFINE h == [g EXCEPT !.at = "waiting"]
    <3>1. listeners' = [listeners EXCEPT ![l] = h]
      BY <1>0, <1>6, <2>4 DEF W!Asks
    <3>2. h \in Generator /\ Told(h, inspector.stop)
      BY <2>1, <2>4 DEF Generator, Told
    <3> QED BY <1>5, <2>1, <3>1, <3>2
  <2> QED BY <2>2, <2>3, <2>4
<1>7. ASSUME NEW l \in Listener, W!Returns(l)  PROVE YieldInv'
  <2> DEFINE g == listeners[l]  h == [g EXCEPT !.at = "ended", !.attached = FALSE]
  <2>1. g \in Generator /\ Told(g, inspector.stop) /\ UNCHANGED <<inspector, webinspectord>>
    BY <1>0, <1>7 DEF W!Returns
  <2>2. listeners' = [listeners EXCEPT ![l] = h]
    BY <1>0, <1>7 DEF W!Returns
  <2>3. h \in Generator /\ Told(h, inspector.stop)
    BY <2>1 DEF Generator, Told
  <2> QED BY <1>5, <2>1, <2>2, <2>3
<1> QED BY <1>1, <1>2, <1>3, <1>4, <1>6, <1>7

\* stopListeningAsync and close: what they take the handler off does not wait.
LEMMA YieldStops ==
    ASSUME YieldInv, W!StopDone \/ \E how \in {"stop", "close"} : W!StopListening(how)
    PROVE  YieldInv'
<1>0. /\ Inspector(inspector) /\ listeners \in [Listener -> Generator] /\ webinspectord \in [made : Nat, queue : Seq(Nat)]
      /\ \A l \in Listener : listeners[l] \in Generator /\ Told(listeners[l], inspector.stop)
  BY DEF YieldInv, YieldTyped
<1>1. ASSUME NEW how \in {"stop", "close"}, W!StopListening(how)  PROVE YieldInv'
  <2>1. Inspector(inspector') /\ inspector.stop = "no"
    BY <1>0, <1>1 DEF W!StopListening, Inspector
  <2>2. webinspectord' \in [made : Nat, queue : Seq(Nat)]
    BY <1>0, <1>1 DEF W!StopListening
  <2>3. listeners' = [l \in Listener |-> listeners'[l]]
    BY <1>1 DEF W!StopListening
  <2>4. ASSUME NEW l \in Listener  PROVE listeners'[l] \in Generator /\ Told(listeners'[l], inspector'.stop)
    <3>1. listeners'[l] = IF listeners[l].attached THEN W!Stopped(l) ELSE listeners[l]
      BY <1>1 DEF W!StopListening, W!Attached
    <3>2. ~listeners[l].attached => Told(listeners[l], inspector'.stop)
      BY <1>0 DEF Told
    <3> QED BY <1>0, <3>1, <3>2, YieldStopped
  <2> QED BY <2>1, <2>2, <2>3, <2>4, YieldEach
<1>2. CASE W!StopDone
  <2>1. Inspector(inspector') /\ inspector.stop # "no" /\ inspector'.stop = "no"
    BY <1>0, <1>2 DEF W!StopDone, Inspector
  <2>2. webinspectord' \in [made : Nat, queue : Seq(Nat)]
    <3> DEFINE closes == inspector.stop = "close"
    <3>1. webinspectord' = IF closes THEN [webinspectord EXCEPT !.queue = <<>>] ELSE webinspectord
      BY <1>2 DEF W!StopDone
    <3>2. <<>> \in Seq(Nat)
      OBVIOUS
    <3> QED BY <1>0, <3>1, <3>2
  <2>3. listeners' = [l \in Listener |-> [listeners[l] EXCEPT !.attached = FALSE]]
    BY <1>2 DEF W!StopDone
  <2>4. ASSUME NEW l \in Listener  PROVE listeners'[l] \in Generator /\ Told(listeners'[l], inspector'.stop)
    <3>1. listeners[l] \in Generator /\ Told(listeners[l], inspector.stop)
          /\ listeners'[l] = [listeners[l] EXCEPT !.attached = FALSE]
      BY <1>0, <2>3
    <3> QED BY <2>1, <3>1 DEF Generator, Told
  <2>5. listeners' = [l \in Listener |-> listeners'[l]]
    BY <2>3
  <2> QED BY <2>1, <2>2, <2>4, <2>5, YieldEach
<1> QED BY <1>1, <1>2

\* Every step keeps it, and a generator that is not late then has all that is due.
LEMMA YieldStep == YieldInv /\ W!InspectNext => YieldInv'
BY YieldConnects, YieldRuns, YieldStops DEF W!InspectNext

LEMMA YieldHolds == YieldInv => W!YieldsAll
BY DEF YieldInv, YieldTyped, Told, W!YieldsAll, Generator

-----------------------------------------------------------------------------
(* CrashReports: what is read is read over a connection the device has not dropped. *)

Watcher(w) == w = [job |-> w.job, at |-> w.at, wanted |-> w.wanted, report |-> w.report, raw |-> w.raw, yielded |-> w.yielded]
Diagnosis(d) == d = [archive |-> d.archive, leftover |-> d.leftover, excluded |-> d.excluded, offset |-> d.offset,
                     observing |-> d.observing, posted |-> d.posted, chosen |-> d.chosen]

Diagnosing == {"find", "observe", "notified", "settled", "pull", "done"}

\* A connection that is read was renewed; the archive is there from its name to the end.
Reading ==
    /\ Watcher(watcher) /\ Diagnosis(diagnosis)
    /\ watcher.at \in Diagnosing => watcher.job = "sysdiagnose"
    /\ diagnosis.archive = "gone" => watcher.at = "done"
    /\ watcher.at = "read" => idle = "live"
    /\ watcher.at = "pull" => idle = "live" /\ diagnosis.archive = "made" /\ diagnosis.chosen = "current"

LEMMA CrashInit ==
    ASSUME C!CrashInit
    PROVE  Reading
<1>1. Watcher(watcher) /\ watcher.at \in {"attach", "find"}
  BY DEF C!CrashInit, Watcher
<1>3. watcher.at = "find" => watcher.job = "sysdiagnose"
  BY DEF C!CrashInit
<1>2. Diagnosis(diagnosis) /\ diagnosis.archive = "none"
  BY DEF C!CrashInit, Diagnosis
<1> QED BY <1>1, <1>2, <1>3 DEF Reading, Diagnosing

\* Where the place is set and nothing else of the watcher.
LEMMA Moves ==
    ASSUME Reading, NEW p, C!Goto(p)
    PROVE  Watcher(watcher') /\ watcher'.at = p /\ watcher'.job = watcher.job
  BY DEF Reading, Watcher, C!Goto

\* Somewhere else than at an archive or a report, whatever becomes of the connection.
LEMMA Elsewhere ==
    ASSUME Reading, Watcher(watcher'), Diagnosis(diagnosis'), watcher'.at \notin {"done", "read", "pull"},
           diagnosis'.archive # "gone", watcher'.at \in Diagnosing => watcher'.job = "sysdiagnose"
    PROVE  Reading'
  BY DEF Reading

LEMMA CrashWatches ==
    ASSUME Reading, C!Attach \/ C!Starts \/ C!Announces \/ C!Takes \/ C!Reads \/ C!GivesUp \/ C!Consumes \/ C!Writes
    PROVE  Reading'
<1>0. C!Watching /\ watcher.at # "done" /\ diagnosis' = diagnosis /\ Diagnosis(diagnosis) /\ diagnosis.archive # "gone"
      /\ Watcher(watcher)
  BY DEF Reading, Diagnosing, C!Watching, C!Attach, C!Starts, C!Announces, C!Takes, C!Reads, C!GivesUp, C!Consumes, C!Writes
<1>1. CASE watcher' = watcher /\ idle' = idle
  BY <1>0, <1>1 DEF Reading
<1>2. ASSUME NEW r, NEW h, C!Yields(r, h)  PROVE Reading'
  <2>1. Watcher(watcher') /\ watcher'.at = "loop"
    BY <1>0, <1>2 DEF C!Yields, Watcher
  <2> QED BY <1>0, <2>1, Elsewhere DEF Diagnosing
<1>3. ASSUME NEW p \in {"loop", "ended"}, C!Goto(p)  PROVE Reading'
  BY <1>0, <1>3, Moves, Elsewhere DEF Diagnosing
<1>4. CASE C!Takes
  <2>1. ASSUME NEW r, watcher' = [watcher EXCEPT !.at = "read", !.report = r, !.raw = FALSE], idle' = "live"
        PROVE  Reading'
    BY <1>0, <2>1 DEF Reading, Watcher, Diagnosing
  <2> QED BY <1>1, <1>3, <1>4, <2>1 DEF C!Takes, C!Renewed
<1>5. CASE C!Reads
  <2>1. CASE watcher' = [watcher EXCEPT !.raw = TRUE]
    BY <1>0, <1>5, <2>1 DEF C!Reads, Reading, Watcher
  <2> QED BY <1>2, <1>5, <2>1 DEF C!Reads
<1>6. CASE C!GivesUp
  BY <1>2, <1>3, <1>6 DEF C!GivesUp
<1>7. CASE C!Starts \/ C!Consumes
  BY <1>3, <1>7 DEF C!Starts, C!Consumes
<1> QED BY <1>1, <1>4, <1>5, <1>6, <1>7 DEF C!Attach, C!Announces, C!Writes

LEMMA CrashDiagnoses ==
    ASSUME Reading, C!Finds \/ C!Observes \/ C!Notified \/ C!Appears \/ C!Pulls \/ C!TimesOut \/ C!Makes \/ C!Drops
    PROVE  Reading'
<1>0. Watcher(watcher) /\ Diagnosis(diagnosis)
  BY DEF Reading
<1>a. watcher.at \in Diagnosing => watcher.job = "sysdiagnose"
  BY DEF Reading
<1> USE DEF Diagnosing
<1>1. CASE C!Finds
  <2>1. watcher.at = "find" /\ diagnosis.archive # "gone"
    BY <1>1 DEF C!Finds, Reading
  <2>2. Diagnosis(diagnosis') /\ diagnosis'.archive = diagnosis.archive
    BY <1>0, <1>1 DEF C!Finds, Diagnosis
  <2>3. watcher' = watcher \/ C!Goto("observe")
    BY <1>1 DEF C!Finds
  <2> QED BY <1>0, <1>a, <2>1, <2>2, <2>3, Moves, Elsewhere
<1>2. CASE C!Observes \/ C!Notified \/ C!TimesOut
  <2>1. watcher.at \in {"find", "observe", "notified", "settled"} /\ diagnosis.archive # "gone"
    BY <1>2 DEF C!Observes, C!Notified, C!TimesOut, Reading
  <2>2. Diagnosis(diagnosis') /\ diagnosis'.archive = diagnosis.archive
    BY <1>0, <1>2 DEF C!Observes, C!Notified, C!TimesOut, C!Observing, C!ProxyClosed, Diagnosis
  <2>3. \E p \in {"notified", "settled", "failed"} : C!Goto(p)
    BY <1>2 DEF C!Observes, C!Notified, C!TimesOut
  <2> QED BY <1>0, <1>a, <2>1, <2>2, <2>3, Moves, Elsewhere
<1>3. CASE C!Appears
  <2>1. watcher.at = "settled" /\ idle = "live" /\ idle' = idle /\ diagnosis' = diagnosis /\ C!Goto("pull")
        /\ diagnosis.chosen = "current" /\ diagnosis.archive \in {"made", "gone"}
    BY <1>3 DEF C!Appears, C!ArchiveExists
  <2>2. diagnosis.archive # "gone"
    BY <2>1 DEF Reading
  <2>3. Watcher(watcher') /\ watcher'.at = "pull" /\ watcher'.job = watcher.job
    BY <2>1, Moves
  <2> QED BY <1>0, <1>a, <2>1, <2>2, <2>3 DEF Reading
<1>4. CASE C!Pulls
  <2>1. watcher.at = "pull" /\ diagnosis.archive = "made"
    BY <1>4 DEF C!Pulls, Reading
  <2>2. CASE C!Goto("failed") /\ diagnosis' = diagnosis
    BY <1>0, <1>a, <2>1, <2>2, Moves, Elsewhere
  <2>3. CASE C!Goto("done") /\ \E erase \in BOOLEAN : diagnosis' = [diagnosis EXCEPT !.archive = IF erase THEN "gone" ELSE @]
    <3>1. Diagnosis(diagnosis')
      BY <1>0, <2>3 DEF Diagnosis
    <3>2. Watcher(watcher') /\ watcher'.at = "done" /\ watcher'.job = watcher.job
      BY <2>3, Moves
    <3> QED BY <1>a, <2>1, <3>1, <3>2 DEF Reading
  <2> QED BY <1>4, <2>2, <2>3 DEF C!Pulls
<1>5. CASE C!Makes
  <2>1. watcher' = watcher /\ idle' = idle /\ diagnosis.archive \in {"none", "making", "stopped"}
    BY <1>5 DEF C!Makes
  <2>2. Diagnosis(diagnosis') /\ diagnosis'.archive # "gone"
    BY <1>0, <1>5 DEF C!Makes, Diagnosis
  <2> QED BY <1>0, <2>1, <2>2 DEF Reading
<1>6. CASE C!Drops
  BY <1>6 DEF C!Drops, Reading
<1> QED BY <1>1, <1>2, <1>3, <1>4, <1>5, <1>6

LEMMA CrashStep ==
    ASSUME Reading, C!CrashNext
    PROVE  Reading'
  BY CrashWatches, CrashDiagnoses DEF C!CrashNext

LEMMA CrashHolds ==
    ASSUME Reading
    PROVE  C!ReadsWhatIsThere
  BY DEF Reading, C!ReadsWhatIsThere

-----------------------------------------------------------------------------
(* CrashReports: the listener has what was announced last, and what came before was yielded, *)
(* was not wanted, or is gone.                                                             *)
Announcements == [made : Nat, attached : BOOLEAN, started : Nat, queue : Seq(Nat), gone : SUBSET Nat]

\* Of the announcements, p.made - Len(p.queue) were taken.
Buffered(p) == p.started + Len(p.queue) <= p.made /\ \A i \in 1..Len(p.queue) : p.queue[i] = p.made - Len(p.queue) + i
Wants(w, p, r) == r > p.started /\ C!Names(r) /\ w.wanted \in {"any", Announced[r].process}
Yielded(w, p, n) ==
    /\ p.gone \subseteq 1..n
    /\ \A i, j \in DOMAIN w.yielded : i < j => w.yielded[i] < w.yielded[j]
    /\ {w.yielded[i] : i \in DOMAIN w.yielded} = {r \in 1..n : Wants(w, p, r)} \ p.gone
Taken(w, p) ==
    /\ Watcher(w) /\ w.yielded \in Seq(Nat) /\ p \in Announcements
    /\ w.job = "watch" /\ w.at = "attach" => p.queue = <<>> /\ w.yielded = <<>> /\ p.gone = {}
    /\ w.job = "watch" /\ w.at \in {"loop", "read"} => p.attached /\ Buffered(p)
    /\ w.job = "watch" /\ w.at = "loop" => Yielded(w, p, p.made - Len(p.queue))
    /\ w.job = "watch" /\ w.at = "read" =>
          /\ w.report = p.made - Len(p.queue) /\ w.report > p.started /\ C!Names(w.report)
          /\ Yielded(w, p, w.report - 1)
ReportsInv == Taken(watcher, pending)

\* Nothing is announced at first.
LEMMA ReportsInitInv ==
    ASSUME C!CrashInit
    PROVE  ReportsInv
<1>1. /\ Watcher(watcher) /\ watcher.yielded = <<>> /\ watcher.at \in {"attach", "find"}
      /\ pending = [made |-> 0, attached |-> FALSE, started |-> 0, queue |-> <<>>, gone |-> {}]
  BY DEF C!CrashInit, Watcher
<1>2. <<>> \in Seq(Nat)
  OBVIOUS
<1>3. pending \in Announcements /\ pending.queue = <<>> /\ pending.gone = {}
  BY <1>1, <1>2 DEF Announcements
<1> QED BY <1>1, <1>2, <1>3 DEF ReportsInv, Taken

\* A watcher that is at none of the places above, or of sysdiagnose, is all right.
LEMMA ReportsElsewhere ==
    ASSUME ReportsInv, Watcher(watcher'), watcher'.yielded = watcher.yielded, watcher'.job = watcher.job, pending' \in Announcements,
           watcher.job # "watch" \/ watcher'.at \notin {"attach", "loop", "read"}
    PROVE  ReportsInv'
BY DEF ReportsInv, Taken

\* The listener and the capture.
LEMMA ReportsAnnounced ==
    ASSUME ReportsInv, C!Attach \/ C!Starts \/ C!Announces
    PROVE  ReportsInv'
<1>0. Watcher(watcher) /\ watcher.yielded \in Seq(Nat) /\ pending \in Announcements /\ watcher.job = "watch"
  BY DEF ReportsInv, Taken, C!Attach, C!Starts, C!Announces, C!Watching
<1>1. CASE C!Attach
  <2>1. watcher' = watcher /\ watcher.at = "attach" /\ pending' = [pending EXCEPT !.attached = TRUE]
    BY <1>1 DEF C!Attach, C!Attaches
  <2>2. pending' \in Announcements /\ pending'.queue = pending.queue /\ pending'.gone = pending.gone
    BY <1>0, <2>1 DEF Announcements
  <2> QED BY <1>0, <2>1, <2>2 DEF ReportsInv, Taken
<1>2. CASE C!Starts
  <2>1. /\ watcher' = [watcher EXCEPT !.at = "loop"] /\ watcher.at = "attach" /\ pending' = [pending EXCEPT !.started = pending.made]
        /\ pending.attached
    BY <1>2 DEF C!Starts, C!Goto, C!Attaches
  <2>2. /\ pending' \in Announcements /\ pending'.queue = <<>> /\ pending'.gone = {} /\ pending'.started = pending'.made
        /\ pending'.made \in Nat /\ pending'.attached
    BY <1>0, <2>1 DEF Announcements, ReportsInv, Taken
  <2>3. Watcher(watcher') /\ watcher'.at = "loop" /\ watcher'.job = "watch" /\ watcher'.yielded = <<>> /\ watcher'.yielded \in Seq(Nat)
    BY <1>0, <2>1 DEF Watcher, ReportsInv, Taken
  <2>4. Buffered(pending')
    BY <2>2 DEF Buffered
  <2>5. Len(pending'.queue) = 0 /\ DOMAIN watcher'.yielded = {}
    BY <2>2, <2>3
  <2>6. {watcher'.yielded[i] : i \in DOMAIN watcher'.yielded} = {}
    BY <2>5
  <2>7. {r \in 1..(pending'.made - Len(pending'.queue)) : Wants(watcher', pending', r)} = {}
    BY <2>2, <2>5 DEF Wants
  <2>8. Yielded(watcher', pending', pending'.made - Len(pending'.queue))
    BY <2>2, <2>5, <2>6, <2>7 DEF Yielded
  <2> QED BY <2>2, <2>3, <2>4, <2>8 DEF ReportsInv, Taken
<1>3. CASE C!Announces
  <2> DEFINE hears == pending.attached /\ watcher.at \notin {"attach", "ended"}
             m == pending.made + 1
             q == IF hears THEN Append(pending.queue, m) ELSE pending.queue
  <2>1. watcher' = watcher /\ pending' = [pending EXCEPT !.made = m, !.queue = q]
    BY <1>3 DEF C!Announces
  <2>2. pending.queue \in Seq(Nat) /\ pending.made \in Nat /\ m \in Nat /\ pending.started \in Nat
    BY <1>0 DEF Announcements
  <2>3. q \in Seq(Nat)
    BY <2>2
  <2>4. /\ pending' \in Announcements /\ pending'.made = m /\ pending'.queue = q /\ pending'.started = pending.started
        /\ pending'.gone = pending.gone /\ pending'.attached = pending.attached
    BY <1>0, <2>1, <2>2, <2>3 DEF Announcements
  <2>5. CASE watcher.at \in {"loop", "read"}
    <3>1. pending.attached /\ Buffered(pending) /\ q = Append(pending.queue, m)
      BY <1>0, <2>5 DEF ReportsInv, Taken
    <3>2. Len(q) = Len(pending.queue) + 1 /\ Len(pending.queue) \in Nat /\ q[Len(q)] = m /\ \A i \in 1..Len(pending.queue) : q[i] = pending.queue[i]
      BY <2>2, <3>1
    <3>3. m - Len(q) = pending.made - Len(pending.queue)
      BY <2>2, <3>2
    <3>4. ASSUME NEW i \in 1..Len(q)  PROVE q[i] = m - Len(q) + i
      <4>1. CASE i = Len(q)
        BY <2>2, <3>2, <4>1
      <4>2. CASE i # Len(q)
        <5>1. i \in 1..Len(pending.queue)
          BY <3>2, <4>2
        <5>2. pending.queue[i] = pending.made - Len(pending.queue) + i
          BY <3>1, <5>1 DEF Buffered
        <5> QED BY <3>2, <3>3, <5>1, <5>2
      <4> QED BY <4>1, <4>2
    <3> HIDE DEF m, q
    <3>5. pending.started + Len(q) <= m
      BY <2>2, <3>1, <3>2 DEF Buffered, m
    <3>6. Buffered(pending')
      BY <2>4, <3>4, <3>5 DEF Buffered
    <3>7. \A n : Yielded(watcher, pending, n) => Yielded(watcher, pending', n)
      BY <2>4 DEF Yielded, Wants
    <3> QED BY <1>0, <2>1, <2>4, <2>5, <3>1, <3>3, <3>6, <3>7 DEF ReportsInv, Taken
  <2>6. CASE watcher.at \notin {"loop", "read"}
    <3>1. watcher.at = "attach" => q = pending.queue
      OBVIOUS
    <3> HIDE DEF q, m
    <3> QED BY <1>0, <2>1, <2>4, <2>6, <3>1 DEF ReportsInv, Taken
  <2> QED BY <2>5, <2>6
<1> QED BY <1>1, <1>2, <1>3

\* One announcement further: it is not wanted, is gone, or is yielded.
LEMMA ReportsOn ==
    ASSUME NEW w, NEW p, NEW v, NEW q, NEW n \in Nat, p \in Announcements, w.yielded \in Seq(Nat), Yielded(w, p, n),
           v.wanted = w.wanted, q.started = p.started,
           \/ v.yielded = w.yielded /\ q.gone = p.gone /\ ~Wants(w, p, n + 1)
           \/ v.yielded = w.yielded /\ q.gone = p.gone \cup {n + 1}
           \/ v.yielded = Append(w.yielded, n + 1) /\ q.gone = p.gone /\ Wants(w, p, n + 1)
    PROVE  Yielded(v, q, n + 1)
<1> DEFINE y == w.yielded  Of(s) == {s[i] : i \in DOMAIN s}  Due(x, a, k) == {r \in 1..k : Wants(x, a, r)}
<1>1. 1..(n + 1) = 1..n \cup {n + 1} /\ n + 1 \notin 1..n
  OBVIOUS
<1>2. /\ p.gone \subseteq 1..n /\ Of(y) = Due(w, p, n) \ p.gone
      /\ \A i, j \in DOMAIN y : i < j => y[i] < y[j]
  BY DEF Yielded
<1>3. \A r : Wants(v, q, r) <=> Wants(w, p, r)
  BY DEF Wants
<1>4. Due(v, q, n + 1) = Due(w, p, n) \cup (IF Wants(w, p, n + 1) THEN {n + 1} ELSE {})
  BY <1>1, <1>3
<1>5. Due(w, p, n) \subseteq 1..n
  OBVIOUS
<1> HIDE DEF Due
<1>6. CASE v.yielded = y
  <2>1. \/ q.gone = p.gone /\ ~Wants(w, p, n + 1)
        \/ q.gone = p.gone \cup {n + 1}
    <3>1. Append(y, n + 1) # y
      <4>1. Len(Append(y, n + 1)) = Len(y) + 1 /\ Len(y) \in Nat
        OBVIOUS
      <4> QED BY <4>1
    <3> QED BY <1>6, <3>1
  <2>2. q.gone \subseteq 1..(n + 1)
    BY <1>1, <1>2, <2>1
  <2>3. Of(v.yielded) = Due(v, q, n + 1) \ q.gone
    BY <1>1, <1>2, <1>4, <1>5, <1>6, <2>1
  <2> QED BY <1>2, <1>6, <2>2, <2>3 DEF Yielded, Due
<1>7. CASE v.yielded = Append(y, n + 1) /\ q.gone = p.gone /\ Wants(w, p, n + 1)
  <2> DEFINE z == Append(y, n + 1)
  <2>1. /\ Len(y) \in Nat /\ DOMAIN y = 1..Len(y) /\ DOMAIN z = 1..(Len(y) + 1)
        /\ z[Len(y) + 1] = n + 1 /\ \A i \in DOMAIN y : z[i] = y[i]
    OBVIOUS
  <2>2. q.gone \subseteq 1..(n + 1)
    BY <1>1, <1>2, <1>7
  <2> HIDE DEF z
  <2>3. Of(z) = Of(y) \cup {n + 1}
    <3>1. ASSUME NEW a \in Of(z)  PROVE a \in Of(y) \cup {n + 1}
      <4>1. PICK i \in DOMAIN z : a = z[i]
        OBVIOUS
      <4>2. i \in DOMAIN y \/ i = Len(y) + 1
        BY <2>1
      <4> QED BY <2>1, <4>1, <4>2
    <3>2. ASSUME NEW i \in DOMAIN y  PROVE y[i] \in Of(z)
      <4>1. i \in DOMAIN z /\ z[i] = y[i]
        BY <2>1
      <4> QED BY <4>1
    <3>3. n + 1 \in Of(z)
      <4>1. Len(y) + 1 \in DOMAIN z
        BY <2>1
      <4> QED BY <2>1, <4>1
    <3> QED BY <3>1, <3>2, <3>3
  <2>4. n + 1 \notin p.gone
    BY <1>1, <1>2
  <2>5. Of(z) = Due(v, q, n + 1) \ q.gone
    <3> HIDE DEF Of
    <3> QED BY <1>2, <1>4, <1>7, <2>3, <2>4
  <2>6. ASSUME NEW i \in DOMAIN z, NEW j \in DOMAIN z, i < j  PROVE z[i] < z[j]
    <3>1. CASE j \in DOMAIN y
      <4>1. i \in DOMAIN y
        BY <2>1, <2>6, <3>1
      <4> QED BY <1>2, <2>1, <2>6, <3>1, <4>1
    <3>2. CASE j = Len(y) + 1
      <4>1. i \in DOMAIN y
        BY <2>1, <2>6, <3>2
      <4>2. y[i] \in Of(y)
        BY <4>1
      <4>3. y[i] \in 1..n
        <5> HIDE DEF Of
        <5> QED BY <1>2, <1>5, <4>2
      <4> QED BY <2>1, <3>2, <4>1, <4>3
    <3> QED BY <2>1, <3>1, <3>2
  <2> QED BY <1>7, <2>2, <2>5, <2>6 DEF Yielded, Due, z
<1> QED BY <1>6, <1>7

\* An entry is taken.
LEMMA ReportsTaken ==
    ASSUME ReportsInv, C!Takes
    PROVE  ReportsInv'
<1>0. /\ Watcher(watcher) /\ watcher.yielded \in Seq(Nat) /\ pending \in Announcements /\ watcher.job = "watch"
      /\ watcher.at = "loop" /\ pending.queue # <<>> /\ pending.attached /\ Buffered(pending)
      /\ Yielded(watcher, pending, pending.made - Len(pending.queue))
  BY DEF ReportsInv, Taken, C!Takes, C!Watching
<1> DEFINE r == Head(pending.queue)  q == Tail(pending.queue)  n == pending.made - Len(pending.queue)
<1>1. pending.queue \in Seq(Nat) /\ pending.made \in Nat /\ pending.started \in Nat /\ pending.gone \in SUBSET Nat
  BY <1>0 DEF Announcements
<1>2. /\ q \in Seq(Nat) /\ Len(q) = Len(pending.queue) - 1 /\ Len(pending.queue) \in Nat /\ Len(pending.queue) >= 1
      /\ r = pending.queue[1] /\ \A i \in 1..Len(q) : q[i] = pending.queue[i + 1]
  BY <1>0, <1>1, HeadTailProperties, LenProperties, EmptySeq
<1>3. pending' = [pending EXCEPT !.queue = q]
  BY DEF C!Takes
<1>4. /\ pending' \in Announcements /\ pending'.made = pending.made /\ pending'.queue = q /\ pending'.started = pending.started
      /\ pending'.gone = pending.gone /\ pending'.attached
  BY <1>0, <1>2, <1>3 DEF Announcements
<1> HIDE DEF q
<1>5. n \in Nat /\ r = n + 1 /\ pending.made - Len(q) = n + 1 /\ n >= pending.started
  <2>1. pending.started + Len(pending.queue) <= pending.made
    BY <1>0 DEF Buffered
  <2>2. pending.queue[1] = n + 1
    <3>1. 1 \in 1..Len(pending.queue)
      BY <1>2
    <3> QED BY <1>0, <3>1 DEF Buffered
  <2>3. Len(q) = Len(pending.queue) - 1 /\ Len(pending.queue) \in Nat /\ r = pending.queue[1]
    BY <1>2
  <2>4. r = n + 1
    BY <2>2, <2>3
  <2>5. \A k, m, a, l \in Nat : a + l <= m /\ Len(q) = l - 1 => m - l \in Nat /\ m - Len(q) = (m - l) + 1 /\ m - l >= a
    OBVIOUS
  <2>6. n \in Nat /\ pending.made - Len(q) = n + 1 /\ n >= pending.started
    BY <1>1, <2>1, <2>3, <2>5
  <2> QED BY <2>4, <2>6
<1>6. Buffered(pending')
  <2>1. pending.started + Len(q) <= pending.made
    BY <1>0, <1>1, <1>2 DEF Buffered
  <2>2. ASSUME NEW i \in 1..Len(q)  PROVE q[i] = pending.made - Len(q) + i
    <3>1. i + 1 \in 1..Len(pending.queue) /\ q[i] = pending.queue[i + 1]
      BY <1>2
    <3>2. pending.queue[i + 1] = n + (i + 1)
      BY <1>0, <3>1 DEF Buffered
    <3> HIDE DEF n
    <3> QED BY <1>5, <3>1, <3>2
  <2> QED BY <1>4, <2>1, <2>2 DEF Buffered
<1> HIDE DEF n, r
<1>7. CASE ~C!Names(r) /\ watcher' = watcher
  <2>1. ~Wants(watcher, pending, n + 1)
    BY <1>5, <1>7 DEF Wants
  <2>2. Yielded(watcher, pending', n + 1)
    BY <1>0, <1>4, <1>5, <2>1, ReportsOn DEF n
  <2>3. pending'.made - Len(pending'.queue) = n + 1
    BY <1>4, <1>5
  <2> QED BY <1>0, <1>4, <1>6, <1>7, <2>2, <2>3 DEF ReportsInv, Taken
<1>8. CASE C!Names(r) /\ watcher' = [watcher EXCEPT !.at = "read", !.report = r, !.raw = FALSE]
  <2>1. Watcher(watcher') /\ watcher'.at = "read" /\ watcher'.report = r /\ watcher'.yielded = watcher.yielded
        /\ watcher'.job = "watch" /\ watcher'.wanted = watcher.wanted
    BY <1>0, <1>8 DEF Watcher
  <2>2. r = pending'.made - Len(pending'.queue) /\ r > pending'.started /\ r - 1 = n
    BY <1>1, <1>4, <1>5
  <2>3. Yielded(watcher', pending', n)
    BY <1>0, <1>4, <2>1 DEF Yielded, Wants, n
  <2> QED BY <1>0, <1>4, <1>6, <1>8, <2>1, <2>2, <2>3 DEF ReportsInv, Taken
<1>9. CASE C!Goto("ended")
  <2>1. Watcher(watcher') /\ watcher'.at = "ended" /\ watcher'.yielded = watcher.yielded /\ watcher'.job = watcher.job
    BY <1>0, <1>9 DEF Watcher, C!Goto
  <2> QED BY <1>4, <2>1, ReportsElsewhere
<1> QED BY <1>7, <1>8, <1>9 DEF C!Takes, r

\* A report is read, or given up.
LEMMA ReportsRead ==
    ASSUME ReportsInv, C!Reads \/ C!GivesUp
    PROVE  ReportsInv'
<1> DEFINE r == watcher.report  n == r - 1
<1>0. /\ Watcher(watcher) /\ watcher.yielded \in Seq(Nat) /\ pending \in Announcements /\ watcher.job = "watch"
      /\ watcher.at = "read" /\ pending.attached /\ Buffered(pending) /\ r = pending.made - Len(pending.queue)
      /\ r > pending.started /\ C!Names(r) /\ Yielded(watcher, pending, n)
  BY DEF ReportsInv, Taken, C!Reads, C!GivesUp, C!Watching
<1>1. n \in Nat /\ r = n + 1 /\ r \in Nat
  <2>1. pending.queue \in Seq(Nat) /\ pending.made \in Nat /\ pending.started \in Nat
    BY <1>0 DEF Announcements
  <2>2. Len(pending.queue) \in Nat
    BY <2>1
  <2> QED BY <1>0, <2>1, <2>2
<1>2. ASSUME pending' \in Announcements, pending'.made = pending.made, pending'.queue = pending.queue, pending'.attached,
             pending'.started = pending.started, watcher'.at = "loop", watcher'.job = "watch", Watcher(watcher'),
             watcher'.yielded \in Seq(Nat), Yielded(watcher', pending', r)
      PROVE  ReportsInv'
  <2>1. Buffered(pending')
    BY <1>0, <1>2 DEF Buffered
  <2> QED BY <1>0, <1>2, <2>1 DEF ReportsInv, Taken
<1> HIDE DEF n, r
<1>3. ASSUME NEW y, watcher' = [watcher EXCEPT !.at = "loop", !.yielded = y]
      PROVE  watcher'.at = "loop" /\ watcher'.job = "watch" /\ Watcher(watcher') /\ watcher'.yielded = y /\ watcher'.wanted = watcher.wanted
  BY <1>0, <1>3 DEF Watcher
<1>4. Append(watcher.yielded, r) \in Seq(Nat)
  BY <1>0, <1>1
<1>5. pending.gone \in SUBSET Nat
  BY <1>0 DEF Announcements
<1>6. C!Names(r) /\ r > pending.started
  BY <1>0 DEF r
<1>7. ASSUME NEW g \in {pending.gone, pending.gone \cup {r}}, pending' = [pending EXCEPT !.gone = g]
      PROVE  /\ pending' \in Announcements /\ pending'.made = pending.made /\ pending'.queue = pending.queue /\ pending'.attached
             /\ pending'.started = pending.started /\ pending'.gone = g
  BY <1>0, <1>1, <1>5, <1>7 DEF Announcements
<1>8. CASE C!Reads
  <2>1. pending' = pending
    BY <1>8 DEF C!Reads
  <2>2. CASE C!Yields(r, TRUE) /\ watcher.wanted \in {"any", Announced[r].process}
    <3>1. watcher' = [watcher EXCEPT !.at = "loop", !.yielded = Append(watcher.yielded, r)]
      BY <2>2 DEF C!Yields
    <3>2. Wants(watcher, pending, r)
      BY <1>6, <2>2 DEF Wants
    <3>4. watcher'.yielded = Append(watcher.yielded, r) /\ watcher'.wanted = watcher.wanted
      BY <1>3, <3>1
    <3>3. Yielded(watcher', pending', r)
      BY <1>0, <1>1, <2>1, <3>2, <3>4, ReportsOn
    <3> QED BY <1>0, <1>2, <1>3, <1>4, <2>1, <3>1, <3>3
  <2>3. CASE C!Yields(r, TRUE) /\ watcher.wanted \notin {"any", Announced[r].process}
    <3>1. watcher' = [watcher EXCEPT !.at = "loop", !.yielded = watcher.yielded]
      BY <2>3 DEF C!Yields
    <3>2. ~Wants(watcher, pending, r)
      BY <2>3 DEF Wants
    <3>4. watcher'.yielded = watcher.yielded /\ watcher'.wanted = watcher.wanted
      BY <1>3, <3>1
    <3>3. Yielded(watcher', pending', r)
      BY <1>0, <1>1, <2>1, <3>2, <3>4, ReportsOn
    <3> QED BY <1>0, <1>2, <1>3, <2>1, <3>1, <3>3
  <2>4. CASE watcher' = [watcher EXCEPT !.raw = TRUE]
    <3>1. /\ Watcher(watcher') /\ watcher'.at = "read" /\ watcher'.job = "watch" /\ watcher'.yielded = watcher.yielded
          /\ watcher'.report = r /\ watcher'.wanted = watcher.wanted
      BY <1>0, <2>4 DEF Watcher, r
    <3>2. Yielded(watcher', pending', n)
      BY <1>0, <2>1, <3>1 DEF Yielded, Wants
    <3> QED BY <1>0, <2>1, <3>1, <3>2 DEF ReportsInv, Taken, n, r
  <2> QED BY <1>8, <2>2, <2>3, <2>4 DEF C!Reads, r
<1>9. CASE C!GivesUp
  <2>1. CASE watcher.raw /\ watcher.wanted = "any"
    <3>1. watcher' = [watcher EXCEPT !.at = "loop", !.yielded = Append(watcher.yielded, r)]
      BY <1>9, <2>1 DEF C!GivesUp, C!Yields, r
    <3>2. pending' = [pending EXCEPT !.gone = pending.gone]
      BY <1>9, <2>1 DEF C!GivesUp
    <3>3. Wants(watcher, pending, r)
      BY <1>6, <2>1 DEF Wants
    <3>5. /\ watcher'.at = "loop" /\ watcher'.job = "watch" /\ Watcher(watcher')
          /\ watcher'.yielded = Append(watcher.yielded, r) /\ watcher'.wanted = watcher.wanted
      BY <1>3, <3>1
    <3>6. /\ pending' \in Announcements /\ pending'.made = pending.made /\ pending'.queue = pending.queue /\ pending'.attached
          /\ pending'.started = pending.started /\ pending'.gone = pending.gone
      BY <1>7, <3>2
    <3>4. Yielded(watcher', pending', r)
      BY <1>0, <1>1, <3>3, <3>5, <3>6, ReportsOn
    <3> QED BY <1>2, <1>4, <3>4, <3>5, <3>6
  <2>2. CASE ~(watcher.raw /\ watcher.wanted = "any")
    <3>1. watcher' = [watcher EXCEPT !.at = "loop", !.yielded = watcher.yielded] \/ watcher' = [watcher EXCEPT !.at = "loop"]
      BY <1>9, <2>2 DEF C!GivesUp, C!Yields, C!Goto
    <3>2. pending' = [pending EXCEPT !.gone = pending.gone \cup {r}]
      BY <1>9, <2>2 DEF C!GivesUp, r
    <3>3. /\ watcher'.at = "loop" /\ watcher'.job = "watch" /\ Watcher(watcher') /\ watcher'.yielded = watcher.yielded
          /\ watcher'.wanted = watcher.wanted
      BY <1>0, <3>1 DEF Watcher
    <3>5. /\ pending' \in Announcements /\ pending'.made = pending.made /\ pending'.queue = pending.queue /\ pending'.attached
          /\ pending'.started = pending.started /\ pending'.gone = pending.gone \cup {r}
      BY <1>7, <3>2
    <3>4. Yielded(watcher', pending', r)
      <4>1. pending'.started = pending.started /\ pending'.gone = pending.gone \cup {n + 1}
        BY <1>1, <3>5
      <4>2. watcher'.yielded = watcher.yielded /\ watcher'.wanted = watcher.wanted
        BY <3>3
      <4>3. Yielded(watcher', pending', n + 1)
        BY <1>0, <1>1, <4>1, <4>2, ReportsOn
      <4> QED BY <1>1, <4>3
    <3>6. watcher'.yielded \in Seq(Nat)
      BY <1>0, <3>3
    <3> QED BY <1>2, <3>3, <3>4, <3>5, <3>6
  <2> QED BY <2>1, <2>2
<1> QED BY <1>8, <1>9

\* Every step keeps it; getNewSysdiagnose does not announce or yield.
LEMMA ReportsStep == ReportsInv /\ C!CrashNext => ReportsInv'
<1> SUFFICES ASSUME ReportsInv, C!CrashNext  PROVE ReportsInv'
  OBVIOUS
<1>0. Watcher(watcher) /\ pending \in Announcements
  BY DEF ReportsInv, Taken
<1>1. CASE C!Consumes
  <2>1. Watcher(watcher') /\ watcher'.at = "ended" /\ watcher'.yielded = watcher.yielded /\ watcher'.job = watcher.job
        /\ pending' = pending
    BY <1>0, <1>1 DEF C!Consumes, C!Goto, Watcher
  <2> QED BY <1>0, <2>1, ReportsElsewhere
<1>2. CASE C!Writes \/ C!Makes \/ C!Drops
  BY <1>2 DEF C!Writes, C!Makes, C!Drops, ReportsInv
<1>3. CASE C!Finds \/ C!Observes \/ C!Notified \/ C!Appears \/ C!Pulls \/ C!TimesOut
  <2>1. pending' = pending /\ (watcher' = watcher \/ \E p \in {"observe", "notified", "settled", "pull", "done", "failed"} : C!Goto(p))
    BY <1>3 DEF C!Finds, C!Observes, C!Notified, C!Appears, C!Pulls, C!TimesOut
  <2>2. ASSUME NEW p \in {"observe", "notified", "settled", "pull", "done", "failed"}, C!Goto(p)
        PROVE  ReportsInv'
    <3>1. Watcher(watcher') /\ watcher'.at = p /\ watcher'.yielded = watcher.yielded /\ watcher'.job = watcher.job
      BY <1>0, <2>2 DEF C!Goto, Watcher
    <3> QED BY <1>0, <2>1, <3>1, ReportsElsewhere
  <2>3. CASE watcher' = watcher
    BY <2>1, <2>3 DEF ReportsInv
  <2> QED BY <2>1, <2>2, <2>3
<1> QED BY <1>1, <1>2, <1>3, ReportsAnnounced, ReportsTaken, ReportsRead DEF C!CrashNext

\* At the next entry all those before were dealt with.
LEMMA ReportsHold == ReportsInv => C!ReportsExact
<1> SUFFICES ASSUME ReportsInv, watcher.job = "watch", watcher.at = "loop"
             PROVE  /\ \A i, j \in DOMAIN watcher.yielded : i < j => watcher.yielded[i] < watcher.yielded[j]
                    /\ {watcher.yielded[i] : i \in DOMAIN watcher.yielded} = C!Due(C!Reached) \ pending.gone
  BY DEF C!ReportsExact, C!Watching
<1> DEFINE n == pending.made - Len(pending.queue)
<1>1. pending \in Announcements /\ Buffered(pending) /\ Yielded(watcher, pending, n)
  BY DEF ReportsInv, Taken
<1>2. C!Reached = n
  <2>1. pending.queue \in Seq(Nat) /\ pending.made \in Nat
    BY <1>1 DEF Announcements
  <2>2. CASE pending.queue = <<>>
    BY <2>1, <2>2 DEF C!Reached
  <2>3. CASE pending.queue # <<>>
    <3>1. Head(pending.queue) = pending.queue[1] /\ Len(pending.queue) >= 1 /\ Len(pending.queue) \in Nat
      BY <2>1, <2>3, HeadTailProperties, LenProperties, EmptySeq
    <3>2. pending.queue[1] = n + 1
      BY <1>1, <3>1 DEF Buffered
    <3>3. Head(pending.queue) - 1 = n
      BY <2>1, <3>1, <3>2
    <3> QED BY <2>3, <3>3 DEF C!Reached
  <2> QED BY <2>2, <2>3
<1>3. C!Due(n) = {r \in 1..n : Wants(watcher, pending, r)}
  BY DEF C!Due, Wants
<1> QED BY <1>1, <1>2, <1>3 DEF Yielded

-----------------------------------------------------------------------------
(* Mounter: the answer that is read is of the request that was written last. *)

Done == {"idle", "ok", "failed"}
Command == {"lookup", "manifest", "ids", "nonce", "bytes", "unmount"}
Word == Command \cup {"image", "mount", "greeting", "images", "none", "error", "ack", "complete", "already"}
Mtr == [call : {"none", "mount", "unmount", "lookup"}, at : Done \cup Command \cup {"image", "mount"},
        fresh : BOOLEAN, uploaded : BOOLEAN, calls : Nat, timeouts : Nat]
PlistSocket == [socket : {"none", "open", "destroyed"}, sent : Seq(Word), unread : Seq(Word)]
Mtd == [mounted : BOOLEAN, personal : BOOLEAN, staged : BOOLEAN, receiving : BOOLEAN, astray : BOOLEAN]

\* The acknowledgement of ReceiveBytes is the last answer until an image comes, and there is
\* at most one image under way: the first of what was sent, or one that the device asked for.
Piped(p, d) ==
    /\ \A i \in 1..Len(p.unread) : p.unread[i] = "ack" =>
         i = Len(p.unread) /\ d.receiving /\ \A j \in 1..Len(p.sent) : p.sent[j] # "image"
    /\ \A i \in 1..Len(p.sent) : p.sent[i] = "image" => i = 1 \/ d.receiving
    /\ \A i, j \in 1..Len(p.sent) : p.sent[i] = "image" /\ p.sent[j] = "image" => i = j

\* A connection that is new begins with its greeting, until that was read.
Greets(m, p) == m.at \notin Done /\ m.fresh => Len(p.unread) >= 1 /\ p.unread[1] = "greeting"

\* While the answer to an image is awaited nothing else is under way but what will be a part of it.
Uploads(m, p, d) ==
    m.at = "image" /\ ~m.fresh =>
        \/ Len(p.unread) = 0 /\ (Len(p.sent) > 0 => d.receiving /\ p.sent[Len(p.sent)] = "image")
        \/ Len(p.sent) = 0 /\ Len(p.unread) = 1 /\ p.unread[1] = "complete"

\* While the answer to MountImage is awaited nothing else is under way, after the greeting.
Awaited(p, d) ==
    \/ Len(p.sent) = 1 /\ p.sent[1] = "mount" /\ Len(p.unread) = 0
    \/ Len(p.sent) = 0 /\ Len(p.unread) = 0
    \/ Len(p.sent) = 0 /\ Len(p.unread) = 1 /\ (p.unread[1] \in {"complete", "already"} => d.mounted)
AwaitedNext(p, d) ==
    \/ Len(p.sent) = 1 /\ p.sent[1] = "mount" /\ Len(p.unread) = 1
    \/ Len(p.sent) = 0 /\ Len(p.unread) = 1
    \/ Len(p.sent) = 0 /\ Len(p.unread) = 2 /\ (p.unread[2] \in {"complete", "already"} => d.mounted)
Mounts(m, p, d) ==
    /\ m.uploaded => m.at \in {"image", "mount", "ok", "failed"}
    /\ m.at = "ok" /\ m.uploaded => d.mounted /\ Len(p.sent) = 0
    /\ m.at = "mount" /\ m.fresh => AwaitedNext(p, d)
    /\ m.at = "mount" /\ ~m.fresh => Awaited(p, d)

MtTyped == mounter \in Mtr /\ plists \in PlistSocket /\ mounterd \in Mtd
MtInv == MtTyped /\ Piped(plists, mounterd) /\ Greets(mounter, plists) /\ Uploads(mounter, plists, mounterd)
         /\ Mounts(mounter, plists, mounterd)

LEMMA MtInitInv ==
    ASSUME I!MounterInit
    PROVE  MtInv
<1>1. MtTyped
  <2>1. mounter \in Mtr
    BY DEF I!MounterInit, Mtr, Done
  <2>2. plists \in PlistSocket
    BY DEF I!MounterInit, PlistSocket
  <2>3. mounterd \in Mtd
    BY DEF I!MounterInit, Mtd
  <2> QED BY <2>1, <2>2, <2>3 DEF MtTyped
<1>2. Piped(plists, mounterd)
  BY DEF I!MounterInit, Piped
<1>3. Greets(mounter, plists) /\ Uploads(mounter, plists, mounterd) /\ Mounts(mounter, plists, mounterd)
  BY DEF I!MounterInit, Greets, Uploads, Mounts, Done
<1> QED BY <1>1, <1>2, <1>3 DEF MtInv

\* A call that has failed, or one that ends without an image, waits for nothing.
LEMMA MtEnded ==
    ASSUME mounter' \in Mtr, plists' \in PlistSocket, mounterd' \in Mtd, Piped(plists', mounterd'),
           mounter'.at = "failed" \/ (mounter'.at \in Done /\ ~mounter'.uploaded)
    PROVE  MtInv'
BY DEF MtInv, MtTyped, Greets, Uploads, Mounts, Done

\* A request that is neither an image nor MountImage.
LEMMA MtRequests ==
    ASSUME NEW m \in Mtr, NEW cmd \in Command, NEW rest \in PlistSocket, rest.socket = plists.socket, mounterd \in Mtd,
           Piped(rest, mounterd), ~m.uploaded, I!Requests(m, cmd, rest)
    PROVE  MtInv'
<1>1. mounter' = [m EXCEPT !.at = cmd, !.fresh = I!IsNew]
  BY DEF I!Requests
<1>2. I!IsNew \in BOOLEAN
  BY DEF I!IsNew
<1>3. mounter' \in Mtr /\ mounter'.at = cmd /\ mounter'.fresh = I!IsNew /\ ~mounter'.uploaded
  BY <1>1, <1>2 DEF Mtr
<1>4. cmd # "image" /\ cmd # "mount" /\ cmd \notin Done /\ cmd \in Word
  <2>1. cmd # "image" /\ cmd # "mount" /\ cmd \notin Done
    BY DEF Command, Done
  <2> QED BY <2>1 DEF Word
<1>5. CASE I!IsNew
  <2>1. plists' = [socket |-> "open", sent |-> <<cmd>>, unread |-> <<"greeting">>]
        /\ mounterd' = [mounterd EXCEPT !.receiving = FALSE, !.astray = FALSE]
    BY <1>5 DEF I!Requests, I!Connected
  <2>2. plists' \in PlistSocket
    <3>1. <<cmd>> \in Seq(Word) /\ <<"greeting">> \in Seq(Word)
      BY <1>4 DEF Word
    <3> QED BY <2>1, <3>1 DEF PlistSocket
  <2>3. mounterd' \in Mtd
    BY <2>1 DEF Mtd
  <2>4. /\ Len(plists'.sent) = 1 /\ plists'.sent[1] = cmd
        /\ Len(plists'.unread) = 1 /\ plists'.unread[1] = "greeting"
    BY <2>1
  <2>5. \A i \in 1..1 : i = 1
    OBVIOUS
  <2>6. Piped(plists', mounterd')
    BY <1>4, <2>4, <2>5 DEF Piped
  <2>7. Greets(mounter', plists') /\ Uploads(mounter', plists', mounterd') /\ Mounts(mounter', plists', mounterd')
    BY <1>3, <1>4, <2>4 DEF Greets, Uploads, Mounts, Done
  <2> QED BY <1>3, <2>2, <2>3, <2>6, <2>7 DEF MtInv, MtTyped
<1>6. CASE ~I!IsNew
  <2> DEFINE sent == Append(rest.sent, cmd)
  <2>1. plists' = [rest EXCEPT !.sent = sent] /\ mounterd' = mounterd
    BY <1>6 DEF I!Requests, I!Connected
  <2>2. rest.sent \in Seq(Word)
    BY DEF PlistSocket
  <2>3. sent \in Seq(Word) /\ Len(sent) = Len(rest.sent) + 1
        /\ \A i \in 1..Len(sent) : (i \in 1..Len(rest.sent) /\ sent[i] = rest.sent[i]) \/ sent[i] = cmd
    BY <1>4, <2>2
  <2> HIDE DEF sent
  <2>4. plists' \in PlistSocket /\ plists'.sent = sent /\ plists'.unread = rest.unread
    BY <2>1, <2>3 DEF PlistSocket
  <2>5. Piped(plists', mounterd')
    BY <1>4, <2>1, <2>3, <2>4 DEF Piped
  <2>6. Greets(mounter', plists') /\ Uploads(mounter', plists', mounterd') /\ Mounts(mounter', plists', mounterd')
    BY <1>3, <1>4, <1>6 DEF Greets, Uploads, Mounts, Done
  <2> QED BY <1>3, <2>1, <2>4, <2>5, <2>6 DEF MtInv, MtTyped
<1> QED BY <1>5, <1>6

\* Calls, the end of the connection, and waits that are given up.
LEMMA MtCalls ==
    ASSUME MtInv, (\E c \in {"mount", "unmount", "lookup"} : I!Calls(c)) \/ I!CleansUp \/ I!Lost
    PROVE  MtInv'
<1>1. mounter \in Mtr /\ plists \in PlistSocket /\ mounterd \in Mtd /\ Piped(plists, mounterd)
      /\ Greets(mounter, plists) /\ Uploads(mounter, plists, mounterd) /\ Mounts(mounter, plists, mounterd)
  BY DEF MtInv, MtTyped
<1>2. ASSUME NEW c \in {"mount", "unmount", "lookup"}, I!Calls(c)  PROVE MtInv'
  <2> DEFINE m == [mounter EXCEPT !.call = c, !.calls = @ + 1, !.uploaded = FALSE]
             cmd == IF c = "unmount" THEN "unmount" ELSE "lookup"
  <2>1. m \in Mtr /\ ~m.uploaded
    <3> DEFINE n == mounter.calls + 1
    <3>1. n \in Nat /\ m = [mounter EXCEPT !.call = c, !.calls = n, !.uploaded = FALSE]
      BY <1>1 DEF Mtr
    <3> HIDE DEF n, m
    <3> QED BY <1>1, <3>1 DEF Mtr
  <2>2. cmd \in Command
    BY DEF Command
  <2>3. I!Requests(m, cmd, plists)
    BY <1>2 DEF I!Calls
  <2> HIDE DEF m, cmd
  <2> QED BY <1>1, <2>1, <2>2, <2>3, MtRequests
<1>3. CASE I!CleansUp
  <2>1. /\ mounter.at \in Done /\ mounter' = mounter /\ mounterd' = mounterd
        /\ plists' = [socket |-> "none", sent |-> <<>>, unread |-> <<>>]
    BY <1>3 DEF I!CleansUp, Done
  <2>2. plists' \in PlistSocket /\ Len(plists'.sent) = 0 /\ Len(plists'.unread) = 0
    BY <2>1 DEF PlistSocket
  <2>3. Piped(plists', mounterd')
    BY <2>2 DEF Piped
  <2>4. Greets(mounter', plists') /\ Uploads(mounter', plists', mounterd') /\ Mounts(mounter', plists', mounterd')
    BY <1>1, <2>1, <2>2 DEF Greets, Uploads, Mounts, Done
  <2> QED BY <1>1, <2>1, <2>2, <2>3, <2>4 DEF MtInv, MtTyped
<1>4. CASE I!Lost
  <2>1. mounter' = mounter /\ mounterd' = mounterd /\ plists' = [plists EXCEPT !.socket = "destroyed", !.sent = <<>>]
    BY <1>4 DEF I!Lost
  <2>2. plists' \in PlistSocket /\ Len(plists'.sent) = 0 /\ plists'.unread = plists.unread
    <3> DEFINE none == <<>>
    <3>1. none \in Seq(Word) /\ Len(none) = 0 /\ plists' = [plists EXCEPT !.socket = "destroyed", !.sent = none]
      BY <2>1
    <3> HIDE DEF none
    <3> QED BY <1>1, <3>1 DEF PlistSocket
  <2>3. Piped(plists', mounterd')
    BY <1>1, <2>1, <2>2 DEF Piped
  <2>4. Greets(mounter', plists') /\ Uploads(mounter', plists', mounterd')
    BY <1>1, <2>1, <2>2 DEF Greets, Uploads
  <2>5. Mounts(mounter', plists', mounterd')
    BY <1>1, <2>1, <2>2 DEF Mounts, Awaited, AwaitedNext
  <2> QED BY <1>1, <2>1, <2>2, <2>3, <2>4, <2>5 DEF MtInv, MtTyped
<1> QED BY <1>2, <1>3, <1>4

LEMMA MtGivesUp ==
    ASSUME MtInv, I!GivesUp
    PROVE  MtInv'
<1> DEFINE n == mounter.timeouts + 1
           m == [mounter EXCEPT !.timeouts = n]
<1>1. mounter \in Mtr /\ plists \in PlistSocket /\ mounterd \in Mtd /\ Piped(plists, mounterd)
      /\ Mounts(mounter, plists, mounterd) /\ mounter.at \notin Done
  BY DEF MtInv, MtTyped, I!GivesUp, Done
<1>2. n \in Nat
  BY <1>1 DEF Mtr
<1>3. m \in Mtr /\ m.call = mounter.call /\ m.uploaded = mounter.uploaded
  <2> HIDE DEF n
  <2> QED BY <1>1, <1>2 DEF Mtr
<1>4. \/ mounter.at = "lookup" /\ mounter.call = "mount" /\ I!AfterLookup(m, "none", plists)
      \/ mounter.at = "manifest" /\ I!AfterManifest(m, "error", plists)
      \/ I!Fails(m, plists)
  BY DEF I!GivesUp
<1> HIDE DEF m
<1>5. ASSUME I!Fails(m, plists)  PROVE MtInv'
  <2>1. mounter' = [m EXCEPT !.at = "failed"] /\ plists' = plists /\ mounterd' = mounterd
    BY <1>5 DEF I!Fails, I!Ends
  <2>2. mounter' \in Mtr /\ mounter'.at = "failed"
    BY <1>3, <2>1 DEF Mtr, Done
  <2> QED BY <1>1, <2>1, <2>2, MtEnded
<1>6. ASSUME mounter.at \in {"lookup", "manifest"}, NEW cmd \in {"manifest", "ids"}, I!Requests(m, cmd, plists)  PROVE MtInv'
  <2>1. ~m.uploaded /\ cmd \in Command
    BY <1>1, <1>3, <1>6 DEF Mounts, Command
  <2> QED BY <1>1, <1>3, <1>6, <2>1, MtRequests
<1>7. CASE mounter.at = "lookup" /\ mounter.call = "mount" /\ I!AfterLookup(m, "none", plists)
  <2>1. I!Requests(m, "manifest", plists) \/ I!Fails(m, plists)
    BY <1>3, <1>7 DEF I!AfterLookup, I!IsMounted
  <2> QED BY <1>5, <1>6, <1>7, <2>1
<1>8. CASE mounter.at = "manifest" /\ I!AfterManifest(m, "error", plists)
  BY <1>6, <1>8 DEF I!AfterManifest, I!HasManifest
<1> QED BY <1>4, <1>5, <1>7, <1>8

LEMMA MtReceives ==
    ASSUME MtInv, I!Receives
    PROVE  MtInv'
<1> DEFINE x == Head(plists.unread)
           t == Tail(plists.unread)
           rest == [plists EXCEPT !.unread = t]
<1>1. mounter \in Mtr /\ plists \in PlistSocket /\ mounterd \in Mtd /\ Piped(plists, mounterd)
      /\ Greets(mounter, plists) /\ Uploads(mounter, plists, mounterd) /\ Mounts(mounter, plists, mounterd)
  BY DEF MtInv, MtTyped
<1>2. plists.unread \in Seq(Word) /\ plists.unread # <<>> /\ plists.sent \in Seq(Word)
  BY <1>1 DEF I!Receives, PlistSocket
<1>3. /\ x = plists.unread[1] /\ t \in Seq(Word) /\ Len(plists.unread) \in Nat /\ Len(plists.unread) >= 1
      /\ Len(t) = Len(plists.unread) - 1 /\ 1 \in 1..Len(plists.unread)
      /\ \A i \in 1..Len(t) : i + 1 \in 1..Len(plists.unread) /\ t[i] = plists.unread[i + 1]
  BY <1>2
<1>4. IF I!Greeted THEN mounter' = [mounter EXCEPT !.fresh = FALSE] /\ plists' = rest /\ UNCHANGED mounterd
      ELSE I!Handles(x, rest)
  BY DEF I!Receives
<1>5. rest \in PlistSocket /\ rest.unread = t /\ rest.sent = plists.sent /\ rest.socket = plists.socket
  <2> HIDE DEF t
  <2> QED BY <1>1, <1>3 DEF PlistSocket
<1>6. I!Greeted <=> mounter.fresh /\ mounter.at # "image" /\ x = "greeting"
  BY DEF I!Greeted
<1> HIDE DEF x, t, rest
<1>7. Piped(rest, mounterd)
  <2>1. \A i \in 1..Len(t) : i + 1 = Len(plists.unread) => i = Len(t)
    BY <1>3
  <2> QED BY <1>1, <1>3, <1>5, <2>1 DEF Piped
<1>8. CASE I!Greeted
  <2>1. mounter' = [mounter EXCEPT !.fresh = FALSE] /\ plists' = rest /\ mounterd' = mounterd
    BY <1>4, <1>8
  <2>2. mounter' \in Mtr /\ mounter'.at = mounter.at /\ mounter'.uploaded = mounter.uploaded /\ ~mounter'.fresh
    BY <1>1, <2>1 DEF Mtr
  <2>3. Mounts(mounter', plists', mounterd')
    <3>1. CASE mounter.at = "mount"
      <4>1. AwaitedNext(plists, mounterd)
        BY <1>1, <1>6, <1>8, <3>1 DEF Mounts
      <4>2. Len(t) = 1 => t[1] = plists.unread[2]
        <5>1. Len(t) = 1 => 1 \in 1..Len(t)
          OBVIOUS
        <5>2. 1 \in 1..Len(t) => t[1] = plists.unread[1 + 1]
          BY <1>3
        <5> QED BY <5>1, <5>2
      <4>3. Len(t) = Len(plists.unread) - 1
        BY <1>3
      <4>4. Awaited(rest, mounterd)
        BY <1>5, <4>1, <4>2, <4>3 DEF Awaited, AwaitedNext
      <4> QED BY <1>1, <1>5, <2>1, <2>2, <3>1, <4>4 DEF Mounts
    <3>2. CASE mounter.at # "mount"
      BY <1>1, <1>5, <2>1, <2>2, <3>2 DEF Mounts
    <3> QED BY <3>1, <3>2
  <2>4. Greets(mounter', plists') /\ Uploads(mounter', plists', mounterd')
    BY <1>6, <1>8, <2>2 DEF Greets, Uploads
  <2> QED BY <1>1, <1>5, <1>7, <2>1, <2>2, <2>3, <2>4 DEF MtInv, MtTyped
<1>9. CASE I!Handles(x, rest) /\ ~I!Greeted
  <2>1. ASSUME NEW at \in {"ok", "failed"}, at = "failed" \/ ~mounter.uploaded, I!Ends(mounter, at), plists' = rest,
               mounterd' = mounterd
        PROVE  MtInv'
    <3>1. mounter' = [mounter EXCEPT !.at = at]
      BY <2>1 DEF I!Ends
    <3>2. mounter' \in Mtr /\ mounter'.at = at /\ mounter'.uploaded = mounter.uploaded
      BY <1>1, <3>1 DEF Mtr, Done
    <3> QED BY <1>1, <1>5, <1>7, <2>1, <3>2, MtEnded DEF Done
  <2>2. ASSUME I!Fails(mounter, rest)  PROVE MtInv'
    BY <2>1, <2>2 DEF I!Fails
  <2>3. ASSUME NEW cmd \in Command, I!Requests(mounter, cmd, rest), ~mounter.uploaded  PROVE MtInv'
    BY <1>1, <1>5, <1>7, <2>3, MtRequests
  <2>4. mounter.at \in {"lookup", "manifest", "ids", "nonce", "bytes", "unmount"} => ~mounter.uploaded
    BY <1>1 DEF Mounts
  <2>5. "manifest" \in Command /\ "ids" \in Command /\ "nonce" \in Command /\ "bytes" \in Command
    BY DEF Command
  <2>6. CASE mounter.at = "lookup" /\ I!AfterLookup(mounter, x, rest)
    BY <2>1, <2>2, <2>3, <2>4, <2>5, <2>6 DEF I!AfterLookup
  <2>7. CASE mounter.at = "manifest" /\ I!AfterManifest(mounter, x, rest)
    BY <2>3, <2>4, <2>5, <2>7 DEF I!AfterManifest
  <2>8. CASE mounter.at = "ids" /\ I!AfterIds(x, rest)
    BY <2>2, <2>3, <2>4, <2>5, <2>8 DEF I!AfterIds
  <2>9. CASE mounter.at = "nonce" /\ I!AfterNonce(x, rest)
    BY <2>2, <2>3, <2>4, <2>5, <2>9 DEF I!AfterNonce
  <2>10. CASE mounter.at = "unmount" /\ I!Finishes(I!Unmounts(x), rest)
    BY <2>1, <2>4, <2>10 DEF I!Finishes
  <2>11. CASE mounter.at = "mount" /\ I!Finishes(I!MountsImage(x), rest)
    <3>1. CASE I!MountsImage(x)
      <4>1. x \in {"complete", "already"}
        BY <3>1 DEF I!MountsImage, I!Completed
      <4>2. ~mounter.fresh
        BY <1>1, <1>3, <2>11, <4>1 DEF Greets, Done
      <4>3. Len(plists.sent) = 0 /\ mounterd.mounted
        BY <1>1, <1>3, <2>11, <4>1, <4>2 DEF Mounts, Awaited
      <4>4. mounter' = [mounter EXCEPT !.at = "ok"] /\ plists' = rest /\ mounterd' = mounterd
        BY <2>11, <3>1 DEF I!Finishes, I!Ends
      <4>5. mounter' \in Mtr /\ mounter'.at = "ok"
        BY <1>1, <4>4 DEF Mtr, Done
      <4>6. Greets(mounter', plists') /\ Uploads(mounter', plists', mounterd') /\ Mounts(mounter', plists', mounterd')
        BY <1>5, <4>3, <4>4, <4>5 DEF Greets, Uploads, Mounts, Done
      <4> QED BY <1>1, <1>5, <1>7, <4>4, <4>5, <4>6 DEF MtInv, MtTyped
    <3>2. CASE ~I!MountsImage(x)
      BY <2>1, <2>11, <3>2 DEF I!Finishes
    <3> QED BY <3>1, <3>2
  <2>12. I!IsNew \in BOOLEAN
    BY DEF I!IsNew
  <2>13. CASE mounter.at = "bytes" /\ I!AfterBytes(x, rest)
    <3>1. CASE I!Acknowledged(x)
      <4>1. x = "ack" /\ I!Requests([mounter EXCEPT !.uploaded = TRUE], "image", rest)
        BY <2>13, <3>1 DEF I!AfterBytes, I!Acknowledged, I!WritesImage
      <4>2. Len(t) = 0 /\ mounterd.receiving /\ \A i \in 1..Len(plists.sent) : plists.sent[i] # "image"
        <5>1. 1 = Len(plists.unread) /\ mounterd.receiving /\ \A i \in 1..Len(plists.sent) : plists.sent[i] # "image"
          BY <1>1, <1>3, <4>1 DEF Piped
        <5> QED BY <1>3, <5>1
      <4>3. mounter' = [[mounter EXCEPT !.uploaded = TRUE] EXCEPT !.at = "image", !.fresh = I!IsNew]
        BY <4>1 DEF I!Requests
      <4>4. mounter' \in Mtr /\ mounter'.at = "image" /\ mounter'.fresh = I!IsNew
        BY <1>1, <2>12, <4>3 DEF Mtr, Done
      <4>5. Mounts(mounter', plists', mounterd')
        BY <4>4 DEF Mounts
      <4>6. CASE I!IsNew
        <5>1. plists' = [socket |-> "open", sent |-> <<"image">>, unread |-> <<"greeting">>]
              /\ mounterd' = [mounterd EXCEPT !.receiving = FALSE, !.astray = FALSE]
          BY <4>1, <4>6 DEF I!Requests, I!Connected
        <5>2. <<"image">> \in Seq(Word) /\ <<"greeting">> \in Seq(Word)
          BY DEF Word
        <5>3. plists' \in PlistSocket /\ Len(plists'.sent) = 1 /\ Len(plists'.unread) = 1 /\ plists'.unread[1] = "greeting"
          BY <5>1, <5>2 DEF PlistSocket
        <5>4. mounterd' \in Mtd
          BY <1>1, <5>1 DEF Mtd
        <5>5. \A i \in 1..1 : i = 1
          OBVIOUS
        <5>6. Piped(plists', mounterd')
          BY <5>3, <5>5 DEF Piped
        <5>7. Greets(mounter', plists') /\ Uploads(mounter', plists', mounterd')
          BY <4>4, <4>6, <5>3 DEF Greets, Uploads
        <5> QED BY <4>4, <4>5, <5>3, <5>4, <5>6, <5>7 DEF MtInv, MtTyped
      <4>7. CASE ~I!IsNew
        <5> DEFINE sent == Append(rest.sent, "image")
        <5>1. plists' = [rest EXCEPT !.sent = sent] /\ mounterd' = mounterd
          BY <4>1, <4>7 DEF I!Requests, I!Connected
        <5>2. "image" \in Word
          BY DEF Word
        <5>3. sent \in Seq(Word) /\ Len(sent) = Len(plists.sent) + 1 /\ sent[Len(sent)] = "image" /\ Len(plists.sent) \in Nat
              /\ \A i \in 1..Len(sent) : i = Len(sent) \/ (i \in 1..Len(plists.sent) /\ sent[i] = plists.sent[i])
          BY <1>2, <1>5, <5>2
        <5> HIDE DEF sent
        <5>4. plists' \in PlistSocket /\ plists'.sent = sent /\ plists'.unread = t
          BY <1>5, <5>1, <5>3 DEF PlistSocket
        <5>5. \A i \in 1..Len(sent) : sent[i] = "image" => i = Len(sent)
          BY <4>2, <5>3
        <5>6. Piped(plists', mounterd')
          BY <4>2, <5>1, <5>4, <5>5 DEF Piped
        <5>7. Greets(mounter', plists') /\ Uploads(mounter', plists', mounterd')
          BY <4>2, <4>4, <4>7, <5>1, <5>3, <5>4 DEF Greets, Uploads
        <5> QED BY <1>1, <4>4, <4>5, <5>1, <5>4, <5>6, <5>7 DEF MtInv, MtTyped
      <4> QED BY <4>6, <4>7
    <3>2. CASE ~I!Acknowledged(x)
      BY <2>2, <2>13, <3>2 DEF I!AfterBytes
    <3> QED BY <3>1, <3>2
  <2>14. CASE mounter.at = "image" /\ I!AfterUpload(x, rest)
    <3>1. CASE I!Completed(x)
      <4>1. x = "complete" /\ I!Requests(mounter, "mount", rest)
        BY <2>14, <3>1 DEF I!AfterUpload, I!Completed
      <4>2. ~mounter.fresh
        BY <1>1, <1>3, <2>14, <4>1 DEF Greets, Done
      <4>3. Len(plists.sent) = 0 /\ Len(plists.unread) = 1
        BY <1>1, <1>3, <2>14, <4>2 DEF Uploads
      <4>4. mounter' = [mounter EXCEPT !.at = "mount", !.fresh = I!IsNew]
        BY <4>1 DEF I!Requests
      <4>5. mounter' \in Mtr /\ mounter'.at = "mount" /\ mounter'.fresh = I!IsNew
        BY <1>1, <2>12, <4>4 DEF Mtr, Done
      <4>6. CASE I!IsNew
        <5>1. plists' = [socket |-> "open", sent |-> <<"mount">>, unread |-> <<"greeting">>]
              /\ mounterd' = [mounterd EXCEPT !.receiving = FALSE, !.astray = FALSE]
          BY <4>1, <4>6 DEF I!Requests, I!Connected
        <5>2. <<"mount">> \in Seq(Word) /\ <<"greeting">> \in Seq(Word)
          BY DEF Word
        <5>3. plists' \in PlistSocket /\ Len(plists'.sent) = 1 /\ Len(plists'.unread) = 1 /\ plists'.unread[1] = "greeting"
              /\ plists'.sent[1] = "mount"
          BY <5>1, <5>2 DEF PlistSocket
        <5>4. mounterd' \in Mtd
          BY <1>1, <5>1 DEF Mtd
        <5>5. \A i \in 1..1 : i = 1
          OBVIOUS
        <5>6. Piped(plists', mounterd')
          BY <5>3, <5>5 DEF Piped
        <5>7. Greets(mounter', plists') /\ Uploads(mounter', plists', mounterd')
          BY <4>5, <5>3 DEF Greets, Uploads
        <5>8. Mounts(mounter', plists', mounterd')
          <6>1. AwaitedNext(plists', mounterd')
            BY <5>3 DEF AwaitedNext
          <6> QED BY <4>5, <4>6, <6>1 DEF Mounts
        <5> QED BY <4>5, <5>3, <5>4, <5>6, <5>7, <5>8 DEF MtInv, MtTyped
      <4>7. CASE ~I!IsNew
        <5> DEFINE sent == Append(rest.sent, "mount")
        <5>1. plists' = [rest EXCEPT !.sent = sent] /\ mounterd' = mounterd
          BY <4>1, <4>7 DEF I!Requests, I!Connected
        <5>2. "mount" \in Word
          BY DEF Word
        <5>3. sent \in Seq(Word) /\ Len(sent) = 1 /\ sent[1] = "mount" /\ Len(t) = 0
          BY <1>2, <1>3, <1>5, <4>3, <5>2
        <5> HIDE DEF sent
        <5>4. plists' \in PlistSocket /\ plists'.sent = sent /\ plists'.unread = t
          BY <1>5, <5>1, <5>3 DEF PlistSocket
        <5>5. \A i \in 1..1 : i = 1
          OBVIOUS
        <5>6. Piped(plists', mounterd')
          BY <5>3, <5>4, <5>5 DEF Piped
        <5>7. Greets(mounter', plists') /\ Uploads(mounter', plists', mounterd')
          BY <4>5, <4>7 DEF Greets, Uploads
        <5>8. Mounts(mounter', plists', mounterd')
          <6>1. Awaited(plists', mounterd')
            BY <5>3, <5>4 DEF Awaited
          <6> QED BY <4>5, <4>7, <6>1 DEF Mounts
        <5> QED BY <1>1, <4>5, <5>1, <5>4, <5>6, <5>7, <5>8 DEF MtInv, MtTyped
      <4> QED BY <4>6, <4>7
    <3>2. CASE ~I!Completed(x)
      BY <2>2, <2>14, <3>2 DEF I!AfterUpload
    <3> QED BY <3>1, <3>2
  <2> QED BY <1>9, <2>6, <2>7, <2>8, <2>9, <2>10, <2>11, <2>13, <2>14 DEF I!Handles
<1> QED BY <1>4, <1>8, <1>9

LEMMA MtSays ==
    ASSUME MtInv, NEW d \in Mtd, NEW a \in Word, plists.sent # <<>>, UNCHANGED mounter, I!Says(d, a),
           plists.sent[1] = "image" \/ ~mounterd.receiving,
           a = "ack" => d.receiving /\ ~mounterd.receiving /\ plists.sent[1] # "image",
           a = "complete" \/ ~mounterd.receiving,
           plists.sent[1] = "mount" /\ a \in {"complete", "already"} => d.mounted
    PROVE  MtInv'
<1> DEFINE t == Tail(plists.sent)
           q == Append(plists.unread, a)
<1>1. mounter \in Mtr /\ plists \in PlistSocket /\ mounterd \in Mtd /\ Piped(plists, mounterd)
      /\ Greets(mounter, plists) /\ Uploads(mounter, plists, mounterd) /\ Mounts(mounter, plists, mounterd)
  BY DEF MtInv, MtTyped
<1>2. plists.unread \in Seq(Word) /\ plists.sent \in Seq(Word)
  BY <1>1 DEF PlistSocket
<1>3. /\ t \in Seq(Word) /\ Len(plists.sent) \in Nat /\ Len(plists.sent) >= 1 /\ Len(t) = Len(plists.sent) - 1
      /\ 1 \in 1..Len(plists.sent) /\ \A i \in 1..Len(t) : i + 1 \in 1..Len(plists.sent) /\ t[i] = plists.sent[i + 1] /\ i + 1 # 1
  BY <1>2
<1>4. /\ q \in Seq(Word) /\ Len(q) = Len(plists.unread) + 1 /\ q[Len(q)] = a /\ Len(plists.unread) \in Nat
      /\ \A i \in 1..Len(plists.unread) : q[i] = plists.unread[i]
      /\ \A i \in 1..Len(q) : i = Len(q) \/ i \in 1..Len(plists.unread)
  BY <1>2
<1>5. mounter' = mounter /\ mounterd' = d /\ plists' = [plists EXCEPT !.sent = t, !.unread = q]
  BY DEF I!Says
<1> HIDE DEF t, q
<1>6. plists' \in PlistSocket /\ plists'.sent = t /\ plists'.unread = q
  BY <1>1, <1>3, <1>4, <1>5 DEF PlistSocket
<1>7. \A i \in 1..Len(plists.unread) : plists.unread[i] # "ack"
  BY <1>1, <1>3 DEF Piped
<1>8. \A i \in 1..Len(t) : t[i] # "image"
  BY <1>1, <1>3 DEF Piped
<1>9. Piped(plists', mounterd')
  <2>1. \A i \in 1..Len(q) : q[i] = "ack" => i = Len(q) /\ a = "ack"
    BY <1>4, <1>7
  <2> QED BY <1>5, <1>6, <1>8, <2>1 DEF Piped
<1>10. Greets(mounter', plists')
  <2>1. mounter.at \notin Done /\ mounter.fresh => 1 \in 1..Len(plists.unread) /\ plists.unread[1] = "greeting"
    BY <1>1, <1>4 DEF Greets
  <2> QED BY <1>4, <1>5, <1>6, <2>1 DEF Greets
<1>11. Uploads(mounter', plists', mounterd')
  <2>1. ASSUME mounter.at = "image", ~mounter.fresh  PROVE Len(t) = 0 /\ Len(q) = 1 /\ q[1] = "complete"
    <3>1. Len(plists.unread) = 0 /\ mounterd.receiving /\ plists.sent[Len(plists.sent)] = "image"
      BY <1>1, <1>3, <2>1 DEF Uploads
    <3>2. plists.sent[1] = "image"
      BY <3>1
    <3>3. Len(plists.sent) = 1
      <4>1. Len(plists.sent) \in 1..Len(plists.sent)
        BY <1>3
      <4> QED BY <1>1, <1>3, <3>1, <3>2, <4>1 DEF Piped
    <3>4. a = "complete"
      BY <3>1
    <3> QED BY <1>3, <1>4, <3>1, <3>3, <3>4
  <2> QED BY <1>5, <1>6, <2>1 DEF Uploads
<1>12. Mounts(mounter', plists', mounterd')
  <2>1. mounter.at = "ok" => ~mounter.uploaded
    BY <1>1, <1>3 DEF Mounts
  <2>2. ASSUME mounter.at = "mount", mounter.fresh  PROVE AwaitedNext(plists', mounterd')
    <3>1. Len(plists.sent) = 1 /\ plists.sent[1] = "mount" /\ Len(plists.unread) = 1
      BY <1>1, <1>3, <2>2 DEF Mounts, AwaitedNext
    <3>2. Len(t) = 0 /\ Len(q) = 2 /\ q[2] = a
      BY <1>3, <1>4, <3>1
    <3> QED BY <1>5, <1>6, <3>1, <3>2 DEF AwaitedNext
  <2>3. ASSUME mounter.at = "mount", ~mounter.fresh  PROVE Awaited(plists', mounterd')
    <3>1. Len(plists.sent) = 1 /\ plists.sent[1] = "mount" /\ Len(plists.unread) = 0
      BY <1>1, <1>3, <2>3 DEF Mounts, Awaited
    <3>2. Len(t) = 0 /\ Len(q) = 1 /\ q[1] = a
      BY <1>3, <1>4, <3>1
    <3> QED BY <1>5, <1>6, <3>1, <3>2 DEF Awaited
  <2> QED BY <1>1, <1>5, <1>6, <2>1, <2>2, <2>3 DEF Mounts
<1> QED BY <1>1, <1>5, <1>6, <1>9, <1>10, <1>11, <1>12 DEF MtInv, MtTyped

LEMMA MtAnswers ==
    ASSUME MtInv, I!Answers
    PROVE  MtInv'
<1> DEFINE r == Head(plists.sent)
           t == Tail(plists.sent)
<1>1. mounter \in Mtr /\ plists \in PlistSocket /\ mounterd \in Mtd /\ Piped(plists, mounterd)
      /\ Greets(mounter, plists) /\ Uploads(mounter, plists, mounterd) /\ Mounts(mounter, plists, mounterd)
      /\ UNCHANGED mounter /\ plists.sent # <<>> /\ plists.sent \in Seq(Word) /\ plists.unread \in Seq(Word)
  BY DEF MtInv, MtTyped, I!Answers, PlistSocket
<1>2. r = plists.sent[1] /\ r \in Word
  BY <1>1
<1>3. /\ t \in Seq(Word) /\ Len(plists.sent) \in Nat /\ Len(plists.sent) >= 1 /\ Len(t) = Len(plists.sent) - 1
      /\ 1 \in 1..Len(plists.sent) /\ \A i \in 1..Len(t) : i + 1 \in 1..Len(plists.sent) /\ t[i] = plists.sent[i + 1] /\ i + 1 # 1
  BY <1>1
<1>4. CASE /\ mounterd.receiving /\ r # "image" /\ mounterd' = [mounterd EXCEPT !.astray = TRUE]
           /\ plists' = [plists EXCEPT !.sent = t]
  <2> HIDE DEF r, t
  <2>1. mounterd' \in Mtd /\ mounterd'.receiving /\ mounterd'.mounted = mounterd.mounted
    BY <1>1, <1>4 DEF Mtd
  <2>2. plists' \in PlistSocket /\ plists'.sent = t /\ plists'.unread = plists.unread
    BY <1>1, <1>3, <1>4 DEF PlistSocket
  <2>3. Piped(plists', mounterd')
    <3>1. \A i, j \in 1..Len(t) : t[i] = "image" /\ t[j] = "image" => i = j
      <4>1. \A i, j \in 1..Len(t) : i + 1 = j + 1 => i = j
        OBVIOUS
      <4> QED BY <1>1, <1>3, <4>1 DEF Piped
    <3>2. ASSUME NEW i \in 1..Len(plists.unread), plists.unread[i] = "ack"
          PROVE  i = Len(plists.unread) /\ \A j \in 1..Len(t) : t[j] # "image"
      <4>1. i = Len(plists.unread) /\ \A j \in 1..Len(plists.sent) : plists.sent[j] # "image"
        BY <1>1, <3>2 DEF Piped
      <4> QED BY <1>3, <4>1
    <3> QED BY <2>1, <2>2, <3>1, <3>2 DEF Piped
  <2>4. Greets(mounter', plists')
    BY <1>1, <2>2 DEF Greets
  <2>5. Uploads(mounter', plists', mounterd')
    <3>1. ASSUME mounter.at = "image", ~mounter.fresh, Len(t) > 0  PROVE Len(plists.unread) = 0 /\ t[Len(t)] = "image"
      <4>1. Len(plists.unread) = 0 /\ plists.sent[Len(plists.sent)] = "image"
        BY <1>1, <1>3, <3>1 DEF Uploads
      <4>2. Len(t) \in 1..Len(t) /\ Len(t) + 1 = Len(plists.sent)
        BY <1>3, <3>1
      <4> QED BY <1>3, <4>1, <4>2
    <3>2. ASSUME mounter.at = "image", ~mounter.fresh  PROVE Len(plists.unread) = 0
      BY <1>1, <1>3, <3>2 DEF Uploads
    <3> QED BY <1>1, <2>1, <2>2, <3>1, <3>2 DEF Uploads
  <2>6. Mounts(mounter', plists', mounterd')
    <3>1. mounter.at = "ok" => ~mounter.uploaded
      BY <1>1, <1>3 DEF Mounts
    <3>2. ASSUME mounter.at = "mount", mounter.fresh  PROVE AwaitedNext(plists', mounterd')
      <4>1. Len(plists.sent) = 1 /\ Len(plists.unread) = 1
        BY <1>1, <1>3, <3>2 DEF Mounts, AwaitedNext
      <4> QED BY <1>3, <2>2, <4>1 DEF AwaitedNext
    <3>3. ASSUME mounter.at = "mount", ~mounter.fresh  PROVE Awaited(plists', mounterd')
      <4>1. Len(plists.sent) = 1 /\ Len(plists.unread) = 0
        BY <1>1, <1>3, <3>3 DEF Mounts, Awaited
      <4> QED BY <1>3, <2>2, <4>1 DEF Awaited
    <3> QED BY <1>1, <2>2, <3>1, <3>2, <3>3 DEF Mounts
  <2> QED BY <1>1, <2>1, <2>2, <2>3, <2>4, <2>5, <2>6 DEF MtInv, MtTyped
<1>5. ASSUME NEW a \in {"images", "none", "manifest", "error", "ids", "nonce"}, ~mounterd.receiving, I!Says(mounterd, a)
      PROVE  MtInv'
  <2>1. a \in Word
    BY DEF Word, Command
  <2> QED BY <1>1, <1>5, <2>1, MtSays
<1>6. CASE ~mounterd.receiving /\ r = "bytes" /\ I!Says([mounterd EXCEPT !.receiving = TRUE], "ack")
  <2> DEFINE d == [mounterd EXCEPT !.receiving = TRUE]
  <2>1. d \in Mtd /\ d.receiving
    BY <1>1 DEF Mtd
  <2>2. "ack" \in Word /\ I!Says(d, "ack")
    BY <1>6 DEF Word
  <2> HIDE DEF d
  <2> QED BY <1>1, <1>2, <1>6, <2>1, <2>2, MtSays
<1>7. CASE ~mounterd.receiving /\ r = "mount" /\ I!Says([mounterd EXCEPT !.mounted = TRUE], "complete")
  <2> DEFINE d == [mounterd EXCEPT !.mounted = TRUE]
  <2>1. d \in Mtd /\ d.mounted
    BY <1>1 DEF Mtd
  <2>2. "complete" \in Word /\ I!Says(d, "complete")
    BY <1>7 DEF Word
  <2> HIDE DEF d
  <2> QED BY <1>1, <1>2, <1>7, <2>1, <2>2, MtSays
<1>8. CASE ~mounterd.receiving /\ r = "mount" /\ mounterd.mounted /\ I!Says(mounterd, "already")
  <2>1. "already" \in Word
    BY DEF Word
  <2> QED BY <1>1, <1>2, <1>8, <2>1, MtSays
<1>9. CASE ~mounterd.receiving /\ r = "unmount" /\ I!Says([mounterd EXCEPT !.mounted = FALSE], "complete")
  <2> DEFINE d == [mounterd EXCEPT !.mounted = FALSE]
  <2>1. d \in Mtd
    BY <1>1 DEF Mtd
  <2>2. "complete" \in Word /\ I!Says(d, "complete")
    BY <1>9 DEF Word
  <2> HIDE DEF d
  <2> QED BY <1>1, <1>2, <1>9, <2>1, <2>2, MtSays
<1>10. CASE r = "image" /\ mounterd.receiving
            /\ I!Says([mounterd EXCEPT !.receiving = FALSE, !.staged = ~mounterd.astray, !.astray = FALSE], "complete")
  <2> DEFINE d == [mounterd EXCEPT !.receiving = FALSE, !.staged = ~mounterd.astray, !.astray = FALSE]
  <2>1. d \in Mtd
    BY <1>1 DEF Mtd
  <2>2. "complete" \in Word /\ I!Says(d, "complete")
    BY <1>10 DEF Word
  <2> HIDE DEF d
  <2> QED BY <1>1, <1>2, <1>10, <2>1, <2>2, MtSays
<1>11. CASE r = "image" /\ ~mounterd.receiving /\ I!Says([mounterd EXCEPT !.astray = TRUE], "error")
  <2> DEFINE d == [mounterd EXCEPT !.astray = TRUE]
  <2>1. d \in Mtd
    BY <1>1 DEF Mtd
  <2>2. "error" \in Word /\ I!Says(d, "error")
    BY <1>11 DEF Word
  <2> HIDE DEF d
  <2> QED BY <1>1, <1>2, <1>11, <2>1, <2>2, MtSays
<1>12. \/ /\ mounterd.receiving /\ r # "image" /\ mounterd' = [mounterd EXCEPT !.astray = TRUE]
          /\ plists' = [plists EXCEPT !.sent = t]
       \/ /\ ~mounterd.receiving
          /\ \/ r = "lookup" /\ I!Says(mounterd, IF mounterd.mounted THEN "images" ELSE "none")
             \/ r = "manifest" /\ I!Says(mounterd, IF mounterd.personal THEN "manifest" ELSE "error")
             \/ r \in {"ids", "nonce"} /\ I!Says(mounterd, r)
             \/ r = "bytes" /\ I!Says([mounterd EXCEPT !.receiving = TRUE], "ack")
             \/ r = "mount" /\ I!Says([mounterd EXCEPT !.mounted = TRUE], "complete")
             \/ r = "mount" /\ mounterd.mounted /\ I!Says(mounterd, "already")
             \/ r = "unmount" /\ I!Says([mounterd EXCEPT !.mounted = FALSE], "complete")
             \/ I!Says(mounterd, "error")
       \/ r = "image" /\ mounterd.receiving
          /\ I!Says([mounterd EXCEPT !.receiving = FALSE, !.staged = ~mounterd.astray, !.astray = FALSE], "complete")
       \/ r = "image" /\ ~mounterd.receiving /\ I!Says([mounterd EXCEPT !.astray = TRUE], "error")
  BY DEF I!Answers
<1> HIDE DEF r, t
<1>13. CASE ~mounterd.receiving /\ \E a \in {"images", "none", "manifest", "error", "ids", "nonce"} : I!Says(mounterd, a)
  BY <1>5, <1>13
<1> QED BY <1>4, <1>6, <1>7, <1>8, <1>9, <1>10, <1>11, <1>12, <1>13

LEMMA MtStep ==
    ASSUME MtInv, I!MounterNext
    PROVE  MtInv'
BY MtCalls, MtReceives, MtGivesUp, MtAnswers DEF I!MounterNext

LEMMA MtHolds ==
    ASSUME MtInv
    PROVE  I!MountIsReal /\ I!ImageWhenAsked
<1>1. I!MountIsReal
  BY DEF MtInv, Mounts, I!MountIsReal
<1>2. ASSUME mounter.at = "image", ~mounter.fresh, NEW i \in 1..Len(plists.sent)  PROVE plists.sent[i] = "image" => mounterd.receiving
  <2>1. Len(plists.sent) \in Nat /\ Len(plists.sent) > 0
    BY <1>2 DEF MtInv, MtTyped, PlistSocket
  <2> QED BY <1>2, <2>1 DEF MtInv, Uploads
<1> QED BY <1>1, <1>2 DEF I!ImageWhenAsked

-----------------------------------------------------------------------------
(* InstallationProxy: of several answers, all are read, and of one request. *)

\* What browse has collected when it has read k answers, for every k up to n.
Flats(f, n) == [k \in 0..n |-> IF k = 0 THEN <<>> ELSE f[k - 1] \o Parts[k]]
HasFlat(n) == \E f : f = Flats(f, n)
Flat == CHOOSE f : f = Flats(f, Len(Parts))
Flattens(f) == [i \in 1..Len(Parts) |-> IF i = 1 THEN Parts[i] ELSE f[i - 1] \o Parts[i]]

Last3(k) == k \in {"complete", "error", "result"}
Kinds == {"greeting", "error", "result", "part", "complete", "progress", "hundred"}
Message == Nat \X Kinds \X Seq(Nat)
Ins == [op : N!Op \cup {"none"}, at : {"idle", "ok", "failed", "greeting", "answer"}, id : Nat, result : Seq(Nat),
        connected : BOOLEAN, gaveUp : BOOLEAN]
Prx == [owed : BOOLEAN, requests : Seq([op : N!Op, id : Nat]), part : Nat, installed : SUBSET Nat]

\* The request of the call is under way and none of its answers is the last, or it was answered.
Pending(ins, ans, d) ==
    \/ /\ Len(d.requests) = 1 /\ d.requests[1] = [op |-> ins.op, id |-> ins.id]
       /\ \A j \in 1..Len(ans) : ~Last3(ans[j][2])
    \/ Len(d.requests) = 0 /\ d.part = 0 /\ Len(ans) > 0
       /\ \A j \in 1..Len(ans) : Last3(ans[j][2]) <=> j = Len(ans)

\* The answers that were not read go on where those that were have ended.
GoesOn(ins, ans, d) ==
    /\ ins.op = "browse" => \E q \in 0..Len(Parts) :
         /\ ins.result = Flat[q]
         /\ \A j \in 1..Len(ans) : ans[j][2] = "error" \/
              (q + j <= Len(Parts) /\ ans[j] = <<ins.id, IF q + j = Len(Parts) THEN "complete" ELSE "part", Parts[q + j]>>)
         /\ Len(d.requests) = 1 => d.part = q + Len(ans)
    /\ ins.op = "lookup" => \A j \in 1..Len(ans) : ans[j][2] = "error" \/ ans[j] = <<ins.id, "result", <<ins.id>>>>
    /\ ins.op = "install" => \A j \in 1..Len(ans) : ans[j][2] \in {"progress", "hundred", "complete", "error"}
               /\ (ans[j][2] = "complete" => ins.id \in d.installed)

Clean(ins, ans, d) ==
    /\ ins.at \in {"idle", "ok", "failed"} => Len(ans) = 0 /\ Len(d.requests) = 0 /\ ~d.owed /\ d.part = 0
    /\ ins.at = "greeting" => /\ Len(d.requests) = 0 /\ d.part = 0
                              /\ (d.owed /\ Len(ans) = 0) \/ (~d.owed /\ Len(ans) = 1)
                              /\ Len(ins.result) = 0
    /\ ins.at = "answer" => ~d.owed /\ Pending(ins, ans, d) /\ GoesOn(ins, ans, d)
    /\ ins.at = "ok" => /\ ins.op = "browse" => ins.result = N!FlattenSeq(Parts)
                        /\ ins.op = "lookup" => ins.result = <<ins.id>>
                        /\ ins.op = "install" => ins.id \in d.installed

PxInv ==
    /\ installer \in Ins /\ answered \in Seq(Message) /\ proxied \in Prx
    /\ installer.at \in {"greeting", "answer"} => installer.op \in N!Op
    /\ ~installer.gaveUp => Clean(installer, answered, proxied)

LEMMA FlatIs ==
    /\ Flat[0] = <<>> /\ \A k \in 0..Len(Parts) : k # 0 => Flat[k] = Flat[k - 1] \o Parts[k]
    /\ \A k \in 0..Len(Parts) : Flat[k] \in Seq(Nat)
    /\ Len(Parts) > 0 => Flat[Len(Parts)] = N!FlattenSeq(Parts)
<1> DEFINE n == Len(Parts)
<1>1. n \in Nat /\ \A k \in 1..n : Parts[k] \in Seq(Nat)
  BY PartsAssumption
<1> HIDE DEF n
<1>2. \A k \in 0..n : HasFlat(k)
  <2> DEFINE Z == {k \in 0..n : HasFlat(k)}
  <2>1. HasFlat(0)
    <3>1. [i \in 0..0 |-> <<>>] = Flats([i \in 0..0 |-> <<>>], 0)
      BY DEF Flats
    <3> QED BY <3>1 DEF HasFlat
  <2>2. ASSUME NEW k \in 0..n, HasFlat(k), k < n  PROVE HasFlat(k + 1)
    <3>1. PICK f : f = Flats(f, k)
      BY <2>2 DEF HasFlat
    <3> DEFINE g == [i \in 0..k + 1 |-> IF i = k + 1 THEN f[k] \o Parts[k + 1] ELSE f[i]]
    <3>2. ASSUME NEW i \in 0..k + 1  PROVE g[i] = IF i = 0 THEN <<>> ELSE g[i - 1] \o Parts[i]
      <4>1. CASE i = 0
        <5>1. 0 \in 0..k /\ 0 # k + 1
          OBVIOUS
        <5> QED BY <3>1, <4>1, <5>1 DEF Flats
      <4>2. CASE i = k + 1
        <5>1. i - 1 = k /\ k \in 0..k + 1 /\ k # k + 1 /\ i # 0
          BY <4>2
        <5> QED BY <4>2, <5>1
      <4>3. CASE i # 0 /\ i # k + 1
        <5>1. i \in 0..k /\ i - 1 \in 0..k + 1 /\ i - 1 # k + 1
          BY <4>3
        <5>2. f[i] = f[i - 1] \o Parts[i]
          BY <3>1, <4>3, <5>1 DEF Flats
        <5> QED BY <4>3, <5>1, <5>2
      <4> QED BY <4>1, <4>2, <4>3
    <3>3. g = Flats(g, k + 1)
      <4>1. g = [i \in 0..k + 1 |-> g[i]]
        OBVIOUS
      <4> HIDE DEF g
      <4> QED BY <3>2, <4>1 DEF Flats
    <3> QED BY <3>3 DEF HasFlat
  <2>3. 0 \in Z /\ \A k \in 0..n : k \in Z /\ k < n => k + 1 \in Z
    <3>1. \A k \in 0..n : k < n => k + 1 \in 0..n
      BY <1>1
    <3> QED BY <1>1, <2>1, <2>2, <3>1
  <2>4. \A k \in 0..n : k \in Z
    <3> HIDE DEF Z
    <3> QED BY <1>1, <2>3, Upwards
  <2> QED BY <2>4
<1>3. Flat = Flats(Flat, n)
  <2>1. \E f : f = Flats(f, n)
    BY <1>1, <1>2 DEF HasFlat
  <2> QED BY <2>1, Zenon DEF Flat, n
<1>4. Flat[0] = <<>> /\ \A k \in 0..n : k # 0 => Flat[k] = Flat[k - 1] \o Parts[k]
  <2> DEFINE G == Flat
  <2>1. G = Flats(G, n)
    BY <1>3
  <2>2. 0 \in 0..n
    BY <1>1
  <2> HIDE DEF G
  <2>3. G[0] = <<>> /\ \A k \in 0..n : k # 0 => G[k] = G[k - 1] \o Parts[k]
    BY <2>1, <2>2 DEF Flats
  <2> QED BY <2>3 DEF G
<1>7. n > 0 => Flat[1] = <<>> \o Parts[1] /\ Parts[1] \in Seq(Nat)
  <2> SUFFICES ASSUME n > 0  PROVE Flat[1] = <<>> \o Parts[1] /\ Parts[1] \in Seq(Nat)
    OBVIOUS
  <2>1. 1 \in 0..n /\ 1 - 1 = 0 /\ 1 \in 1..n /\ 1 # 0
    BY <1>1
  <2>2. Flat[1] = Flat[1 - 1] \o Parts[1]
    BY <1>4, <2>1
  <2>3. Flat[1 - 1] = <<>>
    BY <1>4, <2>1
  <2>4. Parts[1] \in Seq(Nat)
    BY <1>1, <2>1
  <2> QED BY <2>2, <2>3, <2>4
<1>5. \A k \in 0..n : Flat[k] \in Seq(Nat)
  <2> DEFINE Z == {k \in 0..n : Flat[k] \in Seq(Nat)}
  <2>1. 0 \in Z
    <3>1. 0 \in 0..n /\ <<>> \in Seq(Nat)
      BY <1>1
    <3> QED BY <1>4, <3>1
  <2>2. ASSUME NEW k \in 0..n, k \in Z, k < n  PROVE k + 1 \in Z
    <3>1. k + 1 \in 0..n /\ Flat[k + 1] \in Seq(Nat)
      <4>1. k \in 0..n /\ k + 1 \in 1..n /\ (k + 1) - 1 = k /\ k + 1 # 0 /\ k + 1 \in 0..n
        BY <1>1, <2>2
      <4>2. Flat[k + 1] = Flat[k] \o Parts[k + 1]
        BY <1>4, <4>1
      <4> QED BY <1>1, <2>2, <4>1, <4>2
    <3> QED BY <3>1
  <2>3. \A k \in 0..n : k \in Z
    <3> HIDE DEF Z
    <3> QED BY <1>1, <2>1, <2>2, Upwards
  <2> QED BY <1>1, <2>3
<1>6. ASSUME n > 0  PROVE Flat[n] = N!FlattenSeq(Parts)
  <2> DEFINE h == CHOOSE f : f = Flattens(f)
  <2>1. N!FlattenSeq(Parts) = h[n]
    <3>1. Len(Parts) # 0
      BY <1>1, <1>6 DEF n
    <3>2. h = CHOOSE f : f = [i \in 1..Len(Parts) |-> IF i = 1 THEN Parts[i] ELSE f[i - 1] \o Parts[i]]
      BY DEF Flattens
    <3> HIDE DEF h
    <3> QED BY <3>1, <3>2, Zenon DEF N!FlattenSeq, n
  <2>2. \E f : f = Flattens(f)
    <3> DEFINE f == [i \in 1..n |-> Flat[i]]
    <3>1. ASSUME NEW i \in 1..n  PROVE f[i] = IF i = 1 THEN Parts[i] ELSE f[i - 1] \o Parts[i]
      <4>1. CASE i = 1
        <5>1. Flat[1] = <<>> \o Parts[1] /\ Parts[1] \in Seq(Nat)
          BY <1>6, <1>7
        <5>2. <<>> \o Parts[1] = Parts[1]
          BY <5>1
        <5> QED BY <1>4, <4>1, <5>1, <5>2
      <4>2. CASE i # 1
        <5>1. i \in 0..n /\ i - 1 \in 1..n /\ i # 0
          BY <1>1, <4>2
        <5> QED BY <1>4, <4>2, <5>1
      <4> QED BY <4>1, <4>2
    <3>2. f = [i \in 1..n |-> f[i]]
      OBVIOUS
    <3>3. f = Flattens(f)
      <4> HIDE DEF f
      <4> QED BY <3>1, <3>2 DEF Flattens, n
    <3> QED BY <3>3
  <2>3. h = Flattens(h)
    BY <2>2, Zenon
  <2> DEFINE Z == {k \in 0..n : k + 1 \in 1..n => h[k + 1] = Flat[k + 1]}
  <2>4. 0 \in Z
    <3>1. 1 \in 0..n /\ 1 - 1 = 0 /\ 1 \in 1..n
      BY <1>1, <1>6
    <3>2. h[1] = Parts[1]
      <4> HIDE DEF h
      <4> QED BY <2>3, <3>1 DEF Flattens, n
    <3>3. Flat[1] = <<>> \o Parts[1] /\ Parts[1] \in Seq(Nat)
      BY <1>6, <1>7
    <3>4. <<>> \o Parts[1] = Parts[1]
      BY <3>3
    <3>5. h[0 + 1] = Flat[0 + 1] /\ 0 \in 0..n
      <4> HIDE DEF h
      <4>1. 0 + 1 = 1 /\ 0 \in 0..n
        BY <1>1
      <4> QED BY <3>2, <3>3, <3>4, <4>1
    <3> HIDE DEF h
    <3> QED BY <3>5
  <2>5. ASSUME NEW k \in 0..n, k \in Z, k < n  PROVE k + 1 \in Z
    <3>1. ASSUME (k + 1) + 1 \in 1..n  PROVE h[(k + 1) + 1] = Flat[(k + 1) + 1]
      <4> DEFINE m == (k + 1) + 1
      <4>1. m \in 1..n /\ m - 1 = k + 1 /\ m - 1 \in 1..n /\ m # 1 /\ m # 0 /\ m \in 0..n
        BY <1>1, <3>1
      <4>2. h[m - 1] = Flat[m - 1]
        BY <2>5, <4>1
      <4> HIDE DEF m
      <4>3. h[m] = h[m - 1] \o Parts[m]
        <5> HIDE DEF h
        <5> QED BY <2>3, <4>1 DEF Flattens, n
      <4>4. Flat[m] = Flat[m - 1] \o Parts[m]
        BY <1>4, <4>1
      <4>5. h[m] = Flat[m]
        BY <4>2, <4>3, <4>4
      <4> QED BY <4>5 DEF m
    <3>2. k + 1 \in 0..n
      BY <1>1, <2>5
    <3> QED BY <3>1, <3>2
  <2>6. \A k \in 0..n : k \in Z
    <3> HIDE DEF Z
    <3> QED BY <1>1, <2>4, <2>5, Upwards
  <2>7. n - 1 \in 0..n /\ (n - 1) + 1 = n /\ n \in 1..n
    BY <1>1, <1>6
  <2>8. h[n] = Flat[n]
    BY <2>6, <2>7
  <2> QED BY <2>1, <2>8
<1> QED BY <1>4, <1>5, <1>6 DEF n

LEMMA PxInitInv ==
    ASSUME N!ProxyInit
    PROVE  PxInv
<1>1. <<>> \in Seq(Nat) /\ <<>> \in Seq(Message) /\ <<>> \in Seq([op : N!Op, id : Nat]) /\ Len(<<>>) = 0
  OBVIOUS
<1>2. installer \in Ins
  BY <1>1 DEF N!ProxyInit, Ins
<1>3. proxied \in Prx
  BY <1>1 DEF N!ProxyInit, Prx
<1>4. answered \in Seq(Message)
  BY <1>1 DEF N!ProxyInit
<1>5. Clean(installer, answered, proxied)
  BY <1>1 DEF N!ProxyInit, Clean
<1>6. installer.at = "idle"
  BY DEF N!ProxyInit
<1> QED BY <1>2, <1>3, <1>4, <1>5, <1>6 DEF PxInv

\* A request that is sent on a connection with nothing under way.
LEMMA PxSent ==
    ASSUME NEW ins \in Ins, NEW d \in Prx, ins.at = "answer", ins.op \in N!Op, ins.result = <<>>, ~d.owed, d.part = 0,
           d.requests = <<[op |-> ins.op, id |-> ins.id]>>, NEW ans, Len(ans) = 0
    PROVE  Clean(ins, ans, d)
<1>1. Len(d.requests) = 1 /\ d.requests[1] = [op |-> ins.op, id |-> ins.id]
  OBVIOUS
<1>2. Pending(ins, ans, d)
  BY <1>1 DEF Pending
<1>3. ins.result = Flat[0] /\ 0 \in 0..Len(Parts)
  BY FlatIs, PartsAssumption
<1>4. GoesOn(ins, ans, d)
  <2>1. ins.op = "browse" => \E q \in 0..Len(Parts) :
         /\ ins.result = Flat[q]
         /\ \A j \in 1..Len(ans) : ans[j][2] = "error" \/
              (q + j <= Len(Parts) /\ ans[j] = <<ins.id, IF q + j = Len(Parts) THEN "complete" ELSE "part", Parts[q + j]>>)
         /\ Len(d.requests) = 1 => d.part = q + Len(ans)
    BY <1>3
  <2> QED BY <2>1 DEF GoesOn
<1> QED BY <1>2, <1>4 DEF Clean

LEMMA PxAsks ==
    ASSUME PxInv, NEW op \in N!Op, N!Asks(op)
    PROVE  PxInv'
<1> DEFINE n == installer.id + 1
           new == <<>>
           at == IF installer.connected THEN "answer" ELSE "greeting"
           rs == Append(proxied.requests, [op |-> op, id |-> n])
<1>1. /\ installer \in Ins /\ answered \in Seq(Message) /\ proxied \in Prx /\ answered' = answered
      /\ ~installer.gaveUp => Clean(installer, answered, proxied)
      /\ installer.at \in {"idle", "ok", "failed"}
  BY DEF PxInv, N!Asks, N!Ended
<1>2. n \in Nat /\ new \in Seq(Nat) /\ Len(new) = 0
  BY <1>1 DEF Ins
<1>3. installer' = [installer EXCEPT !.op = op, !.id = n, !.result = new, !.connected = TRUE, !.at = at]
  BY <1>1 DEF N!Asks, Ins
<1>4. proxied' = IF installer.connected THEN [proxied EXCEPT !.requests = rs] ELSE [proxied EXCEPT !.owed = TRUE]
  <2>1. rs = Append(proxied.requests, N!Request(op, [installer EXCEPT !.op = op, !.id = n, !.result = new, !.connected = TRUE].id))
    BY <1>1 DEF N!Request, Ins
  <2> QED BY <2>1 DEF N!Asks
<1>5. rs \in Seq([op : N!Op, id : Nat])
  BY <1>1, <1>2 DEF Prx
<1>6. (installer.connected <=> at = "answer") /\ at \in {"answer", "greeting"}
  OBVIOUS
<1>7. installer.connected \in BOOLEAN
  BY <1>1 DEF Ins
<1> HIDE DEF n, new, at
<1>8. /\ installer' \in Ins /\ installer'.op = op /\ installer'.id = n /\ installer'.result = new
      /\ installer'.at = at /\ installer'.gaveUp = installer.gaveUp
  BY <1>1, <1>2, <1>3, <1>6 DEF Ins
<1>9. CASE installer.connected
  <2>1. proxied' \in Prx /\ proxied'.requests = rs /\ proxied'.owed = proxied.owed /\ proxied'.part = proxied.part
    <3> HIDE DEF rs
    <3> QED BY <1>1, <1>4, <1>5, <1>9 DEF Prx
  <2>2. ASSUME ~installer.gaveUp  PROVE Clean(installer', answered', proxied')
    <3>1. Len(answered) = 0 /\ Len(proxied.requests) = 0 /\ ~proxied.owed /\ proxied.part = 0
      BY <1>1, <2>2 DEF Clean
    <3>2. proxied.requests \in Seq([op : N!Op, id : Nat])
      BY <1>1 DEF Prx
    <3>3. proxied.requests = <<>>
      BY <3>1, <3>2
    <3>4. rs = <<[op |-> op, id |-> n]>>
      BY <3>3
    <3>5. new = <<>>
      BY DEF new
    <3> QED BY <1>1, <1>6, <1>8, <1>9, <2>1, <3>1, <3>4, <3>5, PxSent
  <2> QED BY <1>1, <1>8, <2>1, <2>2 DEF PxInv
<1>10. CASE ~installer.connected
  <2>1. proxied' \in Prx /\ proxied'.requests = proxied.requests /\ proxied'.owed /\ proxied'.part = proxied.part
    BY <1>1, <1>4, <1>10 DEF Prx
  <2>2. at = "greeting"
    BY <1>6, <1>10
  <2>3. ASSUME ~installer.gaveUp  PROVE Clean(installer', answered', proxied')
    BY <1>1, <1>2, <1>8, <2>1, <2>2, <2>3 DEF Clean
  <2> QED BY <1>1, <1>8, <2>1, <2>3 DEF PxInv
<1> QED BY <1>7, <1>9, <1>10

LEMMA PxGreeted ==
    ASSUME PxInv, N!Greeted
    PROVE  PxInv'
<1> DEFINE t == Tail(answered)
           rs == Append(proxied.requests, [op |-> installer.op, id |-> installer.id])
<1>1. /\ installer \in Ins /\ answered \in Seq(Message) /\ answered # <<>> /\ proxied \in Prx /\ answered' = t
      /\ ~installer.gaveUp => Clean(installer, answered, proxied)
      /\ installer.at = "greeting" /\ installer' = [installer EXCEPT !.at = "answer"] /\ installer.op \in N!Op
      /\ proxied' = [proxied EXCEPT !.requests = rs]
  BY DEF PxInv, N!Greeted, N!Request
<1>2. t \in Seq(Message) /\ Len(t) = Len(answered) - 1 /\ Len(answered) \in Nat /\ Len(answered) >= 1
  BY <1>1
<1>3. installer' \in Ins /\ installer'.at = "answer" /\ installer'.op = installer.op /\ installer'.id = installer.id
      /\ installer'.result = installer.result /\ installer'.gaveUp = installer.gaveUp
  BY <1>1 DEF Ins
<1>4. rs \in Seq([op : N!Op, id : Nat])
  BY <1>1 DEF Prx, Ins
<1>5. proxied' \in Prx /\ proxied'.requests = rs /\ proxied'.owed = proxied.owed /\ proxied'.part = proxied.part
  <2> HIDE DEF rs
  <2> QED BY <1>1, <1>4 DEF Prx
<1>6. ASSUME ~installer.gaveUp  PROVE Clean(installer', answered', proxied')
  <2>1. Len(proxied.requests) = 0 /\ proxied.part = 0 /\ ~proxied.owed /\ Len(answered) = 1 /\ Len(installer.result) = 0
    BY <1>1, <1>2, <1>6 DEF Clean
  <2>2. proxied.requests \in Seq([op : N!Op, id : Nat]) /\ installer.result \in Seq(Nat)
    BY <1>1 DEF Prx, Ins
  <2>3. proxied.requests = <<>> /\ installer.result = <<>>
    BY <2>1, <2>2
  <2>4. rs = <<[op |-> installer.op, id |-> installer.id]>> /\ Len(t) = 0
    BY <1>2, <2>1, <2>3
  <2> HIDE DEF t, rs
  <2> QED BY <1>1, <1>3, <1>5, <2>1, <2>3, <2>4, PxSent
<1> QED BY <1>1, <1>2, <1>3, <1>5, <1>6 DEF PxInv

\* A step that gives up, that closes, and the greeting of the device.
LEMMA PxGreets ==
    ASSUME PxInv, N!GivesUp \/ N!Closes \/ N!Greets
    PROVE  PxInv'
<1>1. /\ installer \in Ins /\ answered \in Seq(Message) /\ proxied \in Prx
      /\ installer.at \in {"greeting", "answer"} => installer.op \in N!Op
      /\ ~installer.gaveUp => Clean(installer, answered, proxied)
  BY DEF PxInv
<1>2. CASE N!GivesUp
  <2>1. installer' \in Ins /\ installer'.gaveUp /\ installer'.at = "failed"
    BY <1>1, <1>2 DEF N!GivesUp, Ins
  <2> QED BY <1>1, <1>2, <2>1 DEF PxInv, N!GivesUp
<1>3. CASE N!Closes
  <2>1. installer' \in Ins /\ installer'.at = "idle"
    BY <1>1, <1>3 DEF N!Closes, Ins
  <2> DEFINE none == <<>>
  <2>2. none \in Seq([op : N!Op, id : Nat]) /\ none \in Seq(Message) /\ Len(none) = 0
        /\ proxied' = [proxied EXCEPT !.owed = FALSE, !.requests = none, !.part = 0] /\ answered' = none
    BY <1>3 DEF N!Closes
  <2> HIDE DEF none
  <2>3. proxied' \in Prx /\ ~proxied'.owed /\ proxied'.requests = none /\ proxied'.part = 0
    BY <1>1, <2>2 DEF Prx
  <2>4. Clean(installer', answered', proxied')
    BY <2>1, <2>2, <2>3 DEF Clean
  <2> QED BY <2>1, <2>2, <2>3, <2>4 DEF PxInv
<1>4. CASE N!Greets
  <2> DEFINE q == Append(answered, <<0, "greeting", <<>>>>)
  <2>1. proxied.owed /\ proxied' = [proxied EXCEPT !.owed = FALSE] /\ answered' = q /\ installer' = installer
    BY <1>4 DEF N!Greets
  <2>2. <<0, "greeting", <<>>>> \in Message
    <3>1. <<>> \in Seq(Nat) /\ "greeting" \in Kinds
      BY DEF Kinds
    <3> QED BY <3>1 DEF Message
  <2>3. q \in Seq(Message) /\ Len(q) = Len(answered) + 1 /\ Len(answered) \in Nat
    BY <1>1, <2>2
  <2>4. proxied' \in Prx /\ ~proxied'.owed /\ proxied'.requests = proxied.requests /\ proxied'.part = proxied.part
    BY <1>1, <2>1 DEF Prx
  <2>5. ASSUME ~installer.gaveUp  PROVE Clean(installer', answered', proxied')
    <3>1. installer.at = "greeting"
      BY <1>1, <2>1, <2>5 DEF Clean, Ins
    <3> HIDE DEF q
    <3> QED BY <1>1, <2>1, <2>3, <2>4, <2>5, <3>1 DEF Clean
  <2> HIDE DEF q
  <2> QED BY <1>1, <2>1, <2>3, <2>4, <2>5 DEF PxInv
<1> QED BY <1>2, <1>3, <1>4

LEMMA PxReads ==
    ASSUME PxInv, N!Reads
    PROVE  PxInv'
<1> DEFINE m == Head(answered)
           t == Tail(answered)
           more == IF installer.op = "browse" THEN installer.result \o m[3] ELSE installer.result
           n == Len(Parts)
<1>1. /\ installer \in Ins /\ answered \in Seq(Message) /\ answered # <<>> /\ proxied \in Prx /\ answered' = t
      /\ installer.at = "answer" /\ installer.op \in N!Op /\ proxied' = proxied
      /\ ~installer.gaveUp => Clean(installer, answered, proxied)
  BY DEF PxInv, N!Reads
<1>2. /\ t \in Seq(Message) /\ Len(t) = Len(answered) - 1 /\ Len(answered) \in Nat /\ Len(answered) >= 1
      /\ m \in Message /\ m = answered[1] /\ 1 \in 1..Len(answered) /\ Len(t) \in Nat
      /\ \A j \in 1..Len(t) : j + 1 \in 1..Len(answered) /\ t[j] = answered[j + 1] /\ j + 1 # 1
  BY <1>1
<1>3. m[3] \in Seq(Nat) /\ m[2] \in Kinds /\ installer.result \in Seq(Nat)
  BY <1>1, <1>2 DEF Message, Ins
<1>4. more \in Seq(Nat)
  BY <1>3
<1>5. \/ m[2] = "error" /\ installer' = [installer EXCEPT !.at = "failed"]
      \/ m[2] # "error" /\ installer.op = "lookup" /\ installer' = [installer EXCEPT !.at = "ok", !.result = m[3]]
      \/ /\ m[2] # "error" /\ installer.op # "lookup"
         /\ installer' = [installer EXCEPT !.result = more, !.at = IF m[2] = "complete" THEN "ok" ELSE "answer"]
      \/ m[2] \in {"progress", "hundred"} /\ installer' = [installer EXCEPT !.at = "failed", !.gaveUp = TRUE]
  BY DEF N!Reads, N!IsError, N!Kind, N!IsComplete, N!Collected
<1> HIDE DEF m, t, more
<1>6. ASSUME ~installer.gaveUp, Last3(m[2])
      PROVE  Len(t) = 0 /\ Len(proxied.requests) = 0 /\ ~proxied.owed /\ proxied.part = 0
  <2>1. Pending(installer, answered, proxied) /\ ~proxied.owed
    BY <1>1, <1>6 DEF Clean
  <2>2. Len(answered) = 1 /\ Len(proxied.requests) = 0 /\ proxied.part = 0
    BY <1>2, <1>6, <2>1 DEF Pending
  <2> QED BY <1>2, <2>1, <2>2
<1>7. CASE m[2] = "error" /\ installer' = [installer EXCEPT !.at = "failed"]
  <2>1. installer' \in Ins /\ installer'.at = "failed" /\ installer'.gaveUp = installer.gaveUp
    BY <1>1, <1>7 DEF Ins
  <2>2. ~installer.gaveUp => Clean(installer', answered', proxied')
    BY <1>1, <1>6, <1>7, <2>1 DEF Clean, Last3
  <2> QED BY <1>1, <1>2, <2>1, <2>2 DEF PxInv
<1>8. CASE m[2] # "error" /\ installer.op = "lookup" /\ installer' = [installer EXCEPT !.at = "ok", !.result = m[3]]
  <2>1. installer' \in Ins /\ installer'.at = "ok" /\ installer'.gaveUp = installer.gaveUp /\ installer'.result = m[3]
        /\ installer'.op = "lookup" /\ installer'.id = installer.id
    BY <1>1, <1>3, <1>8 DEF Ins
  <2>2. ASSUME ~installer.gaveUp  PROVE Clean(installer', answered', proxied')
    <3>1. m = <<installer.id, "result", <<installer.id>>>>
      BY <1>1, <1>2, <1>8, <2>2 DEF Clean, GoesOn
    <3>2. m[2] = "result" /\ m[3] = <<installer.id>>
      BY <3>1
    <3> QED BY <1>1, <1>6, <2>1, <2>2, <3>2 DEF Clean, Last3
  <2> QED BY <1>1, <1>2, <2>1, <2>2 DEF PxInv
<1>9. CASE m[2] \in {"progress", "hundred"} /\ installer' = [installer EXCEPT !.at = "failed", !.gaveUp = TRUE]
  <2>1. installer' \in Ins /\ installer'.at = "failed" /\ installer'.gaveUp
    BY <1>1, <1>9 DEF Ins
  <2> QED BY <1>1, <1>2, <2>1 DEF PxInv
<1>10. CASE /\ m[2] # "error" /\ installer.op # "lookup"
            /\ installer' = [installer EXCEPT !.result = more, !.at = IF m[2] = "complete" THEN "ok" ELSE "answer"]
  <2>1. /\ installer' \in Ins /\ installer'.at = (IF m[2] = "complete" THEN "ok" ELSE "answer")
        /\ installer'.gaveUp = installer.gaveUp /\ installer'.result = more /\ installer'.op = installer.op
        /\ installer'.id = installer.id
    BY <1>1, <1>4, <1>10 DEF Ins
  <2>2. ASSUME ~installer.gaveUp  PROVE Clean(installer', answered', proxied')
    <3>1. Pending(installer, answered, proxied) /\ GoesOn(installer, answered, proxied) /\ ~proxied.owed
      BY <1>1, <2>2 DEF Clean
    <3>5. installer.op = "install" =>
             \A j \in 1..Len(answered) : answered[j][2] \in {"progress", "hundred", "complete", "error"}
               /\ (answered[j][2] = "complete" => installer.id \in proxied.installed)
      BY <3>1, Zenon DEF GoesOn
    <3>2. installer.op = "browse" => \E q \in 0..n :
             /\ q + 1 \in 1..n /\ installer.result = Flat[q] /\ m[3] = Parts[q + 1]
             /\ m[2] = (IF q + 1 = n THEN "complete" ELSE "part")
             /\ \A j \in 1..Len(answered) : answered[j][2] = "error" \/
                   (q + j <= n /\ answered[j] = <<installer.id, IF q + j = n THEN "complete" ELSE "part", Parts[q + j]>>)
             /\ Len(proxied.requests) = 1 => proxied.part = q + Len(answered)
      <4>1. ASSUME installer.op = "browse"
            PROVE \E q \in 0..n :
             /\ q + 1 \in 1..n /\ installer.result = Flat[q] /\ m[3] = Parts[q + 1]
             /\ m[2] = (IF q + 1 = n THEN "complete" ELSE "part")
             /\ \A j \in 1..Len(answered) : answered[j][2] = "error" \/
                   (q + j <= n /\ answered[j] = <<installer.id, IF q + j = n THEN "complete" ELSE "part", Parts[q + j]>>)
             /\ Len(proxied.requests) = 1 => proxied.part = q + Len(answered)
        <5>1. PICK q \in 0..n :
             /\ installer.result = Flat[q]
             /\ \A j \in 1..Len(answered) : answered[j][2] = "error" \/
                   (q + j <= n /\ answered[j] = <<installer.id, IF q + j = n THEN "complete" ELSE "part", Parts[q + j]>>)
             /\ Len(proxied.requests) = 1 => proxied.part = q + Len(answered)
          BY <3>1, <4>1 DEF GoesOn
        <5>2. q + 1 <= n /\ m = <<installer.id, IF q + 1 = n THEN "complete" ELSE "part", Parts[q + 1]>>
          BY <1>2, <1>10, <5>1
        <5>3. m[3] = Parts[q + 1] /\ m[2] = (IF q + 1 = n THEN "complete" ELSE "part")
          BY <5>2
        <5>4. q + 1 \in 1..n
          BY <5>2, PartsAssumption
        <5> QED BY <5>1, <5>3, <5>4
      <4> QED BY <4>1
    <3>3. CASE m[2] = "complete"
      <4>1. Len(t) = 0 /\ Len(proxied.requests) = 0 /\ ~proxied.owed /\ proxied.part = 0
        BY <1>6, <2>2, <3>3 DEF Last3
      <4>2. installer.op = "browse" => more = N!FlattenSeq(Parts)
        <5>1. ASSUME installer.op = "browse"  PROVE more = N!FlattenSeq(Parts)
          <6>1. PICK q \in 0..n : q + 1 \in 1..n /\ installer.result = Flat[q] /\ m[3] = Parts[q + 1] /\ q + 1 = n
            BY <3>2, <3>3, <5>1
          <6>2. n \in Nat /\ n > 0 /\ n \in 0..n /\ n # 0 /\ n - 1 = q
            BY <6>1, PartsAssumption
          <6>3. Flat[n] = Flat[n - 1] \o Parts[n]
            BY <6>2, FlatIs
          <6>4. more = Flat[n]
            BY <5>1, <6>1, <6>2, <6>3 DEF more
          <6> QED BY <6>2, <6>4, FlatIs
        <5> QED BY <5>1
      <4>3. installer.op = "install" => installer.id \in proxied.installed
        BY <1>2, <3>1, <3>3 DEF GoesOn
      <4> QED BY <1>1, <1>10, <2>1, <3>3, <4>1, <4>2, <4>3 DEF Clean
    <3>4. CASE m[2] # "complete"
      <4>1. ~Last3(m[2])
        <5>1. installer.op = "browse" => m[2] = "part"
          BY <3>2, <3>4
        <5>2. installer.op = "install" => m[2] # "result"
          BY <1>2, <3>5
        <5> QED BY <1>1, <1>10, <3>4, <5>1, <5>2 DEF Last3, N!Op
      <4>2. Pending(installer', t, proxied)
        <5>1. \A j \in 1..Len(t) : j + 1 = Len(answered) <=> j = Len(t)
          BY <1>2
        <5>2. CASE /\ Len(proxied.requests) = 1 /\ proxied.requests[1] = [op |-> installer.op, id |-> installer.id]
                   /\ \A j \in 1..Len(answered) : ~Last3(answered[j][2])
          BY <1>2, <2>1, <5>2 DEF Pending
        <5>3. CASE Len(proxied.requests) = 0 /\ proxied.part = 0 /\ Len(answered) > 0
                   /\ \A j \in 1..Len(answered) : Last3(answered[j][2]) <=> j = Len(answered)
          <6>1. Len(answered) # 1
            BY <1>2, <4>1, <5>3
          <6>2. Len(t) > 0
            BY <1>2, <6>1
          <6> QED BY <1>2, <5>1, <5>3, <6>2 DEF Pending
        <5> QED BY <3>1, <5>2, <5>3 DEF Pending
      <4>3. GoesOn(installer', t, proxied)
        <5>1. ASSUME installer.op = "browse"
              PROVE  \E q \in 0..n :
                /\ more = Flat[q]
                /\ \A j \in 1..Len(t) : t[j][2] = "error" \/
                     (q + j <= n /\ t[j] = <<installer.id, IF q + j = n THEN "complete" ELSE "part", Parts[q + j]>>)
                /\ Len(proxied.requests) = 1 => proxied.part = q + Len(t)
          <6>1. PICK q \in 0..n :
             /\ q + 1 \in 1..n /\ installer.result = Flat[q] /\ m[3] = Parts[q + 1]
             /\ \A j \in 1..Len(answered) : answered[j][2] = "error" \/
                   (q + j <= n /\ answered[j] = <<installer.id, IF q + j = n THEN "complete" ELSE "part", Parts[q + j]>>)
             /\ Len(proxied.requests) = 1 => proxied.part = q + Len(answered)
            BY <3>2, <5>1
          <6> DEFINE k == q + 1
          <6>2. k \in 0..n /\ k # 0 /\ k - 1 = q
            BY <6>1
          <6>3. more = Flat[k]
            <7>1. Flat[k] = Flat[k - 1] \o Parts[k]
              BY <6>2, FlatIs
            <7> QED BY <5>1, <6>1, <6>2, <7>1 DEF more
          <6>4. ASSUME NEW j \in 1..Len(t)  PROVE t[j][2] = "error" \/
                     (k + j <= n /\ t[j] = <<installer.id, IF k + j = n THEN "complete" ELSE "part", Parts[k + j]>>)
            <7>1. k + j = q + (j + 1)
              BY <6>2
            <7> HIDE DEF k
            <7> QED BY <1>2, <6>1, <7>1
          <6>5. Len(proxied.requests) = 1 => proxied.part = k + Len(t)
            BY <1>2, <6>1
          <6> HIDE DEF k
          <6> QED BY <6>2, <6>3, <6>4, <6>5
        <5>2. installer.op = "install" => \A j \in 1..Len(t) : t[j][2] \in {"progress", "hundred", "complete", "error"}
               /\ (t[j][2] = "complete" => installer.id \in proxied.installed)
          BY <1>2, <3>5
        <5> QED BY <1>10, <2>1, <5>1, <5>2 DEF GoesOn
      <4> QED BY <1>1, <2>1, <3>1, <3>4, <4>2, <4>3 DEF Clean
    <3> QED BY <3>3, <3>4
  <2> QED BY <1>1, <1>2, <2>1, <2>2 DEF PxInv
<1> QED BY <1>5, <1>7, <1>8, <1>9, <1>10

\* An answer to the request that is first.
LEMMA PxServed ==
    ASSUME PxInv, NEW m \in Message, NEW done \in SUBSET Nat, proxied.installed \subseteq done,
           ~proxied.owed, proxied.requests # <<>>, N!Served(m, [proxied EXCEPT !.installed = done]),
           proxied.requests[1].op = "browse" => m[2] = "error" \/
              (proxied.part + 1 <= Len(Parts) /\ m = <<proxied.requests[1].id,
                 IF proxied.part + 1 = Len(Parts) THEN "complete" ELSE "part", Parts[proxied.part + 1]>>),
           proxied.requests[1].op = "lookup" =>
              m[2] = "error" \/ m = <<proxied.requests[1].id, "result", <<proxied.requests[1].id>>>>,
           proxied.requests[1].op = "install" => /\ m[2] \in {"progress", "hundred", "complete", "error"}
                                                 /\ m[2] = "complete" => proxied.requests[1].id \in done
    PROVE  PxInv'
<1> DEFINE q == Append(answered, m)
           rs == IF Last3(m[2]) THEN Tail(proxied.requests) ELSE proxied.requests
           part == IF Last3(m[2]) THEN 0 ELSE proxied.part + 1
           r == proxied.requests[1]
           n == Len(Parts)
<1>1. /\ installer \in Ins /\ answered \in Seq(Message) /\ proxied \in Prx
      /\ installer.at \in {"greeting", "answer"} => installer.op \in N!Op
      /\ ~installer.gaveUp => Clean(installer, answered, proxied)
  BY DEF PxInv
<1>2. /\ q \in Seq(Message) /\ Len(q) = Len(answered) + 1 /\ q[Len(q)] = m /\ Len(answered) \in Nat
      /\ \A j \in 1..Len(q) : (j \in 1..Len(answered) /\ q[j] = answered[j]) \/ (j = Len(q) /\ q[j] = m)
  BY <1>1
<1>3. proxied.requests \in Seq([op : N!Op, id : Nat]) /\ proxied.part \in Nat
  BY <1>1 DEF Prx
<1>4. rs \in Seq([op : N!Op, id : Nat]) /\ part \in Nat /\ (Last3(m[2]) => Len(rs) = Len(proxied.requests) - 1)
  BY <1>3
<1>5. installer' = installer /\ answered' = q
      /\ proxied' = [proxied EXCEPT !.installed = done, !.requests = rs, !.part = part]
  BY <1>1 DEF N!Served, N!Kind, Last3, Prx
<1>6. (~Last3(m[2]) => rs = proxied.requests /\ part = proxied.part + 1) /\ (Last3(m[2]) => part = 0)
  OBVIOUS
<1> HIDE DEF q, rs, part
<1>7. /\ proxied' \in Prx /\ proxied'.requests = rs /\ proxied'.part = part /\ proxied'.owed = proxied.owed
      /\ proxied'.installed = done
  BY <1>1, <1>4, <1>5 DEF Prx
<1>8. ASSUME ~installer.gaveUp  PROVE Clean(installer, q, proxied')
  <2>1. Len(proxied.requests) > 0
    BY <1>3
  <2>2. installer.at = "answer" /\ Pending(installer, answered, proxied) /\ GoesOn(installer, answered, proxied)
    BY <1>1, <1>8, <2>1 DEF Clean, Ins
  <2>3. /\ Len(proxied.requests) = 1 /\ r = [op |-> installer.op, id |-> installer.id]
        /\ \A j \in 1..Len(answered) : ~Last3(answered[j][2])
    BY <2>1, <2>2 DEF Pending
  <2>4. r.op = installer.op /\ r.id = installer.id
    BY <2>3
  <2>5. Pending(installer, q, proxied')
    <3>1. CASE Last3(m[2])
      <4>1. Len(rs) = 0 /\ Len(q) > 0
        BY <1>2, <1>4, <2>3, <3>1
      <4>2. \A j \in 1..Len(answered) : j # Len(q)
        BY <1>2
      <4>3. \A j \in 1..Len(q) : Last3(q[j][2]) <=> j = Len(q)
        BY <1>2, <2>3, <3>1, <4>2
      <4> QED BY <1>6, <1>7, <3>1, <4>1, <4>3 DEF Pending
    <3>2. CASE ~Last3(m[2])
      <4>1. \A j \in 1..Len(q) : ~Last3(q[j][2])
        BY <1>2, <2>3, <3>2
      <4>2. Len(rs) = 1 /\ rs[1] = [op |-> installer.op, id |-> installer.id]
        BY <1>6, <2>3, <3>2
      <4> QED BY <1>7, <4>1, <4>2 DEF Pending
    <3> QED BY <3>1, <3>2
  <2>6. ASSUME installer.op = "browse"
        PROVE  \E k \in 0..n :
                /\ installer.result = Flat[k]
                /\ \A j \in 1..Len(q) : q[j][2] = "error" \/
                     (k + j <= n /\ q[j] = <<installer.id, IF k + j = n THEN "complete" ELSE "part", Parts[k + j]>>)
                /\ Len(rs) = 1 => part = k + Len(q)
    <3>1. PICK k \in 0..n :
                /\ installer.result = Flat[k]
                /\ \A j \in 1..Len(answered) : answered[j][2] = "error" \/
                     (k + j <= n /\ answered[j] = <<installer.id, IF k + j = n THEN "complete" ELSE "part", Parts[k + j]>>)
                /\ Len(proxied.requests) = 1 => proxied.part = k + Len(answered)
      BY <2>2, <2>6 DEF GoesOn
    <3>2. proxied.part + 1 = k + Len(q)
      BY <1>2, <2>3, <3>1
    <3>3. ASSUME NEW j \in 1..Len(q)  PROVE q[j][2] = "error" \/
                     (k + j <= n /\ q[j] = <<installer.id, IF k + j = n THEN "complete" ELSE "part", Parts[k + j]>>)
      <4>1. CASE j \in 1..Len(answered) /\ q[j] = answered[j]
        BY <3>1, <4>1
      <4>2. CASE j = Len(q) /\ q[j] = m
        <5>1. k + j = proxied.part + 1
          BY <3>2, <4>2
        <5> QED BY <2>4, <2>6, <4>2, <5>1
      <4> QED BY <1>2, <4>1, <4>2
    <3>4. Len(rs) = 1 => part = k + Len(q)
      <4>1. Last3(m[2]) => Len(rs) # 1
        BY <1>4, <2>3
      <4> QED BY <1>6, <3>2, <4>1
    <3> QED BY <3>1, <3>3, <3>4
  <2>7. ASSUME installer.op = "lookup", NEW j \in 1..Len(q)
        PROVE  q[j][2] = "error" \/ q[j] = <<installer.id, "result", <<installer.id>>>>
    BY <1>2, <2>2, <2>4, <2>7 DEF GoesOn
  <2>8. ASSUME installer.op = "install", NEW j \in 1..Len(q)
        PROVE  q[j][2] \in {"progress", "hundred", "complete", "error"}
               /\ (q[j][2] = "complete" => installer.id \in done)
    <3>1. \A i \in 1..Len(answered) : answered[i][2] \in {"progress", "hundred", "complete", "error"}
               /\ (answered[i][2] = "complete" => installer.id \in proxied.installed)
      BY <2>2, <2>8, Zenon DEF GoesOn
    <3>2. m[2] \in {"progress", "hundred", "complete", "error"} /\ (m[2] = "complete" => installer.id \in done)
      BY <2>4, <2>8
    <3> QED BY <1>2, <3>1, <3>2
  <2>9. GoesOn(installer, q, proxied')
    <3>1. installer.op = "install" =>
             \A j \in 1..Len(q) : q[j][2] \in {"progress", "hundred", "complete", "error"}
               /\ (q[j][2] = "complete" => installer.id \in done)
      BY <2>8
    <3>2. installer.op = "lookup" =>
             \A j \in 1..Len(q) : q[j][2] = "error" \/ q[j] = <<installer.id, "result", <<installer.id>>>>
      BY <2>7
    <3> QED BY <1>7, <2>6, <3>1, <3>2, Zenon DEF GoesOn
  <2> QED BY <1>7, <2>2, <2>5, <2>9 DEF Clean
<1> QED BY <1>1, <1>2, <1>5, <1>7, <1>8 DEF PxInv

LEMMA PxServes ==
    ASSUME PxInv, N!Serves
    PROVE  PxInv'
<1> DEFINE r == Head(proxied.requests)
           p == proxied.part
<1>1. proxied \in Prx /\ ~proxied.owed /\ proxied.requests # <<>> /\ proxied.requests \in Seq([op : N!Op, id : Nat])
  BY DEF PxInv, Prx, N!Serves
<1>2. r = proxied.requests[1] /\ r.id \in Nat /\ r.op \in N!Op /\ p \in Nat /\ proxied.installed \in SUBSET Nat
  <2>1. r = proxied.requests[1] /\ r \in [op : N!Op, id : Nat]
    <3> DEFINE X == [op : N!Op, id : Nat]
    <3>1. proxied.requests \in Seq(X) /\ proxied.requests # <<>>
      BY <1>1
    <3> HIDE DEF X
    <3>2. Head(proxied.requests) = proxied.requests[1] /\ Head(proxied.requests) \in X
      BY <3>1
    <3> QED BY <3>2 DEF X
  <2>2. r.id \in Nat /\ r.op \in N!Op
    <3> HIDE DEF r
    <3> QED BY <2>1
  <2> QED BY <1>1, <2>1, <2>2 DEF Prx
<1>3. \/ N!Served(<<r.id, "error", <<>>>>, proxied)
      \/ r.op = "lookup" /\ N!Served(<<r.id, "result", <<r.id>>>>, proxied)
      \/ r.op = "browse" /\ p < Len(Parts)
         /\ N!Served(<<r.id, IF p = Len(Parts) - 1 THEN "complete" ELSE "part", Parts[p + 1]>>, proxied)
      \/ r.op = "install" /\ p < 2 /\ N!Served(<<r.id, IF p = 0 THEN "progress" ELSE "hundred", <<>>>>, proxied)
      \/ r.op = "install" /\ p = 2
         /\ N!Served(<<r.id, "complete", <<>>>>, [proxied EXCEPT !.installed = @ \cup {r.id}])
  BY DEF N!Serves
<1> HIDE DEF r
<1>4. proxied = [proxied EXCEPT !.installed = proxied.installed]
  BY <1>1 DEF Prx
<1>5. <<>> \in Seq(Nat) /\ <<r.id>> \in Seq(Nat) /\ Kinds = {"greeting", "error", "result", "part", "complete", "progress", "hundred"}
  BY <1>2 DEF Kinds
<1>6. CASE N!Served(<<r.id, "error", <<>>>>, proxied)
  <2> DEFINE m == <<r.id, "error", <<>>>>
  <2>1. m \in Message /\ m[2] = "error"
    BY <1>2, <1>5 DEF Message
  <2>2. N!Served(m, [proxied EXCEPT !.installed = proxied.installed])
    BY <1>4, <1>6
  <2> HIDE DEF m
  <2> QED BY <1>1, <1>2, <2>1, <2>2, PxServed
<1>7. CASE r.op = "lookup" /\ N!Served(<<r.id, "result", <<r.id>>>>, proxied)
  <2> DEFINE m == <<r.id, "result", <<r.id>>>>
  <2>1. m \in Message /\ m = <<r.id, "result", <<r.id>>>>
    BY <1>2, <1>5 DEF Message
  <2>2. N!Served(m, [proxied EXCEPT !.installed = proxied.installed])
    BY <1>4, <1>7
  <2> HIDE DEF m
  <2> QED BY <1>1, <1>2, <1>7, <2>1, <2>2, PxServed
<1>8. CASE r.op = "browse" /\ p < Len(Parts)
           /\ N!Served(<<r.id, IF p = Len(Parts) - 1 THEN "complete" ELSE "part", Parts[p + 1]>>, proxied)
  <2> DEFINE m == <<r.id, IF p = Len(Parts) - 1 THEN "complete" ELSE "part", Parts[p + 1]>>
  <2>1. Len(Parts) \in Nat /\ p + 1 \in 1..Len(Parts) /\ (p = Len(Parts) - 1 <=> p + 1 = Len(Parts))
    <3>1. Len(Parts) \in Nat /\ p \in Nat /\ p < Len(Parts)
      BY <1>2, <1>8, PartsAssumption
    <3> QED BY <3>1
  <2>2. Parts[p + 1] \in Seq(Nat)
    BY <2>1, PartsAssumption
  <2>3. m \in Message
    BY <1>2, <1>5, <2>2 DEF Message
  <2>4. m = <<r.id, IF p + 1 = Len(Parts) THEN "complete" ELSE "part", Parts[p + 1]>> /\ p + 1 <= Len(Parts)
    BY <2>1
  <2>5. N!Served(m, [proxied EXCEPT !.installed = proxied.installed])
    BY <1>4, <1>8
  <2> HIDE DEF m
  <2> QED BY <1>1, <1>2, <1>8, <2>3, <2>4, <2>5, PxServed
<1>9. CASE r.op = "install" /\ p < 2 /\ N!Served(<<r.id, IF p = 0 THEN "progress" ELSE "hundred", <<>>>>, proxied)
  <2> DEFINE m == <<r.id, IF p = 0 THEN "progress" ELSE "hundred", <<>>>>
  <2>1. m \in Message /\ m[2] \in {"progress", "hundred"}
    BY <1>2, <1>5 DEF Message
  <2>2. N!Served(m, [proxied EXCEPT !.installed = proxied.installed])
    BY <1>4, <1>9
  <2> HIDE DEF m
  <2> QED BY <1>1, <1>2, <1>9, <2>1, <2>2, PxServed
<1>10. CASE r.op = "install" /\ N!Served(<<r.id, "complete", <<>>>>, [proxied EXCEPT !.installed = @ \cup {r.id}])
  <2> DEFINE m == <<r.id, "complete", <<>>>>
             done == proxied.installed \cup {r.id}
  <2>1. m \in Message /\ m[2] = "complete"
    BY <1>2, <1>5 DEF Message
  <2>2. N!Served(m, [proxied EXCEPT !.installed = done])
    BY <1>10
  <2>3. done \in SUBSET Nat /\ proxied.installed \subseteq done /\ r.id \in done
    BY <1>2
  <2> HIDE DEF m, done
  <2> QED BY <1>1, <1>2, <1>10, <2>1, <2>2, <2>3, PxServed
<1> QED BY <1>3, <1>6, <1>7, <1>8, <1>9, <1>10

LEMMA PxStep ==
    ASSUME PxInv, N!ProxyNext
    PROVE  PxInv'
BY PxAsks, PxGreeted, PxReads, PxGreets, PxServes DEF N!ProxyNext

LEMMA PxHolds ==
    ASSUME PxInv
    PROVE  N!AnswersWhole
BY DEF PxInv, Clean, N!AnswersWhole

-----------------------------------------------------------------------------
(* AfcTransfer: every unit that was asked of the device is written, buffered or on the way. *)
AtKinds == F!Reading \cup F!Writing
AtPlaces == {"idle", "resolve", "open", "moving", "remove", "close", "ended"}
AtOp == [kind : AtKinds \cup {"none"}, at : AtPlaces, failed : BOOLEAN, done : Nat, size : Nat, ops : Nat,
         removal : {"none", "done", "failed"}]
AtPump == [left : Nat, buffered : Nat, reading : BOOLEAN, pumping : BOOLEAN, ended : BOOLEAN]
AtDevice == [file : Nat, whole : BOOLEAN, exists : BOOLEAN, handles : Nat, lives : BOOLEAN, refusedClose : BOOLEAN]
AtTyped == transfer \in AtOp /\ pump \in AtPump /\ afcd \in AtDevice

\* A handle is open while units are moved, and until it is closed.
HandleHeld ==
    /\ transfer.at \in {"idle", "resolve", "open"} => afcd.handles = 0
    /\ transfer.at \in {"moving", "remove", "close"} => afcd.handles = 1
    /\ transfer.at = "ended" /\ afcd.handles > 0 => afcd.refusedClose

\* What was read is done or buffered, and was there; what was written is there.
UnitsCounted ==
    /\ F!MovingIn =>
         /\ pump.left <= transfer.size /\ transfer.size - pump.left = transfer.done + pump.buffered
         /\ transfer.size - pump.left <= afcd.file
         /\ pump.ended => pump.left = 0 \/ transfer.size - pump.left = afcd.file
         /\ pump.pumping => pump.left > 0 /\ ~pump.ended
    /\ F!MovingOut => afcd.file = transfer.done /\ transfer.done <= transfer.size
    /\ transfer.kind \in F!Reading => afcd.whole

OutcomeKept ==
    /\ transfer.at \in {"resolve", "open", "moving"} => ~transfer.failed
    /\ transfer.at \in {"resolve", "open"} => afcd.whole /\ transfer.done = 0
    /\ transfer.at # "idle" => transfer.kind \in AtKinds
    /\ transfer.at = "remove" => transfer.failed /\ transfer.kind \in F!Writing
    /\ transfer.at \in {"close", "ended"} =>
         /\ ~transfer.failed => transfer.done = F!Least(transfer.size, afcd.file) /\ afcd.whole
         /\ transfer.failed /\ ~afcd.whole => ~afcd.exists \/ transfer.removal = "failed"

AtInv == AtTyped /\ HandleHeld /\ UnitsCounted /\ OutcomeKept /\ F!ReadServed

LEMMA AtInitInv ==
    ASSUME F!AtInit
    PROVE  AtInv
  BY DEF F!AtInit, F!NoPump, AtInv, AtTyped, AtOp, AtPump, AtDevice, AtKinds, AtPlaces, HandleHeld, UnitsCounted, OutcomeKept, F!ReadServed,
         F!MovingIn, F!MovingOut, F!Reading, F!Writing

LEMMA AtStarts ==
    ASSUME AtInv, NEW kind \in AtKinds, NEW size \in 0..AfcSize, F!Starts(kind, size)
    PROVE  AtInv'
<1> USE DEF AtInv
<1>1. size \in Nat
  BY TransferBounds
<1> DEFINE at == IF kind \in F!Reading THEN "resolve" ELSE "open"
<1>2. /\ transfer.at = "idle" /\ pump' = F!NoPump
      /\ transfer' = [kind |-> kind, at |-> at, failed |-> FALSE, done |-> 0, size |-> size,
                      ops |-> transfer.ops + 1, removal |-> "none"]
      /\ afcd' = [afcd EXCEPT !.file = IF kind \in F!Reading THEN size ELSE @, !.refusedClose = FALSE,
                            !.exists = kind \in F!Reading \/ @, !.whole = TRUE]
  BY DEF F!Starts
<1>3. AtTyped'
  <2>1. transfer' \in AtOp
    <3>1. transfer.ops + 1 \in Nat /\ at \in {"resolve", "open"}
      BY DEF AtTyped, AtOp
    <3> HIDE DEF at
    <3> QED BY <1>1, <1>2, <3>1 DEF AtOp, AtPlaces
  <2>2. pump' \in AtPump
    BY <1>2 DEF AtPump, F!NoPump
  <2>4. afcd' \in AtDevice
    <3>1. CASE kind \in F!Reading
      BY <1>1, <1>2, <3>1 DEF AtTyped, AtDevice
    <3>2. CASE kind \notin F!Reading
      BY <1>1, <1>2, <3>2 DEF AtTyped, AtDevice
    <3> QED BY <3>1, <3>2
  <2> QED BY <2>1, <2>2, <2>4 DEF AtTyped
<1>4. HandleHeld' /\ UnitsCounted' /\ OutcomeKept' /\ F!ReadServed'
  BY <1>2 DEF AtTyped, AtOp, AtPump, AtDevice, HandleHeld, UnitsCounted, OutcomeKept, F!ReadServed, F!MovingIn, F!MovingOut
<1> QED BY <1>3, <1>4

LEMMA AtMoves ==
    ASSUME AtInv,
           F!Resolves \/ F!Opens \/ F!OpenFails \/ F!MoveFails \/ F!Removes \/ F!RemovalFails \/ F!Closes \/ F!CloseFails
             \/ F!Returns \/ F!Shrinks \/ F!Dies
    PROVE  AtInv'
<1> USE DEF AtInv
<1>1. CASE F!Resolves
  <2>1. AtTyped'
    BY <1>1 DEF F!Resolves, AtTyped, AtOp, AtPump, AtDevice, AtPlaces, F!Goto
  <2>2. HandleHeld' /\ OutcomeKept'
    BY <1>1 DEF F!Resolves, AtTyped, AtOp, AtPump, AtDevice, HandleHeld, UnitsCounted, OutcomeKept, F!MovingIn, F!MovingOut, F!Goto
  <2>3. UnitsCounted' /\ F!ReadServed'
    BY <1>1 DEF F!Resolves, AtTyped, AtOp, AtPump, AtDevice, UnitsCounted, OutcomeKept, F!ReadServed, F!MovingIn, F!MovingOut, F!Goto
  <2> QED BY <2>1, <2>2, <2>3
<1>2. CASE F!Opens
  <2>1. AtTyped'
    <3>1. transfer' \in AtOp
      BY <1>2 DEF F!Opens, AtTyped, AtOp, AtPlaces
    <3>2. pump' \in AtPump
      BY <1>2 DEF F!Opens, AtTyped, AtOp, AtPump, F!NoPump
    <3>3. ASSUME transfer.kind \in F!Reading  PROVE afcd' \in AtDevice
      <4>1. (transfer.kind \in F!Reading) = TRUE
        BY <3>3
      <4>2. afcd' = [afcd EXCEPT !.handles = @ + 1, !.exists = TRUE, !.whole = TRUE, !.file = @]
        <5>1. (IF transfer.kind \in F!Reading THEN afcd.file ELSE 0) = afcd.file
          BY <3>3
        <5> QED BY <1>2, <4>1, <5>1, Zenon DEF F!Opens
      <4>3. afcd \in AtDevice /\ afcd.handles + 1 \in Nat /\ afcd.file \in Nat
        BY DEF AtTyped, AtDevice
      <4> HIDE DEF AtInv
      <4>5. afcd' \in AtDevice
        BY <4>2, <4>3 DEF AtDevice
      <4> QED BY <4>5
    <3>4. ASSUME transfer.kind \notin F!Reading  PROVE afcd' \in AtDevice
      <4>1. (transfer.kind \in F!Reading) = FALSE
        BY <3>4
      <4>2. afcd' = [afcd EXCEPT !.handles = @ + 1, !.exists = TRUE, !.whole = FALSE, !.file = 0]
        <5>1. (IF transfer.kind \in F!Reading THEN afcd.file ELSE 0) = 0
          BY <3>4
        <5> QED BY <1>2, <4>1, <5>1, Zenon DEF F!Opens
      <4>3. afcd \in AtDevice /\ afcd.handles + 1 \in Nat /\ afcd.file \in Nat
        BY DEF AtTyped, AtDevice
      <4> HIDE DEF AtInv
      <4>5. afcd' \in AtDevice
        BY <4>2, <4>3 DEF AtDevice
      <4> QED BY <4>5
    <3>5. afcd' \in AtDevice
      BY <3>3, <3>4
    <3> QED BY <3>1, <3>2, <3>5 DEF AtTyped
  <2>2. HandleHeld' /\ OutcomeKept'
    BY <1>2 DEF F!Opens, AtTyped, AtOp, AtPump, AtDevice, HandleHeld, UnitsCounted, OutcomeKept, F!MovingIn, F!MovingOut, F!NoPump, AtKinds, F!Reading, F!Writing
  <2>3. UnitsCounted' /\ F!ReadServed'
    BY <1>2 DEF F!Opens, AtTyped, AtOp, AtPump, AtDevice, UnitsCounted, OutcomeKept, F!ReadServed, F!MovingIn, F!MovingOut, F!NoPump, AtKinds, F!Reading, F!Writing
  <2> QED BY <2>1, <2>2, <2>3
<1>3. CASE F!OpenFails
  <2>1. AtTyped'
    BY <1>3 DEF F!OpenFails, AtTyped, AtOp, AtPump, AtDevice, AtPlaces
  <2>2. HandleHeld' /\ OutcomeKept'
    BY <1>3 DEF F!OpenFails, AtTyped, AtOp, AtPump, AtDevice, HandleHeld, UnitsCounted, OutcomeKept, F!MovingIn, F!MovingOut
  <2>3. UnitsCounted' /\ F!ReadServed'
    BY <1>3 DEF F!OpenFails, AtTyped, AtOp, AtPump, AtDevice, UnitsCounted, OutcomeKept, F!ReadServed, F!MovingIn, F!MovingOut
  <2> QED BY <2>1, <2>2, <2>3
<1>4. CASE F!MoveFails
  <2>1. AtTyped'
    BY <1>4 DEF F!MoveFails, AtTyped, AtOp, AtPump, AtDevice, AtPlaces, F!AfterFailure, AtKinds, F!Reading, F!Writing
  <2>2. HandleHeld' /\ OutcomeKept'
    BY <1>4 DEF F!MoveFails, AtTyped, AtOp, AtPump, AtDevice, HandleHeld, UnitsCounted, OutcomeKept, F!MovingIn, F!MovingOut, F!AfterFailure, AtKinds, F!Reading, F!Writing
  <2>3. UnitsCounted' /\ F!ReadServed'
    BY <1>4 DEF F!MoveFails, AtTyped, AtOp, AtPump, AtDevice, UnitsCounted, OutcomeKept, F!ReadServed, F!MovingIn, F!MovingOut, F!AfterFailure, AtKinds, F!Reading, F!Writing
  <2> QED BY <2>1, <2>2, <2>3
<1>5. CASE F!Removes
  <2>1. AtTyped'
    BY <1>5 DEF F!Removes, AtTyped, AtOp, AtPump, AtDevice, AtPlaces, AtKinds, F!Reading, F!Writing
  <2>2. HandleHeld' /\ OutcomeKept'
    BY <1>5 DEF F!Removes, AtTyped, AtOp, AtPump, AtDevice, HandleHeld, UnitsCounted, OutcomeKept, F!MovingIn, F!MovingOut, AtKinds, F!Reading, F!Writing
  <2>3. UnitsCounted' /\ F!ReadServed'
    BY <1>5 DEF F!Removes, AtTyped, AtOp, AtPump, AtDevice, UnitsCounted, OutcomeKept, F!ReadServed, F!MovingIn, F!MovingOut, AtKinds, F!Reading, F!Writing
  <2> QED BY <2>1, <2>2, <2>3
<1>6. CASE F!RemovalFails
  <2>1. AtTyped'
    BY <1>6 DEF F!RemovalFails, AtTyped, AtOp, AtPump, AtDevice, AtPlaces, AtKinds, F!Reading, F!Writing
  <2>2. HandleHeld' /\ OutcomeKept'
    BY <1>6 DEF F!RemovalFails, AtTyped, AtOp, AtPump, AtDevice, HandleHeld, UnitsCounted, OutcomeKept, F!MovingIn, F!MovingOut, AtKinds, F!Reading, F!Writing
  <2>3. UnitsCounted' /\ F!ReadServed'
    BY <1>6 DEF F!RemovalFails, AtTyped, AtOp, AtPump, AtDevice, UnitsCounted, OutcomeKept, F!ReadServed, F!MovingIn, F!MovingOut, AtKinds, F!Reading, F!Writing
  <2> QED BY <2>1, <2>2, <2>3
<1>7. CASE F!Closes
  <2>1. AtTyped'
    BY <1>7 DEF F!Closes, HandleHeld, AtTyped, AtOp, AtPump, AtDevice, AtPlaces, F!Goto
  <2>2. HandleHeld' /\ OutcomeKept'
    BY <1>7 DEF F!Closes, AtTyped, AtOp, AtPump, AtDevice, HandleHeld, UnitsCounted, OutcomeKept, F!MovingIn, F!MovingOut, F!Goto
  <2>3. UnitsCounted' /\ F!ReadServed'
    BY <1>7 DEF F!Closes, AtTyped, AtOp, AtPump, AtDevice, UnitsCounted, OutcomeKept, F!ReadServed, F!MovingIn, F!MovingOut, F!Goto
  <2> QED BY <2>1, <2>2, <2>3
<1>8. CASE F!CloseFails
  <2>1. AtTyped'
    BY <1>8 DEF F!CloseFails, AtTyped, AtOp, AtPump, AtDevice, AtPlaces
  <2>2. HandleHeld' /\ OutcomeKept'
    BY <1>8 DEF F!CloseFails, AtTyped, AtOp, AtPump, AtDevice, HandleHeld, UnitsCounted, OutcomeKept, F!MovingIn, F!MovingOut
  <2>3. UnitsCounted' /\ F!ReadServed'
    BY <1>8 DEF F!CloseFails, AtTyped, AtOp, AtPump, AtDevice, UnitsCounted, OutcomeKept, F!ReadServed, F!MovingIn, F!MovingOut
  <2> QED BY <2>1, <2>2, <2>3
<1>9. CASE F!Returns
  <2>1. AtTyped'
    BY <1>9 DEF F!Returns, AtTyped, AtOp, AtPump, AtDevice, AtPlaces, F!Goto, F!NoPump
  <2>2. HandleHeld' /\ OutcomeKept'
    BY <1>9 DEF F!Returns, AtTyped, AtOp, AtPump, AtDevice, HandleHeld, UnitsCounted, OutcomeKept, F!MovingIn, F!MovingOut, F!Goto, F!NoPump
  <2>3. UnitsCounted' /\ F!ReadServed'
    BY <1>9 DEF F!Returns, AtTyped, AtOp, AtPump, AtDevice, UnitsCounted, OutcomeKept, F!ReadServed, F!MovingIn, F!MovingOut, F!Goto, F!NoPump
  <2> QED BY <2>1, <2>2, <2>3
<1>10. CASE F!Shrinks
  <2>1. AtTyped'
    BY <1>10 DEF F!Shrinks, AtTyped, AtOp, AtPump, AtDevice, AtPlaces, AtKinds, F!Reading, F!Writing
  <2>2. HandleHeld' /\ OutcomeKept'
    BY <1>10 DEF F!Shrinks, AtTyped, AtOp, AtPump, AtDevice, HandleHeld, UnitsCounted, OutcomeKept, F!MovingIn, F!MovingOut, AtKinds, F!Reading, F!Writing
  <2>3. UnitsCounted' /\ F!ReadServed'
    BY <1>10 DEF F!Shrinks, AtTyped, AtOp, AtPump, AtDevice, UnitsCounted, OutcomeKept, F!ReadServed, F!MovingIn, F!MovingOut, AtKinds, F!Reading, F!Writing
  <2> QED BY <2>1, <2>2, <2>3
<1>11. CASE F!Dies
  <2>1. AtTyped'
    BY <1>11 DEF F!Dies, AtTyped, AtOp, AtPump, AtDevice, AtPlaces
  <2>2. HandleHeld' /\ OutcomeKept'
    BY <1>11 DEF F!Dies, AtTyped, AtOp, AtPump, AtDevice, HandleHeld, UnitsCounted, OutcomeKept, F!MovingIn, F!MovingOut
  <2>3. UnitsCounted' /\ F!ReadServed'
    BY <1>11 DEF F!Dies, AtTyped, AtOp, AtPump, AtDevice, UnitsCounted, OutcomeKept, F!ReadServed, F!MovingIn, F!MovingOut
  <2> QED BY <2>1, <2>2, <2>3
<1> QED BY <1>1, <1>2, <1>3, <1>4, <1>5, <1>6, <1>7, <1>8, <1>9, <1>10, <1>11

LEMMA AtPumps ==
    ASSUME AtInv, F!Asks \/ F!Consumes \/ F!ReadEnds \/ F!Writes \/ F!WriteEnds
    PROVE  AtInv'
<1> USE DEF AtInv
<1>1. CASE F!Asks
  <2>1. AtTyped'
    BY <1>1 DEF F!Asks, AtTyped, AtOp, AtPump, AtDevice, AtPlaces, AtKinds, F!Reading, F!Writing
  <2>2. HandleHeld' /\ OutcomeKept'
    BY <1>1 DEF F!Asks, AtTyped, AtOp, AtPump, AtDevice, HandleHeld, UnitsCounted, OutcomeKept, F!MovingIn, F!MovingOut, AtKinds, F!Reading, F!Writing
  <2>3. UnitsCounted' /\ F!ReadServed'
    BY <1>1 DEF F!Asks, AtTyped, AtOp, AtPump, AtDevice, UnitsCounted, OutcomeKept, F!ReadServed, F!MovingIn, F!MovingOut, AtKinds, F!Reading, F!Writing
  <2> QED BY <2>1, <2>2, <2>3
<1>2. CASE F!Consumes
  <2>1. AtTyped'
    BY <1>2 DEF F!Consumes, AtTyped, AtOp, AtPump, AtDevice, AtPlaces, AtKinds, F!Reading, F!Writing
  <2>2. HandleHeld' /\ OutcomeKept'
    BY <1>2 DEF F!Consumes, AtTyped, AtOp, AtPump, AtDevice, HandleHeld, UnitsCounted, OutcomeKept, F!MovingIn, F!MovingOut, AtKinds, F!Reading, F!Writing
  <2>3. UnitsCounted' /\ F!ReadServed'
    BY <1>2 DEF F!Consumes, AtTyped, AtOp, AtPump, AtDevice, UnitsCounted, OutcomeKept, F!ReadServed, F!MovingIn, F!MovingOut, AtKinds, F!Reading, F!Writing
  <2> QED BY <2>1, <2>2, <2>3
<1>3. CASE F!ReadEnds
  <2>1. AtTyped'
    BY <1>3 DEF F!ReadEnds, AtTyped, AtOp, AtPump, AtDevice, AtPlaces, F!Goto, F!Least, AtKinds, F!Reading, F!Writing
  <2>2. HandleHeld' /\ OutcomeKept'
    BY <1>3 DEF F!ReadEnds, AtTyped, AtOp, AtPump, AtDevice, HandleHeld, UnitsCounted, OutcomeKept, F!MovingIn, F!MovingOut, F!Goto, F!Least, AtKinds, F!Reading, F!Writing
  <2>3. UnitsCounted' /\ F!ReadServed'
    BY <1>3 DEF F!ReadEnds, AtTyped, AtOp, AtPump, AtDevice, UnitsCounted, OutcomeKept, F!ReadServed, F!MovingIn, F!MovingOut, F!Goto, F!Least, AtKinds, F!Reading, F!Writing
  <2> QED BY <2>1, <2>2, <2>3
<1>4. CASE F!Writes
  <2>1. AtTyped'
    BY <1>4, TransferBounds DEF F!Writes, AtTyped, AtOp, AtPump, AtDevice, AtPlaces, F!Least, AtKinds, F!Reading, F!Writing
  <2>2. HandleHeld' /\ OutcomeKept'
    BY <1>4, TransferBounds DEF F!Writes, AtTyped, AtOp, AtPump, AtDevice, HandleHeld, UnitsCounted, OutcomeKept, F!MovingIn, F!MovingOut, F!Least, AtKinds, F!Reading, F!Writing
  <2>3. UnitsCounted' /\ F!ReadServed'
    BY <1>4, TransferBounds DEF F!Writes, AtTyped, AtOp, AtPump, AtDevice, UnitsCounted, OutcomeKept, F!ReadServed, F!MovingIn, F!MovingOut, F!Least, AtKinds, F!Reading, F!Writing
  <2> QED BY <2>1, <2>2, <2>3
<1>5. CASE F!WriteEnds
  <2>1. AtTyped'
    BY <1>5 DEF F!WriteEnds, AtTyped, AtOp, AtPump, AtDevice, AtPlaces, F!Goto, F!Least, AtKinds, F!Reading, F!Writing
  <2>2. HandleHeld' /\ OutcomeKept'
    BY <1>5 DEF F!WriteEnds, AtTyped, AtOp, AtPump, AtDevice, HandleHeld, UnitsCounted, OutcomeKept, F!MovingIn, F!MovingOut, F!Goto, F!Least, AtKinds, F!Reading, F!Writing
  <2>3. UnitsCounted' /\ F!ReadServed'
    BY <1>5 DEF F!WriteEnds, AtTyped, AtOp, AtPump, AtDevice, UnitsCounted, OutcomeKept, F!ReadServed, F!MovingIn, F!MovingOut, F!Goto, F!Least, AtKinds, F!Reading, F!Writing
  <2> QED BY <2>1, <2>2, <2>3
<1> QED BY <1>1, <1>2, <1>3, <1>4, <1>5

LEMMA AtComes ==
    ASSUME AtInv, NEW n \in 0..AfcChunk, F!Comes(n)
    PROVE  AtInv'
<1> USE DEF AtInv
<1>1. n \in Nat /\ AfcChunk \in Nat /\ ReadAhead \in Nat
  BY TransferBounds
<1> DEFINE asked == F!Least(pump.left, AfcChunk)
           full == pump.buffered + n >= ReadAhead
<1>2. /\ F!MovingIn /\ pump.pumping /\ pump.left > 0 /\ n = F!Least(asked, afcd.file - (transfer.size - pump.left))
      /\ pump' = [pump EXCEPT !.left = @ - n, !.buffered = @ + n, !.reading = FALSE,
                      !.ended = n < asked \/ (~full /\ pump.left = n),
                      !.pumping = ~full /\ n = asked /\ pump.left > n]
      /\ UNCHANGED <<transfer, afcd>>
  BY DEF F!Comes, F!StillPumping
<1>3. /\ n <= pump.left /\ n <= afcd.file - (transfer.size - pump.left) /\ n <= asked
      /\ n < asked => n = afcd.file - (transfer.size - pump.left)
  BY <1>1, <1>2 DEF F!Least, AtTyped, AtOp, AtPump, AtDevice, UnitsCounted
<1> HIDE DEF asked, full
<1>4. AtTyped'
  <2>1. PICK e \in BOOLEAN : e = (n < asked \/ (~full /\ pump.left = n))
    OBVIOUS
  <2>2. PICK p \in BOOLEAN : p = (~full /\ n = asked /\ pump.left > n)
    OBVIOUS
  <2>3. pump.left - n \in Nat /\ pump.buffered + n \in Nat
    BY <1>1, <1>3 DEF AtTyped, AtPump
  <2>4. pump' \in AtPump
    BY <1>2, <2>1, <2>2, <2>3 DEF AtTyped, AtPump
  <2> QED BY <1>2, <2>4 DEF AtTyped
<1>5. HandleHeld' /\ OutcomeKept'
  BY <1>2 DEF HandleHeld, OutcomeKept
<1>6. UnitsCounted' /\ F!ReadServed'
  BY <1>1, <1>2, <1>3 DEF AtTyped, AtOp, AtPump, AtDevice, UnitsCounted, F!ReadServed, F!MovingIn, F!MovingOut, F!Reading, F!Writing
<1> QED BY <1>4, <1>5, <1>6

LEMMA AtStep ==
    ASSUME AtInv, F!AtNext
    PROVE  AtInv'
  BY AtStarts, AtMoves, AtPumps, AtComes DEF F!AtNext, AtKinds

LEMMA AtHolds ==
    ASSUME AtInv
    PROVE  F!ReadServed /\ F!EndsClean
  BY DEF AtInv, HandleHeld, OutcomeKept, F!EndsClean
-----------------------------------------------------------------------------
(* AfcTree: what rm has still to do, and where pull has written. *)
Entry == D!Entries
Held(d) == {Listed[d][i] : i \in 1..Len(Listed[d])}

LEMMA HeldIs ==
    ASSUME NEW d \in DOMAIN Listed
    PROVE  /\ Listed[d] \in Seq(DOMAIN SafeNames) /\ DOMAIN Listed[d] = 1..Len(Listed[d])
           /\ Held(d) \subseteq Entry /\ D!Range(Listed[d]) = Held(d)
<1>1. Listed[d] \in Seq(DOMAIN SafeNames)
  BY TreeAssumption
<1>2. DOMAIN Listed[d] = 1..Len(Listed[d])
  BY <1>1
<1>3. \A i \in 1..Len(Listed[d]) : Listed[d][i] \in DOMAIN SafeNames
  BY <1>1
<1>4. D!Range(Listed[d]) = Held(d)
  BY <1>2 DEF D!Range, Held
<1> QED BY <1>1, <1>2, <1>3, <1>4 DEF Held, Entry, D!Entries

LEMMA ClosedIs ==
    ASSUME NEW S
    PROVE  D!Closed(S) <=> \A d \in S \cap DOMAIN Listed : Held(d) \subseteq S
  BY HeldIs DEF D!Closed, D!IsDir

LEMMA BelowLeast ==
    ASSUME NEW e, NEW S \in SUBSET Entry, e \in S, D!Closed(S)
    PROVE  D!Below(e) \subseteq S
  BY DEF D!Below, Entry

LEMMA BelowClosed ==
    ASSUME NEW e \in Entry
    PROVE  e \in D!Below(e) /\ D!Below(e) \subseteq Entry /\ D!Closed(D!Below(e))
<1>1. e \in D!Below(e) /\ D!Below(e) \subseteq Entry
  BY DEF D!Below, Entry
<1>2. ASSUME NEW d \in D!Below(e) \cap DOMAIN Listed, NEW c \in Held(d)
      PROVE  c \in D!Below(e)
  <2>1. c \in Entry
    BY HeldIs
  <2>2. ASSUME NEW S \in SUBSET Entry, e \in S, D!Closed(S)
        PROVE  c \in S
    <3>1. d \in S
      BY <2>2 DEF D!Below, Entry
    <3> QED BY <2>2, <3>1, ClosedIs
  <2> QED BY <2>1, <2>2 DEF D!Below, Entry
<1> QED BY <1>1, <1>2, ClosedIs

\* A file is alone; below a directory is what is below one that it lists.
LEMMA BelowFile ==
    ASSUME NEW e \in Entry, e \notin DOMAIN Listed
    PROVE  D!Below(e) = {e}
<1>1. D!Closed({e})
  BY ClosedIs
<1> QED BY <1>1, BelowLeast, BelowClosed

LEMMA BelowDirectory ==
    ASSUME NEW d \in Entry, d \in DOMAIN Listed
    PROVE  D!Below(d) = {d} \cup UNION {D!Below(Listed[d][i]) : i \in 1..Len(Listed[d])}
<1> DEFINE R == {d} \cup UNION {D!Below(Listed[d][i]) : i \in 1..Len(Listed[d])}
<1>1. \A i \in 1..Len(Listed[d]) : Listed[d][i] \in Entry /\ Listed[d][i] \in Held(d)
  BY HeldIs DEF Held
<1>2. R \subseteq Entry
  BY <1>1, BelowClosed
<1>3. \A i \in 1..Len(Listed[d]) : D!Below(Listed[d][i]) \subseteq D!Below(d)
  <2> TAKE i \in 1..Len(Listed[d])
  <2>1. Listed[d][i] \in D!Below(d)
    BY <1>1, BelowClosed, ClosedIs
  <2> QED BY <2>1, BelowClosed, BelowLeast
<1>4. R \subseteq D!Below(d)
  BY <1>3, BelowClosed
<1>5. ASSUME NEW e \in R \cap DOMAIN Listed
      PROVE  Held(e) \subseteq R
  <2>1. CASE e = d
    BY <2>1, <1>1, BelowClosed DEF Held
  <2>2. CASE e # d
    <3>1. PICK i \in 1..Len(Listed[d]) : e \in D!Below(Listed[d][i])
      BY <2>2
    <3>2. Held(e) \subseteq D!Below(Listed[d][i])
      BY <3>1, <1>1, BelowClosed, ClosedIs
    <3> QED BY <3>2
  <2> QED BY <2>1, <2>2
<1>6. D!Closed(R)
  BY <1>5, ClosedIs
<1>7. d \in R
  OBVIOUS
<1> HIDE DEF R
<1>8. D!Below(d) \subseteq R
  BY <1>2, <1>6, <1>7, BelowLeast
<1>9. D!Below(d) = R
  BY <1>4, <1>8
<1> QED BY <1>9 DEF R

\* What is below an entry is the entry or listed by something below it.
LEMMA BelowHeld ==
    ASSUME NEW e \in Entry, NEW z \in D!Below(e), z # e
    PROVE  \E p \in D!Below(e) \cap DOMAIN Listed : z \in Held(p)
<1> SUFFICES ASSUME \A p \in D!Below(e) \cap DOMAIN Listed : z \notin Held(p)
             PROVE  FALSE
  OBVIOUS
<1> DEFINE S == D!Below(e) \ {z}
<1>1. S \in SUBSET Entry /\ e \in S
  BY BelowClosed
<1>2. D!Closed(S)
  BY BelowClosed, ClosedIs
<1>3. z \notin S
  OBVIOUS
<1> HIDE DEF S
<1> QED BY <1>1, <1>2, <1>3, BelowLeast

LEMMA OneHolder ==
    ASSUME NEW d \in DOMAIN Listed, NEW p \in DOMAIN Listed, NEW z \in Held(d), z \in Held(p)
    PROVE  d = p
  BY TreeAssumption, HeldIs DEF Held

LEMMA SiblingsApart ==
    ASSUME NEW d \in Entry, d \in DOMAIN Listed,
           NEW i \in 1..Len(Listed[d]), NEW j \in 1..Len(Listed[d]), i # j
    PROVE  D!Below(Listed[d][i]) \cap D!Below(Listed[d][j]) = {}
<1> DEFINE a == Listed[d][i]
           b == Listed[d][j]
           S == D!Below(a) \ D!Below(b)
<1>1. a \in Held(d) /\ b \in Held(d) /\ a \in Entry /\ b \in Entry /\ a # b
  BY HeldIs, TreeAssumption DEF Held
<1>2. d \notin D!Below(a) /\ d \notin D!Below(b)
  BY HeldIs, TreeAssumption
<1> HIDE DEF a, b
<1>3. ASSUME NEW p \in DOMAIN Listed, NEW y \in Held(p), y \in D!Below(b), p \notin D!Below(b)
      PROVE  y = b /\ p = d
  BY <1>1, <1>3, BelowHeld, OneHolder
<1>4. a \in S
  BY <1>1, <1>2, <1>3, BelowClosed
<1>5. ASSUME NEW p \in S \cap DOMAIN Listed, NEW y \in Held(p)
      PROVE  y \in S
  BY <1>1, <1>2, <1>3, BelowClosed, ClosedIs
<1>6. D!Closed(S) /\ S \in SUBSET Entry
  BY <1>1, <1>5, BelowClosed, ClosedIs
<1>7. S \cap D!Below(b) = {}
  OBVIOUS
<1> HIDE DEF S
<1>8. D!Below(a) \cap D!Below(b) = {}
  BY <1>4, <1>6, <1>7, BelowLeast
<1> QED BY <1>8 DEF a, b

-----------------------------------------------------------------------------
(* rm: the frames, and what each has still to remove.                        *)

RmFrame == [dir : Entry \cap DOMAIN Listed, todo : Seq(DOMAIN SafeNames)]
Share(f) == {f.dir} \cup UNION {D!Below(f.todo[i]) : i \in 1..Len(f.todo)}
Split(f) ==
    \A i \in 1..Len(f.todo) :
        /\ f.dir \notin D!Below(f.todo[i])
        /\ \A j \in 1..Len(f.todo) : i # j => D!Below(f.todo[i]) \cap D!Below(f.todo[j]) = {}
Spread(st) ==
    /\ \A i \in 1..Len(st) : Split(st[i])
    /\ \A i, j \in 1..Len(st) : i # j => Share(st[i]) \cap Share(st[j]) = {}
ToGo(st) == UNION {Share(st[i]) : i \in 1..Len(st)}

LEMMA FrontIs ==
    ASSUME NEW S, NEW s \in Seq(S), s # <<>>
    PROVE  /\ D!Front(s) \in Seq(S) /\ Len(D!Front(s)) = Len(s) - 1 /\ D!Last(s) \in S /\ D!Last(s) = s[Len(s)]
           /\ \A i \in 1..(Len(s) - 1) : D!Front(s)[i] = s[i]
<1>1. Len(s) \in Nat /\ Len(s) >= 1 /\ Len(s) - 1 \in Int /\ \A i \in 1..Len(s) : s[i] \in S
  OBVIOUS
<1>2. \A i \in 1..(Len(s) - 1) : s[i] \in S
  BY <1>1
<1> DEFINE n == Len(s) - 1
<1>3. n \in Int /\ n >= 0
  BY <1>1
<1>4. D!Front(s) = SubSeq(s, 1, n)
  BY DEF D!Front
<1> HIDE DEF n
<1>5. /\ SubSeq(s, 1, n) \in Seq(S) /\ Len(SubSeq(s, 1, n)) = IF 1 <= n THEN n - 1 + 1 ELSE 0
      /\ \A i \in 1..(n - 1 + 1) : SubSeq(s, 1, n)[i] = s[1 + i - 1]
  <2>1. \A i \in 1..n : s[i] \in S
    BY <1>2 DEF n
  <2> QED BY <1>3, <2>1, SubSeqProperties
<1>6. D!Front(s) \in Seq(S) /\ Len(D!Front(s)) = n /\ \A i \in 1..n : D!Front(s)[i] = s[i]
  BY <1>3, <1>4, <1>5
<1>7. D!Last(s) \in S /\ D!Last(s) = s[Len(s)]
  BY <1>1 DEF D!Last
<1> QED BY <1>6, <1>7 DEF n

LEMMA Pushed ==
    ASSUME NEW st \in Seq(RmFrame), NEW f \in RmFrame, Spread(st), Split(f), Share(f) \cap ToGo(st) = {}
    PROVE  /\ Append(st, f) \in Seq(RmFrame) /\ Spread(Append(st, f))
           /\ ToGo(Append(st, f)) = ToGo(st) \cup Share(f)
<1> DEFINE s == Append(st, f)
<1>1. /\ s \in Seq(RmFrame) /\ Len(s) = Len(st) + 1 /\ s[Len(st) + 1] = f
      /\ \A i \in 1..Len(st) : s[i] = st[i]
  OBVIOUS
<1>2. Len(st) \in Nat /\ 1..Len(s) = 1..Len(st) \cup {Len(st) + 1}
  BY <1>1
<1> HIDE DEF s
<1>3. ToGo(s) = ToGo(st) \cup Share(f)
  BY <1>1, <1>2 DEF ToGo
<1>4. \A i \in 1..Len(st) : Share(st[i]) \cap Share(f) = {}
  BY DEF ToGo
<1>5. Spread(s)
  BY <1>1, <1>2, <1>4 DEF Spread
<1> QED BY <1>1, <1>3, <1>5 DEF s

LEMMA Peeled ==
    ASSUME NEW st \in Seq(RmFrame), st # <<>>, Spread(st)
    PROVE  /\ D!Front(st) \in Seq(RmFrame) /\ Spread(D!Front(st)) /\ D!Last(st) \in RmFrame /\ Split(D!Last(st))
           /\ ToGo(st) = ToGo(D!Front(st)) \cup Share(D!Last(st))
           /\ Share(D!Last(st)) \cap ToGo(D!Front(st)) = {}
           /\ Len(st) = 1 <=> D!Front(st) = <<>>
<1> DEFINE s == D!Front(st)
           f == D!Last(st)
           n == Len(st)
<1>1. n \in Nat /\ n > 0 /\ n - 1 \in Nat
  OBVIOUS
<1>2. f = st[n] /\ f \in RmFrame
  BY <1>1 DEF D!Last
<1>3. s \in Seq(RmFrame) /\ Len(s) = n - 1 /\ \A i \in 1..(n - 1) : s[i] = st[i]
  BY FrontIs
<1>4. 1..n = 1..(n - 1) \cup {n} /\ n \notin 1..(n - 1)
  BY <1>1
<1>5. n = 1 <=> s = <<>>
  BY <1>1, <1>3
<1> HIDE DEF s, f
<1>6. ToGo(st) = ToGo(s) \cup Share(f)
  BY <1>2, <1>3, <1>4 DEF ToGo
<1>7. \A i \in 1..(n - 1) : Share(st[i]) \cap Share(f) = {}
  BY <1>2, <1>4 DEF Spread
<1>8. Share(f) \cap ToGo(s) = {}
  BY <1>3, <1>7 DEF ToGo
<1>9. Spread(s) /\ Split(f)
  BY <1>2, <1>3, <1>4 DEF Spread
<1> QED BY <1>2, <1>3, <1>5, <1>6, <1>8, <1>9 DEF s, f

LEMMA Advanced ==
    ASSUME NEW f \in RmFrame, Split(f), f.todo # <<>>, NEW g, g = [f EXCEPT !.todo = Tail(@)]
    PROVE  /\ g \in RmFrame /\ Split(g) /\ Head(f.todo) \in Entry
           /\ Share(f) = Share(g) \cup D!Below(Head(f.todo))
           /\ Share(g) \cap D!Below(Head(f.todo)) = {}
<1> DEFINE q == f.todo
           n == Len(q)
<1>1. q \in Seq(DOMAIN SafeNames) /\ f.dir \in DOMAIN Listed /\ q # <<>>
  BY DEF RmFrame
<1>2. n \in Nat /\ n > 0 /\ n - 1 \in Nat
  BY <1>1
<1>3. g = [dir |-> f.dir, todo |-> Tail(q)]
  BY DEF RmFrame
<1>4. g.dir = f.dir /\ g.todo = Tail(q)
  BY <1>3
<1>5. g.todo \in Seq(DOMAIN SafeNames) /\ Len(g.todo) = n - 1 /\ \A i \in 1..(n - 1) : g.todo[i] = q[i + 1]
  <2>1. Tail(q) \in Seq(DOMAIN SafeNames) /\ Len(Tail(q)) = n - 1 /\ \A i \in 1..Len(Tail(q)) : Tail(q)[i] = q[i + 1]
    BY <1>1, HeadTailProperties
  <2> QED BY <1>4, <2>1
<1>6. Head(q) = q[1] /\ q[1] \in DOMAIN SafeNames
  BY <1>1, <1>2
<1>7. \A i \in 1..n : i = 1 \/ i - 1 \in 1..(n - 1)
  BY <1>2
<1>8. \A i \in 1..(n - 1) : i + 1 \in 1..n /\ i + 1 # 1 /\ (i + 1) - 1 = i
  BY <1>2
<1>9. g \in RmFrame
  BY <1>1, <1>3, <1>4, <1>5 DEF RmFrame
<1>10. Split(g)
  <2>1. Len(g.todo) = n - 1
    BY <1>5
  <2>2. \A i \in 1..(n - 1) : g.todo[i] = q[i + 1]
    BY <1>5
  <2>3. ASSUME NEW i \in 1..(n - 1)
        PROVE  f.dir \notin D!Below(q[i + 1]) /\ \A j \in 1..(n - 1) : i # j => D!Below(q[i + 1]) \cap D!Below(q[j + 1]) = {}
    <3>1. i + 1 \in 1..n /\ \A j \in 1..(n - 1) : j + 1 \in 1..n /\ (i # j => i + 1 # j + 1)
      BY <1>2
    <3> QED BY <3>1 DEF Split
  <2>4. ASSUME NEW i \in 1..(n - 1), NEW j \in 1..(n - 1), i # j
        PROVE  D!Below(g.todo[i]) \cap D!Below(g.todo[j]) = {}
    BY <2>2, <2>3, <2>4, Zenon
  <2>5. ASSUME NEW i \in 1..(n - 1)
        PROVE  g.dir \notin D!Below(g.todo[i])
    BY <2>2, <2>3, <1>4
  <2> QED BY <2>1, <2>4, <2>5 DEF Split
<1>11. \A i \in 1..(n - 1) : D!Below(q[i + 1]) \cap D!Below(q[1]) = {}
  <2> TAKE i \in 1..(n - 1)
  <2>1. i + 1 \in 1..n /\ 1 \in 1..n /\ i + 1 # 1
    BY <1>2
  <2> QED BY <2>1 DEF Split
<1>12. f.dir \notin D!Below(q[1])
  BY <1>2 DEF Split
<1>13. Share(g) = {f.dir} \cup UNION {D!Below(q[i + 1]) : i \in 1..(n - 1)}
  BY <1>4, <1>5 DEF Share
<1>14. Share(g) \cap D!Below(q[1]) = {}
  BY <1>11, <1>12, <1>13
<1>15. Share(f) = Share(g) \cup D!Below(q[1])
  <2>1. ASSUME NEW x \in Share(f)  PROVE x \in Share(g) \cup D!Below(q[1])
    <3>1. CASE x = f.dir
      BY <3>1, <1>13
    <3>2. CASE x # f.dir
      <4>1. PICK i \in 1..n : x \in D!Below(q[i])
        BY <2>1, <3>2 DEF Share
      <4>2. CASE i = 1
        BY <4>1, <4>2
      <4>3. CASE i # 1
        <5>1. i - 1 \in 1..(n - 1) /\ (i - 1) + 1 = i
          BY <4>3, <1>2
        <5> QED BY <4>1, <5>1, <1>13
      <4> QED BY <4>2, <4>3
    <3> QED BY <3>1, <3>2
  <2>2. Share(g) \subseteq Share(f)
    BY <1>13, <1>8 DEF Share
  <2>3. D!Below(q[1]) \subseteq Share(f)
    BY <1>2 DEF Share
  <2> QED BY <2>1, <2>2, <2>3
<1> QED BY <1>6, <1>9, <1>10, <1>14, <1>15 DEF Entry, D!Entries

LEMMA Listing ==
    ASSUME NEW d \in DOMAIN Listed, d \in Entry
    PROVE  /\ D!Frames(d, Listed[d]) \in RmFrame /\ Split(D!Frames(d, Listed[d]))
           /\ Share(D!Frames(d, Listed[d])) = D!Below(d)
<1> DEFINE f == D!Frames(d, Listed[d])
<1>1. f \in RmFrame /\ f.dir = d /\ f.todo = Listed[d]
  BY HeldIs DEF D!Frames, RmFrame
<1> HIDE DEF f
<1>2. Share(f) = D!Below(d)
  BY <1>1, BelowDirectory DEF Share
<1>3. \A i \in 1..Len(Listed[d]) : d \notin D!Below(Listed[d][i])
  BY HeldIs, TreeAssumption
<1>4. Split(f)
  BY <1>1, <1>3, SiblingsApart DEF Split
<1> QED BY <1>1, <1>2, <1>4 DEF f

RmTypes == [at : {"idle", "removing", "done", "threw"}, stack : Seq(RmFrame), left : SUBSET Entry,
                 reported : SUBSET Entry, unanswered : SUBSET Entry, blind : BOOLEAN]
RmInv ==
    /\ removal \in RmTypes
    /\ Spread(removal.stack)
    /\ removal.at = "idle" =>
         removal.left = D!Below(TopDirectory) /\ removal.reported = {} /\ removal.unanswered = {}
    /\ removal.at = "done" => removal.stack = <<>>
    /\ removal.at \in {"removing", "done"} /\ ~removal.blind =>
         /\ removal.left = (removal.reported \ removal.unanswered) \cup ToGo(removal.stack)
         /\ removal.reported \cap ToGo(removal.stack) = {}
         /\ removal.unanswered \subseteq removal.reported

LEMMA TopIsEntry == TopDirectory \in Entry /\ TopDirectory \in DOMAIN Listed
  BY TreeAssumption DEF Entry, D!Entries

LEMMA Nothing ==
    /\ <<>> \in Seq(RmFrame) /\ Spread(<<>>) /\ ToGo(<<>>) = {}
  BY DEF Spread, ToGo

LEMMA RmInitInv ==
    ASSUME D!TreeInit
    PROVE  RmInv
<1>1. D!Below(TopDirectory) \subseteq Entry
  BY TopIsEntry, BelowClosed
<1> QED BY <1>1, Nothing DEF D!TreeInit, RmInv, RmTypes, D!Everything

LEMMA RmBegins ==
    ASSUME RmInv, D!Removes
    PROVE  RmInv'
<1> DEFINE f == D!Frames(TopDirectory, Listed[TopDirectory])
<1>1. f \in RmFrame /\ Split(f) /\ Share(f) = D!Below(TopDirectory)
  BY TopIsEntry, Listing
<1>2. removal.at = "idle" /\ removal' = [removal EXCEPT !.at = "removing", !.stack = <<f>>]
  BY DEF D!Removes
<1> HIDE DEF f
<1>3. Append(<<>>, f) = <<f>>
  OBVIOUS
<1>4. <<f>> \in Seq(RmFrame) /\ Spread(<<f>>) /\ ToGo(<<f>>) = D!Below(TopDirectory)
  BY <1>1, <1>3, Nothing, Pushed
<1>5. /\ removal' \in RmTypes /\ removal'.at = "removing" /\ removal'.stack = <<f>>
      /\ removal'.left = removal.left /\ removal'.reported = removal.reported
      /\ removal'.unanswered = removal.unanswered
  BY <1>2, <1>4 DEF RmInv, RmTypes
<1> QED BY <1>2, <1>4, <1>5 DEF RmInv

\* What a step removes, reports, and removes without an answer.
Cleared(gone, named, unanswered) ==
    /\ removal'.left = removal.left \ gone /\ removal'.reported = removal.reported \cup named
    /\ removal'.unanswered = removal.unanswered \cup unanswered

\* An iteration of rm: the frames become st, and what is done with e, of all that was to go.
LEMMA RmAdvances ==
    ASSUME RmInv, NEW st \in Seq(RmFrame), Spread(st), NEW E, removal.at = "removing",
           ToGo(removal.stack) = ToGo(st) \cup E, ToGo(st) \cap E = {},
           removal' \in RmTypes,
           removal'.stack = st, removal'.at \in {"removing", "done"}, removal'.at = "done" => st = <<>>,
           \/ removal'.blind
           \/ /\ removal'.blind = removal.blind
              /\ \/ Cleared(E, {}, {})
                 \/ Cleared({}, E, {})
                 \/ Cleared(E, E, E)
    PROVE  RmInv'
<1>1. ASSUME ~removal'.blind
      PROVE  /\ removal'.left = (removal'.reported \ removal'.unanswered) \cup ToGo(st)
             /\ removal'.reported \cap ToGo(st) = {} /\ removal'.unanswered \subseteq removal'.reported
  <2>1. /\ removal.left = (removal.reported \ removal.unanswered) \cup ToGo(st) \cup E
        /\ removal.reported \cap ToGo(st) = {} /\ removal.reported \cap E = {}
        /\ removal.unanswered \subseteq removal.reported
    BY <1>1 DEF RmInv
  <2>2. CASE Cleared(E, {}, {})
    BY <2>1, <2>2 DEF Cleared
  <2>3. CASE Cleared({}, E, {})
    BY <2>1, <2>3 DEF Cleared
  <2>4. CASE Cleared(E, E, E)
    BY <2>1, <2>4 DEF Cleared
  <2> QED BY <1>1, <2>2, <2>3, <2>4
<1> QED BY <1>1 DEF RmInv

LEMMA RmStep ==
    ASSUME RmInv,
           \/ \E seen \in BOOLEAN : D!RemovesDirectory(seen)
           \/ \E outcome \in D!Outcomes : D!RemovesFile(outcome) \/ D!RemovesEmptied(outcome)
    PROVE  RmInv'
<1> DEFINE st == removal.stack
           f == D!Last(st)
           s == D!Front(st)
           g == [f EXCEPT !.todo = Tail(@)]
           e == Head(f.todo)
           q == Append(s, g)
<1>1. removal.at = "removing" /\ st # <<>>
  BY DEF D!RemovesDirectory, D!RemovesFile, D!RemovesEmptied, D!Removing
<1>2. removal \in RmTypes /\ st \in Seq(RmFrame) /\ Spread(st)
  BY DEF RmInv, RmTypes
<1>3. /\ s \in Seq(RmFrame) /\ Spread(s) /\ f \in RmFrame /\ Split(f)
      /\ ToGo(st) = ToGo(s) \cup Share(f) /\ Share(f) \cap ToGo(s) = {}
      /\ Len(st) = 1 <=> s = <<>>
  BY <1>1, <1>2, Peeled
<1>4. f.todo # <<>> =>
        /\ g \in RmFrame /\ Split(g) /\ e \in Entry /\ Share(f) = Share(g) \cup D!Below(e)
        /\ Share(g) \cap D!Below(e) = {}
  BY <1>3, Advanced
<1>5. D!RmTop = f /\ D!Rest = [removal EXCEPT !.stack = q]
  BY DEF D!RmTop, D!Rest
<1> HIDE DEF st, f, s, g, e, q
<1>6. ASSUME f.todo # <<>>
      PROVE  /\ q \in Seq(RmFrame) /\ Spread(q)
             /\ ToGo(st) = ToGo(q) \cup D!Below(e) /\ ToGo(q) \cap D!Below(e) = {}
  <2>1. Share(g) \cap ToGo(s) = {} /\ D!Below(e) \cap ToGo(s) = {}
    BY <1>3, <1>4, <1>6
  <2>2. q \in Seq(RmFrame) /\ Spread(q) /\ ToGo(q) = ToGo(s) \cup Share(g)
    BY <1>3, <1>4, <1>6, <2>1, Pushed DEF q
  <2> QED BY <1>3, <1>4, <1>6, <2>1, <2>2
<1>7. ASSUME NEW seen \in BOOLEAN, D!RemovesDirectory(seen)
      PROVE  RmInv'
  <2>1. f.todo # <<>> /\ e \in DOMAIN Listed
    BY <1>7, <1>5 DEF D!RemovesDirectory, D!IsDir, e
  <2>2. CASE seen
    <3> DEFINE h == D!Frames(e, Listed[e])
    <3>1. h \in RmFrame /\ Split(h) /\ Share(h) = D!Below(e)
      BY <1>4, <2>1, Listing
    <3>2. removal' = [removal EXCEPT !.stack = Append(q, h)]
      BY <1>7, <2>2, <1>5, <1>2 DEF D!RemovesDirectory, e
    <3> HIDE DEF h
    <3>3. /\ Append(q, h) \in Seq(RmFrame) /\ Spread(Append(q, h))
          /\ ToGo(Append(q, h)) = ToGo(q) \cup D!Below(e)
      <4>1. Share(h) \cap ToGo(q) = {} /\ q \in Seq(RmFrame) /\ Spread(q)
        BY <3>1, <1>6, <2>1
      <4> QED BY <3>1, <4>1, Pushed
    <3>4. /\ removal' \in RmTypes /\ removal'.stack = Append(q, h) /\ removal'.at = "removing"
          /\ removal'.blind = removal.blind /\ removal'.left = removal.left /\ removal'.reported = removal.reported
          /\ removal'.unanswered = removal.unanswered
      BY <3>2, <3>3, <1>2, <1>1 DEF RmTypes
    <3>5. ToGo(removal.stack) = ToGo(Append(q, h)) \cup {} /\ ToGo(Append(q, h)) \cap {} = {}
      BY <3>3, <1>6, <2>1 DEF st
    <3>6. Cleared({}, {}, {})
      BY <3>4 DEF Cleared
    <3> DEFINE z == Append(q, h)
    <3> HIDE DEF z
    <3>7. z \in Seq(RmFrame) /\ Spread(z) /\ ToGo(removal.stack) = ToGo(z) \cup {} /\ ToGo(z) \cap {} = {} /\ removal'.stack = z
      BY <3>3, <3>4, <3>5 DEF z
    <3> QED BY <3>4, <3>6, <3>7, <1>1, RmAdvances
  <2>3. CASE ~seen
    <3>1. removal' = [removal EXCEPT !.stack = q, !.blind = TRUE]
      BY <1>7, <2>3, <1>5, <1>2 DEF D!RemovesDirectory
    <3>2. removal' \in RmTypes /\ removal'.stack = q /\ removal'.at = "removing" /\ removal'.blind
      BY <3>1, <1>1, <1>2, <1>6, <2>1 DEF RmTypes
    <3> QED BY <3>2, <1>1, <1>6, <2>1, RmAdvances DEF st
  <2> QED BY <2>2, <2>3
<1>8. ASSUME NEW outcome \in D!Outcomes, D!RemovesFile(outcome)
      PROVE  RmInv'
  <2>1. f.todo # <<>> /\ e \notin DOMAIN Listed
    BY <1>8, <1>5 DEF D!RemovesFile, D!IsDir, e
  <2>2. D!Below(e) = {e} /\ e \in Entry
    BY <2>1, <1>4, BelowFile
  <2>3. removal' = CASE outcome = "removed" -> [removal EXCEPT !.stack = q, !.left = @ \ {e}]
                     [] outcome = "refused" -> [removal EXCEPT !.stack = q, !.reported = @ \cup {e}]
                     [] outcome = "unanswered" -> [removal EXCEPT !.stack = q, !.left = @ \ {e},
                                                    !.unanswered = @ \cup {e}, !.reported = @ \cup {e}]
    BY <1>8, <1>5, <1>2 DEF D!RemovesFile, D!KeepsFile, D!Reported, D!Gone, D!Unanswered, e
  <2>4. q \in Seq(RmFrame) /\ removal \in RmTypes /\ removal.at = "removing"
    BY <1>1, <1>2, <1>6, <2>1
  <2>5. /\ removal' \in RmTypes /\ removal'.stack = q /\ removal'.at = "removing"
        /\ removal'.blind = removal.blind
        /\ Cleared({e}, {}, {}) \/ Cleared({}, {e}, {}) \/ Cleared({e}, {e}, {e})
    <3>1. CASE outcome = "removed"
      BY <3>1, <2>2, <2>3, <2>4 DEF RmTypes, Cleared
    <3>2. CASE outcome = "refused"
      BY <3>2, <2>2, <2>3, <2>4 DEF RmTypes, Cleared
    <3>3. CASE outcome = "unanswered"
      BY <3>3, <2>2, <2>3, <2>4 DEF RmTypes, Cleared
    <3> QED BY <1>8, <3>1, <3>2, <3>3 DEF D!Outcomes
  <2> QED BY <2>5, <1>1, <1>6, <2>1, <2>2, RmAdvances DEF st
<1>9. ASSUME NEW outcome \in D!Outcomes, D!RemovesEmptied(outcome)
      PROVE  RmInv'
  <2>1. f.todo = <<>>
    BY <1>9, <1>5 DEF D!RemovesEmptied
  <2>2. Share(f) = {f.dir} /\ f.dir \in Entry
    <3>1. 1..Len(f.todo) = {}
      BY <2>1
    <3>2. Share(f) = {f.dir}
      BY <3>1 DEF Share
    <3> QED BY <3>2, <1>3 DEF RmFrame
  <2>3. D!Pop = [removal EXCEPT !.stack = s, !.at = IF Len(st) = 1 THEN "done" ELSE "removing"]
    BY <1>1 DEF D!Pop, s, st
  <2>4. D!Pop \in RmTypes /\ D!Pop.stack = s /\ D!Pop.at \in {"removing", "done"} /\ (D!Pop.at = "done" => s = <<>>)
        /\ D!Pop.left = removal.left /\ D!Pop.reported = removal.reported /\ D!Pop.blind = removal.blind
        /\ D!Pop.unanswered = removal.unanswered
    <3> DEFINE a == IF Len(st) = 1 THEN "done" ELSE "removing"
    <3>1. a \in {"removing", "done"} /\ (a = "done" => s = <<>>)
      BY <1>3
    <3> HIDE DEF a
    <3>2. D!Pop = [removal EXCEPT !.stack = s, !.at = a]
      BY <2>3 DEF a
    <3> QED BY <3>1, <3>2, <1>2, <1>3 DEF RmTypes
  <2>5. removal' = IF outcome = "removed" THEN [D!Pop EXCEPT !.left = @ \ {f.dir}]
                   ELSE IF f.dir = TopDirectory /\ removal.reported = {} THEN [removal EXCEPT !.at = "threw"]
                   ELSE IF outcome = "refused" THEN [D!Pop EXCEPT !.reported = @ \cup {f.dir}]
                   ELSE [D!Pop EXCEPT !.left = @ \ {f.dir}, !.unanswered = @ \cup {f.dir}, !.reported = @ \cup {f.dir}]
    <3> DEFINE d == f.dir
               p == D!Pop
    <3>1. p \in RmTypes
      BY <2>4
    <3>2. removal' = IF outcome = "removed" THEN D!Gone(p, d)
                     ELSE IF d = TopDirectory /\ removal.reported = {} THEN [removal EXCEPT !.at = "threw"]
                     ELSE IF outcome = "refused" THEN D!Reported(p, d)
                     ELSE D!Reported(D!Unanswered(p, d), d)
      BY <1>9, <1>5 DEF D!RemovesEmptied
    <3> HIDE DEF d, p
    <3>3. /\ D!Gone(p, d) = [p EXCEPT !.left = @ \ {d}] /\ D!Reported(p, d) = [p EXCEPT !.reported = @ \cup {d}]
          /\ D!Reported(D!Unanswered(p, d), d) = [p EXCEPT !.left = @ \ {d}, !.unanswered = @ \cup {d}, !.reported = @ \cup {d}]
      BY <3>1 DEF RmTypes, D!Gone, D!Reported, D!Unanswered
    <3>4. removal' = IF outcome = "removed" THEN [p EXCEPT !.left = @ \ {d}]
                     ELSE IF d = TopDirectory /\ removal.reported = {} THEN [removal EXCEPT !.at = "threw"]
                     ELSE IF outcome = "refused" THEN [p EXCEPT !.reported = @ \cup {d}]
                     ELSE [p EXCEPT !.left = @ \ {d}, !.unanswered = @ \cup {d}, !.reported = @ \cup {d}]
      BY <3>2, <3>3
    <3> QED BY <3>4 DEF d, p
  <2>6. CASE outcome # "removed" /\ f.dir = TopDirectory /\ removal.reported = {}
    <3>1. removal' = [removal EXCEPT !.at = "threw"]
      BY <2>5, <2>6
    <3> QED BY <3>1, <1>1 DEF RmInv, RmTypes
  <2>7. CASE ~(outcome # "removed" /\ f.dir = TopDirectory /\ removal.reported = {})
    <3>1. /\ removal' \in RmTypes /\ removal'.stack = s /\ removal'.at \in {"removing", "done"}
          /\ removal'.at = "done" => s = <<>>
          /\ removal'.blind = removal.blind
          /\ Cleared({f.dir}, {}, {}) \/ Cleared({}, {f.dir}, {}) \/ Cleared({f.dir}, {f.dir}, {f.dir})
      <4> DEFINE d == f.dir
                 p == D!Pop
      <4>1. d \in Entry
        BY <2>2
      <4>2. p \in RmTypes /\ p.stack = s /\ p.at \in {"removing", "done"} /\ (p.at = "done" => s = <<>>)
            /\ p.left = removal.left /\ p.reported = removal.reported /\ p.blind = removal.blind
            /\ p.unanswered = removal.unanswered
        BY <2>4
      <4>3. \/ removal' = [p EXCEPT !.left = @ \ {d}]
            \/ removal' = [p EXCEPT !.reported = @ \cup {d}]
            \/ removal' = [p EXCEPT !.left = @ \ {d}, !.unanswered = @ \cup {d}, !.reported = @ \cup {d}]
        BY <2>5, <2>7
      <4> HIDE DEF d, p
      <4>4. CASE removal' = [p EXCEPT !.left = @ \ {d}]
        BY <4>1, <4>2, <4>4 DEF RmTypes, Cleared, d
      <4>5. CASE removal' = [p EXCEPT !.reported = @ \cup {d}]
        BY <4>1, <4>2, <4>5 DEF RmTypes, Cleared, d
      <4>6. CASE removal' = [p EXCEPT !.left = @ \ {d}, !.unanswered = @ \cup {d}, !.reported = @ \cup {d}]
        BY <4>1, <4>2, <4>6 DEF RmTypes, Cleared, d
      <4> QED BY <4>3, <4>4, <4>5, <4>6
    <3> QED BY <3>1, <2>2, <1>1, <1>3, RmAdvances DEF st
  <2> QED BY <2>6, <2>7
<1> QED BY <1>7, <1>8, <1>9

LEMMA RmHolds == RmInv => D!RemovedOrReported
  BY Nothing DEF RmInv, D!RemovedOrReported

-----------------------------------------------------------------------------
(* pull: the names that were given out.                                      *)

Path == Seq(D!Names)
PullFrame == [dir : DOMAIN Listed, path : Path, todo : Seq(DOMAIN SafeNames)]
PullTypes == [at : {"idle", "pulling", "done", "failed"}, overwrite : BOOLEAN, stack : Seq(PullFrame),
              used : SUBSET (Path \X D!Names), sensitive : SUBSET (Path \X BOOLEAN)]

\* The local path of a name given out; where it is on the host.
Full(u) == Append(u[1], u[2])
Where(i, p) == IF i THEN [k \in DOMAIN p |-> D!FoldName(p[k])] ELSE p
Made(used, p) == p = <<>> \/ \E u \in used : p = Full(u)
Apart(i, used) == \A u, v \in used : Where(i, Full(u)) = Where(i, Full(v)) => u = v
Paths(stack) == {stack[k].path : k \in 1..Len(stack)}
AllMade(stack, used) == \A p \in Paths(stack) \cup {u[1] : u \in used} : Made(used, p)
Placed(i, places, used) == \A p \in places : \E u \in used : p = Where(i, Full(u))

HostIs == /\ host.insensitive \in BOOLEAN
          /\ host = [insensitive |-> host.insensitive, platform |-> host.platform, stale |-> host.stale,
                     before |-> host.before, written |-> host.written, created |-> host.created]
Written == {w[1] : w \in host.written}
PullInv ==
    /\ pull \in PullTypes /\ HostIs
    /\ AllMade(pull.stack, pull.used) /\ (~D!Misjudged => Apart(host.insensitive, pull.used))
    /\ Placed(host.insensitive, Written \cup host.created, pull.used)
    /\ host.insensitive /\ ~D!Misjudged => \A s \in pull.sensitive : s[2] = FALSE
    /\ pull.at = "idle" => pull.used = {} /\ pull.stack = <<>>
    /\ D!NoClobber

LEMMA PullInitInv ==
    ASSUME D!TreeInit
    PROVE  PullInv
<1>1. pull = [at |-> "idle", overwrite |-> TRUE, stack |-> <<>>, used |-> {}, sensitive |-> {}]
  BY DEF D!TreeInit
<1>2. PICK i \in BOOLEAN : \E platform, stale, before :
              host = [insensitive |-> i, platform |-> platform, stale |-> stale, before |-> before,
                      written |-> {}, created |-> {}]
  BY DEF D!TreeInit
<1>3. HostIs /\ host.written = {} /\ host.created = {} /\ Written = {}
  BY <1>2 DEF HostIs, Written
<1>4. pull \in PullTypes
  BY <1>1 DEF PullTypes
<1>5. AllMade(<<>>, {}) /\ Apart(host.insensitive, {}) /\ Placed(host.insensitive, {}, {})
  BY DEF AllMade, Paths, Apart, Placed
<1> QED BY <1>1, <1>3, <1>4, <1>5 DEF PullInv, D!NoClobber

\* One place is one path, if that is so of the paths it is made of.
LEMMA SamePlace ==
    ASSUME NEW i \in BOOLEAN, NEW p \in Path, NEW q \in Path, NEW a \in D!Names, NEW b \in D!Names,
           Where(i, Append(p, a)) = Where(i, Append(q, b))
    PROVE  Where(i, p) = Where(i, q) /\ (IF i THEN D!FoldName(a) = D!FoldName(b) ELSE a = b)
<1> DEFINE s == Append(p, a)
           t == Append(q, b)
<1>1. /\ s \in Path /\ Len(s) = Len(p) + 1 /\ s[Len(p) + 1] = a /\ \A k \in 1..Len(p) : s[k] = p[k]
      /\ t \in Path /\ Len(t) = Len(q) + 1 /\ t[Len(q) + 1] = b /\ \A k \in 1..Len(q) : t[k] = q[k]
      /\ Len(p) \in Nat /\ Len(q) \in Nat
  BY DEF Path
<1>2. DOMAIN s = 1..Len(s) /\ DOMAIN t = 1..Len(t) /\ DOMAIN p = 1..Len(p) /\ DOMAIN q = 1..Len(q)
  BY <1>1 DEF Path
<1> HIDE DEF s, t
<1>3. Where(i, s) = Where(i, t)
  BY DEF s, t
<1>4. CASE i
  <2> DEFINE x == [k \in DOMAIN s |-> D!FoldName(s[k])]
             y == [k \in DOMAIN t |-> D!FoldName(t[k])]
  <2>1. x = y
    BY <1>3, <1>4 DEF Where
  <2>2. DOMAIN x = DOMAIN s /\ DOMAIN y = DOMAIN t
    OBVIOUS
  <2>3. DOMAIN s = DOMAIN t
    BY <2>1, <2>2, Zenon
  <2>4. Len(p) = Len(q)
    <3>1. Len(s) \in Nat /\ Len(t) \in Nat
      BY <1>1
    <3>2. Len(s) \in 1..Len(t) /\ Len(t) \in 1..Len(s)
      BY <1>1, <1>2, <2>3, <3>1
    <3> QED BY <1>1, <3>2
  <2>5. \A k \in DOMAIN s : D!FoldName(s[k]) = D!FoldName(t[k])
    <3> TAKE k \in DOMAIN s
    <3>1. x[k] = D!FoldName(s[k]) /\ y[k] = D!FoldName(t[k])
      BY <2>3
    <3> QED BY <2>1, <3>1, Zenon
  <2>6. D!FoldName(a) = D!FoldName(b)
    <3>1. Len(p) + 1 \in DOMAIN s
      BY <1>1, <1>2
    <3> QED BY <2>5, <3>1, <1>1, <2>4
  <2>7. \A k \in DOMAIN p : D!FoldName(p[k]) = D!FoldName(q[k])
    <3> TAKE k \in DOMAIN p
    <3>1. k \in DOMAIN s /\ s[k] = p[k] /\ t[k] = q[k]
      BY <1>1, <1>2, <2>4
    <3> QED BY <2>5, <3>1
  <2>8. DOMAIN p = DOMAIN q
    BY <1>2, <2>4
  <2>9. Where(i, p) = [k \in DOMAIN p |-> D!FoldName(p[k])] /\ Where(i, q) = [k \in DOMAIN q |-> D!FoldName(q[k])]
    BY <1>4 DEF Where
  <2> QED BY <1>4, <2>6, <2>7, <2>8, <2>9
<1>5. CASE ~i
  <2>1. s = t
    BY <1>3, <1>5 DEF Where
  <2>2. Len(p) = Len(q) /\ a = b
    BY <1>1, <2>1
  <2>3. \A k \in 1..Len(p) : p[k] = q[k]
    BY <1>1, <2>1, <2>2
  <2>4. p = q
    BY <2>2, <2>3 DEF Path
  <2> QED BY <1>5, <2>2, <2>4
<1> QED BY <1>4, <1>5

LEMMA SameInterval ==
    ASSUME NEW m \in Nat, NEW n \in Nat, 1..m = 1..n
    PROVE  m = n
<1>1. m = 0 \/ m \in 1..n
  <2>1. m = 0 \/ m \in 1..m
    OBVIOUS
  <2> QED BY <2>1
<1>2. n = 0 \/ n \in 1..m
  <2>1. n = 0 \/ n \in 1..n
    OBVIOUS
  <2> QED BY <2>1
<1>3. m = 0 => n = 0
  BY <1>2
<1>4. n = 0 => m = 0
  BY <1>1
<1> QED BY <1>1, <1>2, <1>3, <1>4

LEMMA PathOf ==
    ASSUME NEW i \in BOOLEAN, NEW used \in SUBSET (Path \X D!Names), Apart(i, used),
           NEW p \in Path, NEW q \in Path, Made(used, p), Made(used, q), Where(i, p) = Where(i, q)
    PROVE  p = q
<1>1. Len(p) = Len(q)
  <2>1. DOMAIN p = 1..Len(p) /\ DOMAIN q = 1..Len(q) /\ Len(p) \in Nat /\ Len(q) \in Nat
    BY DEF Path
  <2>2. DOMAIN Where(i, p) = DOMAIN p /\ DOMAIN Where(i, q) = DOMAIN q
    BY DEF Where
  <2>3. 1..Len(p) = 1..Len(q)
    BY <2>1, <2>2, Zenon
  <2> HIDE DEF Path
  <2> QED BY <2>1, <2>3, SameInterval
<1>2. CASE p = <<>>
  BY <1>1, <1>2 DEF Path
<1>3. CASE q = <<>>
  BY <1>1, <1>3 DEF Path
<1>4. CASE p # <<>> /\ q # <<>>
  <2>1. PICK u \in used : p = Full(u)
    BY <1>4 DEF Made
  <2>2. PICK v \in used : q = Full(v)
    BY <1>4 DEF Made
  <2> QED BY <2>1, <2>2 DEF Apart
<1> QED BY <1>2, <1>3, <1>4

LEMMA Foreword ==
    ASSUME NEW st \in Seq(PullFrame), st # <<>>
    PROVE  /\ D!Front(st) \in Seq(PullFrame) /\ D!Last(st) \in PullFrame
           /\ Paths(D!Front(st)) \subseteq Paths(st) /\ D!Last(st).path \in Paths(st)
<1>1. Len(st) \in Nat /\ Len(st) > 0
  OBVIOUS
<1> QED BY <1>1, FrontIs DEF Paths

LEMMA Afterword ==
    ASSUME NEW st \in Seq(PullFrame), NEW f \in PullFrame
    PROVE  Append(st, f) \in Seq(PullFrame) /\ Paths(Append(st, f)) = Paths(st) \cup {f.path}
<1> DEFINE s == Append(st, f)
<1>1. /\ s \in Seq(PullFrame) /\ Len(s) = Len(st) + 1 /\ s[Len(st) + 1] = f
      /\ \A i \in 1..Len(st) : s[i] = st[i]
  OBVIOUS
<1>2. 1..Len(s) = 1..Len(st) \cup {Len(st) + 1}
  <2>1. Len(st) \in Nat
    OBVIOUS
  <2> QED BY <1>1, <2>1
<1> HIDE DEF s
<1>3. Paths(s) = Paths(st) \cup {f.path}
  BY <1>1, <1>2 DEF Paths
<1> QED BY <1>1, <1>3 DEF s

LEMMA Fresh ==
    ASSUME PullInv, D!Pulling, NEW sensitive \in D!Sensitivity, NEW e, NEW name \in D!Names,
           name \in D!Allocated(D!Top.path, sensitive, e),
           NEW new, new = <<D!Top.path, name>>
    PROVE  /\ new \in Path \X D!Names /\ Full(new) = Append(D!Top.path, name) /\ new[1] = D!Top.path
           /\ D!Local(Append(D!Top.path, name)) = Where(host.insensitive, Full(new))
           /\ sensitive \in BOOLEAN /\ (host.insensitive /\ ~D!Misjudged => ~sensitive)
           /\ ~D!Misjudged =>
                \A u \in pull.used : Where(host.insensitive, Full(u)) # Where(host.insensitive, Full(new))
           /\ ~pull.overwrite => Where(host.insensitive, Full(new)) \notin host.before \cup Written \cup host.created
<1> DEFINE i == host.insensitive
           p == D!Top.path
<1>1. /\ pull.stack \in Seq(PullFrame) /\ pull.stack # <<>> /\ pull.used \in SUBSET (Path \X D!Names)
      /\ pull.sensitive \in SUBSET (Path \X BOOLEAN) /\ i \in BOOLEAN
  BY DEF PullInv, PullTypes, HostIs, D!Pulling
<1>2. p \in Path /\ p \in Paths(pull.stack)
  BY <1>1, Foreword DEF D!Top, PullFrame
<1>3. new \in Path \X D!Names /\ Full(new) = Append(p, name) /\ new[1] = p
  BY <1>2 DEF Full
<1>4. D!Local(Append(p, name)) = Where(i, Full(new))
  BY <1>3 DEF D!Local, Where
<1>5. sensitive \in BOOLEAN /\ (i /\ ~D!Misjudged => sensitive = FALSE)
  <2> DEFINE known == {s \in pull.sensitive : s[1] = p}
  <2>1. D!Sensitivity = IF known # {} THEN {s[2] : s \in known} ELSE D!Probed
    BY DEF D!Sensitivity
  <2>2. \A s \in known : s[2] \in BOOLEAN /\ (i /\ ~D!Misjudged => s[2] = FALSE)
    BY <1>1 DEF PullInv
  <2>3. \A b \in D!Probed : b \in BOOLEAN /\ (i /\ ~D!Misjudged => b = FALSE)
    BY DEF D!Probed, D!Misjudged
  <2> HIDE DEF known, i, p
  <2> QED BY <2>1, <2>2, <2>3
<1>6. ~D!Clash(p, sensitive, name)
  BY DEF D!Allocated
<1>7. \A u \in pull.used : ~(u[1] = p /\ D!Collide(sensitive, u[2], name))
  BY <1>6 DEF D!Clash
<1>8. ~pull.overwrite => Where(i, Full(new)) \notin host.before \cup Written \cup host.created
  BY <1>4, <1>6 DEF D!Clash, D!Present, Written
<1>9. ASSUME ~D!Misjudged, NEW u \in pull.used, Where(i, Full(u)) = Where(i, Full(new))
      PROVE  FALSE
  <2>1. u[1] \in Path /\ u[2] \in D!Names /\ Full(u) = Append(u[1], u[2])
    BY <1>1 DEF Full
  <2>2. Where(i, Append(u[1], u[2])) = Where(i, Append(p, name))
    BY <1>9, <1>3, <2>1
  <2> HIDE DEF i, p
  <2>3. Where(i, u[1]) = Where(i, p) /\ (IF i THEN D!FoldName(u[2]) = D!FoldName(name) ELSE u[2] = name)
    BY <1>1, <1>2, <2>1, <2>2, SamePlace
  <2>4. Made(pull.used, u[1]) /\ Made(pull.used, p)
    BY <1>2 DEF PullInv, AllMade
  <2>5. Apart(i, pull.used)
    BY <1>9 DEF PullInv, i
  <2>6. u[1] = p
    BY <1>1, <1>2, <2>1, <2>3, <2>4, <2>5, PathOf
  <2>7. D!Collide(sensitive, u[2], name)
    BY <2>3, <1>5, <1>9 DEF D!Collide
  <2> QED BY <2>6, <2>7, <1>7
<1> QED BY <1>3, <1>4, <1>5, <1>8, <1>9

LEMMA ApartMore ==
    ASSUME NEW i, NEW used, Apart(i, used), NEW new,
           \A u \in used : Where(i, Full(u)) # Where(i, Full(new))
    PROVE  Apart(i, used \cup {new})
  BY DEF Apart

LEMMA MadeMore ==
    ASSUME NEW used, NEW new, NEW p, Made(used, p)
    PROVE  Made(used \cup {new}, p)
  BY DEF Made

\* A name is given out: what pull has then, and what is at its place, if anything is made there.
LEMMA Entered ==
    ASSUME PullInv, D!Pulling, NEW sensitive \in D!Sensitivity, NEW e, NEW name \in D!Names,
           name \in D!Allocated(D!Top.path, sensitive, e),
           NEW new, new = <<D!Top.path, name>>,
           NEW st \in Seq(PullFrame), Paths(st) \subseteq Paths(pull.stack) \cup {Full(new)},
           pull' = [pull EXCEPT !.used = @ \cup {new}, !.sensitive = @ \cup {<<D!Top.path, sensitive>>}, !.stack = st],
           NEW x, NEW y, host' = [host EXCEPT !.written = @ \cup x, !.created = @ \cup y],
           LET w == Where(host.insensitive, Full(new))
           IN \/ x = {} /\ y \subseteq {w}
              \/ (\E c : x = {<<w, c>>}) /\ y = {}
    PROVE  PullInv'
<1> DEFINE w == Where(host.insensitive, Full(new))
<1>1. /\ new \in Path \X D!Names /\ new[1] = D!Top.path
      /\ sensitive \in BOOLEAN /\ (host.insensitive /\ ~D!Misjudged => ~sensitive)
      /\ ~D!Misjudged => \A u \in pull.used : Where(host.insensitive, Full(u)) # w
      /\ ~pull.overwrite => w \notin host.before \cup Written \cup host.created
  BY Fresh
<1>2. /\ pull \in PullTypes /\ pull.stack \in Seq(PullFrame) /\ pull.stack # <<>> /\ pull.at = "pulling"
      /\ D!Top.path \in Path /\ D!Top.path \in Paths(pull.stack)
  <2>1. pull \in PullTypes /\ pull.stack \in Seq(PullFrame) /\ pull.stack # <<>> /\ pull.at = "pulling"
    BY DEF PullInv, PullTypes, D!Pulling
  <2> QED BY <2>1, Foreword DEF D!Top, PullFrame
<1>3. /\ pull'.used = pull.used \cup {new} /\ pull'.sensitive = pull.sensitive \cup {<<D!Top.path, sensitive>>}
      /\ pull'.stack = st /\ pull'.at = "pulling" /\ pull'.overwrite = pull.overwrite
  BY <1>2 DEF PullTypes
<1>4. pull' \in PullTypes
  <2> DEFINE Rs == pull.used \cup {new}
             S == pull.sensitive \cup {<<D!Top.path, sensitive>>}
  <2>1. Rs \in SUBSET (Path \X D!Names) /\ S \in SUBSET (Path \X BOOLEAN)
    BY <1>1, <1>2 DEF PullTypes
  <2>2. pull' = [pull EXCEPT !.used = Rs, !.sensitive = S, !.stack = st]
    OBVIOUS
  <2> HIDE DEF Rs, S
  <2> QED BY <2>1, <2>2, <1>2 DEF PullTypes
<1>5. HostIs' /\ host'.insensitive = host.insensitive /\ host'.before = host.before
      /\ host'.written = host.written \cup x /\ host'.created = host.created \cup y
      /\ D!Misjudged' = D!Misjudged
  BY DEF PullInv, HostIs, D!Misjudged
<1>6. ~D!Misjudged => Apart(host.insensitive, pull.used \cup {new})
  BY <1>1, ApartMore DEF PullInv
<1>7. AllMade(st, pull.used \cup {new})
  <2>1. Made(pull.used \cup {new}, Full(new))
    BY DEF Made
  <2>2. \A p \in Paths(pull.stack) \cup {u[1] : u \in pull.used} : Made(pull.used, p)
    BY DEF PullInv, AllMade
  <2>3. \A p \in Paths(st) \cup {u[1] : u \in pull.used \cup {new}} :
           p = Full(new) \/ p \in Paths(pull.stack) \cup {u[1] : u \in pull.used}
    BY <1>1, <1>2
  <2> QED BY <2>1, <2>2, <2>3, MadeMore DEF AllMade
<1> HIDE DEF w
<1>8. ~(D!Misjudged /\ pull.overwrite) => \A p \in Written \cup host.created : p # w
  BY <1>1 DEF PullInv, Placed, w
<1>9. \A p \in Written' \cup host'.created : p \in Written \cup host.created \/ p = w
  BY <1>5 DEF Written, w
<1>10. Placed(host.insensitive, Written' \cup host'.created, pull.used \cup {new})
  BY <1>9 DEF PullInv, Placed, w
<1>11. D!NoClobber'
  <2>1. D!NoClobber
    BY DEF PullInv
  <2>2. ~(D!Misjudged /\ pull.overwrite) => \A v \in host.written : v[1] # w
    BY <1>8 DEF Written
  <2>3. CASE x = {} /\ y \subseteq {w}
    BY <2>1, <2>2, <2>3, <1>3, <1>5 DEF D!NoClobber
  <2>4. ASSUME NEW c, x = {<<w, c>>}, y = {}
        PROVE  D!NoClobber'
    BY <2>1, <2>2, <2>4, <1>1, <1>3, <1>5, <1>8 DEF D!NoClobber
  <2> QED BY <2>3, <2>4 DEF w
<1> QED
  BY <1>3, <1>4, <1>5, <1>6, <1>7, <1>10, <1>11, <1>1 DEF PullInv

LEMMA PullBegins ==
    ASSUME PullInv, NEW overwrite \in BOOLEAN, D!Pulls(overwrite)
    PROVE  PullInv'
<1> DEFINE f == D!Frame(TopDirectory, <<>>)
<1>1. f \in PullFrame /\ f.path = <<>>
  BY TopIsEntry, HeldIs DEF D!Frame, PullFrame, Path
<1>2. /\ pull.at = "idle" /\ host' = host
      /\ pull' = [pull EXCEPT !.at = "pulling", !.overwrite = overwrite, !.stack = <<f>>]
  BY DEF D!Pulls
<1> HIDE DEF f
<1>3. <<f>> \in Seq(PullFrame) /\ Paths(<<f>>) = {<<>>}
  <2>1. Append(<<>>, f) = <<f>> /\ <<>> \in Seq(PullFrame) /\ Paths(<<>>) = {}
    BY DEF Paths
  <2> QED BY <1>1, <2>1, Afterword
<1>4. /\ pull'.at = "pulling" /\ pull'.overwrite = overwrite /\ pull'.stack = <<f>> /\ pull'.used = pull.used
      /\ pull'.sensitive = pull.sensitive /\ pull' \in PullTypes
  BY <1>2, <1>3 DEF PullInv, PullTypes
<1>5. pull.used = {} /\ host.written = {} /\ host.created = {}
  BY <1>2 DEF PullInv, Placed, Written
<1>6. AllMade(<<f>>, {})
  BY <1>3 DEF AllMade, Made
<1>7. HostIs' /\ Written' = {} /\ D!Misjudged' = D!Misjudged
  BY <1>2, <1>5 DEF PullInv, HostIs, Written, D!Misjudged
<1> QED BY <1>2, <1>4, <1>5, <1>6, <1>7 DEF PullInv, D!NoClobber, Apart, Placed

LEMMA PullEnters ==
    ASSUME PullInv, NEW sensitive \in BOOLEAN, NEW name \in D!Names,
           D!PullsDirectory(sensitive, name) \/ D!PullsFile(sensitive, name) \/ D!Skips(sensitive, name)
    PROVE  PullInv'
<1> DEFINE f == D!Top
           s == D!Front(pull.stack)
           e == Head(f.todo)
           g == [f EXCEPT !.todo = Tail(@)]
           q == Append(s, g)
           new == <<f.path, name>>
           w == Where(host.insensitive, Full(new))
<1>1. /\ D!Pulling /\ f.todo # <<>> /\ sensitive \in D!Sensitivity /\ name \in D!Allocated(f.path, sensitive, e)
  BY DEF D!PullsDirectory, D!PullsFile, D!Skips
<1>2. /\ pull \in PullTypes /\ pull.stack \in Seq(PullFrame) /\ pull.stack # <<>> /\ HostIs
  BY <1>1 DEF PullInv, PullTypes, D!Pulling
<1>3. s \in Seq(PullFrame) /\ f \in PullFrame /\ Paths(s) \subseteq Paths(pull.stack) /\ f.path \in Paths(pull.stack)
  BY <1>2, Foreword DEF D!Top
<1>4. f.path \in Path /\ f.todo \in Seq(DOMAIN SafeNames) /\ f.todo # <<>>
  BY <1>1, <1>3 DEF PullFrame
<1> HIDE DEF f, s
<1>5. g \in PullFrame /\ g.path = f.path /\ e \in DOMAIN SafeNames
  <2>1. Tail(f.todo) \in Seq(DOMAIN SafeNames) /\ e \in DOMAIN SafeNames
    BY <1>4, HeadTailProperties
  <2> QED BY <1>3, <2>1 DEF PullFrame
<1> HIDE DEF e, g
<1>6. q \in Seq(PullFrame) /\ Paths(q) \subseteq Paths(pull.stack)
  BY <1>3, <1>5, Afterword
<1>7. new \in Path \X D!Names /\ Full(new) = Append(f.path, name) /\ D!Local(Append(f.path, name)) = w
  BY <1>1, Fresh DEF f
<1>8. D!NextEntry(name, sensitive) = [pull EXCEPT !.used = @ \cup {new}, !.sensitive = @ \cup {<<f.path, sensitive>>}, !.stack = q]
  BY DEF D!NextEntry, f, s, g
<1> HIDE DEF q, new, w
<1>9. new = <<D!Top.path, name>> /\ <<f.path, sensitive>> = <<D!Top.path, sensitive>> /\ D!Allocated(D!Top.path, sensitive, e) = D!Allocated(f.path, sensitive, e)
  BY DEF new, f
<1>10. CASE D!PullsDirectory(sensitive, name)
  <2> DEFINE h == D!Frame(e, Append(f.path, name))
             z == Append(q, h)
  <2>1. h \in PullFrame /\ h.path = Full(new)
    <3>1. e \in DOMAIN Listed
      BY <1>10 DEF D!PullsDirectory, D!IsDir, e, f
    <3>2. Append(f.path, name) \in Path
      BY <1>4 DEF Path
    <3> QED BY <3>1, <3>2, <1>7, HeldIs DEF D!Frame, PullFrame
  <2>2. z \in Seq(PullFrame) /\ Paths(z) \subseteq Paths(pull.stack) \cup {Full(new)}
    <3> HIDE DEF h
    <3> QED BY <2>1, <1>6, Afterword
  <2>3. pull' = [pull EXCEPT !.used = @ \cup {new}, !.sensitive = @ \cup {<<f.path, sensitive>>}, !.stack = z]
    <3>1. pull' = [D!NextEntry(name, sensitive) EXCEPT !.stack = Append(@, h)]
      BY <1>10 DEF D!PullsDirectory, e, f
    <3> HIDE DEF h
    <3> QED BY <3>1, <1>8, <1>2 DEF PullTypes
  <2>4. host' = [host EXCEPT !.written = @ \cup {}, !.created = @ \cup {w}]
    BY <1>10, <1>7, <1>2 DEF D!PullsDirectory, HostIs, f
  <2> HIDE DEF z
  <2> QED BY <1>1, <1>9, <2>2, <2>3, <2>4, Entered DEF w
<1>11. CASE D!PullsFile(sensitive, name)
  <2>1. pull' = D!NextEntry(name, sensitive)
    BY <1>11 DEF D!PullsFile
  <2>2. host' = [host EXCEPT !.written = @ \cup {<<w, e>>}, !.created = @ \cup {}]
    BY <1>11, <1>7, <1>2 DEF D!PullsFile, HostIs, e, f
  <2>3. pull' = [pull EXCEPT !.used = @ \cup {new}, !.sensitive = @ \cup {<<f.path, sensitive>>}, !.stack = q]
    BY <2>1, <1>8
  <2> QED BY <1>1, <1>6, <1>9, <2>3, <2>2, Entered DEF w
<1>12. CASE D!Skips(sensitive, name)
  <2>1. pull' = D!NextEntry(name, sensitive)
    BY <1>12 DEF D!Skips
  <2>2. host' = [host EXCEPT !.written = @ \cup {}, !.created = @ \cup {}]
    BY <1>12, <1>2 DEF D!Skips, HostIs
  <2>3. pull' = [pull EXCEPT !.used = @ \cup {new}, !.sensitive = @ \cup {<<f.path, sensitive>>}, !.stack = q]
    BY <2>1, <1>8
  <2> QED BY <1>1, <1>6, <1>9, <2>3, <2>2, Entered DEF w
<1> QED BY <1>10, <1>11, <1>12

LEMMA PullLeaves ==
    ASSUME PullInv, D!PullsNext \/ D!PullFails
    PROVE  PullInv'
<1>1. /\ pull \in PullTypes /\ pull.stack \in Seq(PullFrame) /\ pull.stack # <<>> /\ pull.at = "pulling" /\ host' = host
  BY DEF PullInv, PullTypes, D!Pulling, D!PullsNext, D!PullFails
<1>2. D!Front(pull.stack) \in Seq(PullFrame) /\ Paths(D!Front(pull.stack)) \subseteq Paths(pull.stack)
  BY <1>1, Foreword
<1>3. /\ pull' \in PullTypes /\ pull'.at # "idle" /\ pull'.used = pull.used /\ pull'.sensitive = pull.sensitive
      /\ pull'.overwrite = pull.overwrite /\ pull'.stack \in {pull.stack, D!Front(pull.stack)}
  <2>1. CASE D!PullsNext
    <3> DEFINE a == IF Len(pull.stack) = 1 THEN "done" ELSE "pulling"
    <3>1. a \in {"done", "pulling"}
      OBVIOUS
    <3>2. pull' = [pull EXCEPT !.stack = D!Front(pull.stack), !.at = a]
      BY <2>1, <1>1 DEF D!PullsNext
    <3> HIDE DEF a
    <3> QED BY <3>1, <3>2, <1>1, <1>2 DEF PullTypes
  <2>2. CASE D!PullFails
    BY <2>2, <1>1 DEF D!PullFails, PullTypes
  <2> QED BY <2>1, <2>2
<1>4. AllMade(pull'.stack, pull.used)
  BY <1>2, <1>3 DEF PullInv, AllMade
<1>5. HostIs' /\ Written' = Written /\ D!NoClobber' /\ D!Misjudged' = D!Misjudged
  BY <1>1, <1>3 DEF PullInv, HostIs, Written, D!NoClobber, D!Misjudged
<1> QED BY <1>1, <1>3, <1>4, <1>5 DEF PullInv

TreeInv == RmInv /\ PullInv

LEMMA TreeStep ==
    ASSUME TreeInv, D!TreeNext
    PROVE  TreeInv'
<1>1. CASE \E overwrite \in BOOLEAN : D!Pulls(overwrite)
  <2>1. removal' = removal
    BY <1>1 DEF D!Pulls
  <2> QED BY <1>1, <2>1, PullBegins DEF TreeInv, RmInv
<1>2. CASE \E sensitive \in BOOLEAN, name \in D!Names :
              D!PullsDirectory(sensitive, name) \/ D!PullsFile(sensitive, name) \/ D!Skips(sensitive, name)
  <2>1. removal' = removal
    BY <1>2 DEF D!PullsDirectory, D!PullsFile, D!Skips
  <2> QED BY <1>2, <2>1, PullEnters DEF TreeInv, RmInv
<1>3. CASE D!PullsNext \/ D!PullFails
  <2>1. removal' = removal
    BY <1>3 DEF D!PullsNext, D!PullFails
  <2> QED BY <1>3, <2>1, PullLeaves DEF TreeInv, RmInv
<1>4. ASSUME UNCHANGED <<pull, host>>
      PROVE  PullInv'
  BY <1>4 DEF TreeInv, PullInv, HostIs, Written, D!NoClobber, D!Misjudged
<1>5. CASE D!Removes
  BY <1>5, <1>4, RmBegins DEF TreeInv, D!Removes
<1>6. CASE D!RmFails
  <2>1. removal' = [removal EXCEPT !.at = "threw"] /\ removal.at = "removing"
    BY <1>6 DEF D!RmFails, D!Removing
  <2>2. RmInv'
    BY <2>1 DEF TreeInv, RmInv, RmTypes
  <2> QED BY <2>2, <1>4, <1>6 DEF TreeInv, D!RmFails
<1>7. CASE \/ \E seen \in BOOLEAN : D!RemovesDirectory(seen)
           \/ \E outcome \in D!Outcomes : D!RemovesFile(outcome) \/ D!RemovesEmptied(outcome)
  <2>1. UNCHANGED <<pull, host>>
    BY <1>7 DEF D!RemovesDirectory, D!RemovesFile, D!RemovesEmptied
  <2> QED BY <2>1, <1>4, <1>7, RmStep DEF TreeInv
<1> QED BY <1>1, <1>2, <1>3, <1>5, <1>6, <1>7 DEF D!TreeNext

LEMMA TreeInitInv ==
    ASSUME D!TreeInit
    PROVE  TreeInv
  BY RmInitInv, PullInitInv DEF TreeInv

LEMMA TreeHolds == TreeInv => D!NoClobber /\ D!RemovedOrReported
  BY RmHolds DEF TreeInv, PullInv

-----------------------------------------------------------------------------
(* One of them runs. *)

LinksInv ==
    /\ component = "usbmux" => MuxInv
    /\ component = "forwarder" => Tracked
    /\ component = "lockdown" => LdInv
    /\ component = "testmanager" => TmInv /\ FrameInv
    /\ component = "webinspector" => OneLive /\ YieldInv
    /\ component = "crash" => Reading /\ ReportsInv
    /\ component = "mounter" => MtInv
    /\ component = "proxy" => PxInv
    /\ component = "transfer" => AtInv
    /\ component = "tree" => TreeInv

LEMMA LinksInitInv ==
    ASSUME LinksInit
    PROVE  LinksInv
  BY MuxInitInv, ForwarderInit, LdInitInv, TmInitInv, FrameInitInv, WebInit, YieldInitInv, CrashInit, ReportsInitInv,
     MtInitInv, PxInitInv, AtInitInv, TreeInitInv DEF LinksInit, LinksInv

LEMMA LinksStep ==
    ASSUME LinksInv, LinksNext
    PROVE  LinksInv'
<1>1. CASE Usbmux
  <2>1. component = "usbmux" /\ component' = component /\ U!MuxNext
    BY <1>1 DEF Usbmux, LinksRest
  <2> QED BY <2>1, MuxStep DEF LinksInv
<1>2. CASE Forwarder
  <2>1. component = "forwarder" /\ component' = component /\ P!PfNext
    BY <1>2 DEF Forwarder, LinksRest
  <2> QED BY <2>1, ForwarderStep DEF LinksInv
<1>3. CASE Lockdown
  <2>1. component = "lockdown" /\ component' = component /\ L!LdNext
    BY <1>3 DEF Lockdown, LinksRest
  <2> QED BY <2>1, LdStep DEF LinksInv
<1>4. CASE Testmanager
  <2>1. component = "testmanager" /\ component' = component /\ T!TmNext
    BY <1>4 DEF Testmanager, LinksRest
  <2> QED BY <2>1, TmStep, FrameStep DEF LinksInv
<1>5. CASE Webinspector
  <2>1. component = "webinspector" /\ component' = component /\ W!InspectNext
    BY <1>5 DEF Webinspector, LinksRest
  <2> QED BY <2>1, WebStep, YieldStep DEF LinksInv
<1>6. CASE Crash
  <2>1. component = "crash" /\ component' = component /\ C!CrashNext
    BY <1>6 DEF Crash, LinksRest
  <2> QED BY <2>1, CrashStep, ReportsStep DEF LinksInv
<1>7. CASE Mounter
  <2>1. component = "mounter" /\ component' = component /\ I!MounterNext
    BY <1>7 DEF Mounter, LinksRest
  <2> QED BY <2>1, MtStep DEF LinksInv
<1>8. CASE Proxy
  <2>1. component = "proxy" /\ component' = component /\ N!ProxyNext
    BY <1>8 DEF Proxy, LinksRest
  <2> QED BY <2>1, PxStep DEF LinksInv
<1>9. CASE Transfer
  <2>1. component = "transfer" /\ component' = component /\ F!AtNext
    BY <1>9 DEF Transfer, LinksRest
  <2> QED BY <2>1, AtStep DEF LinksInv
<1>10. CASE Tree
  <2>1. component = "tree" /\ component' = component /\ D!TreeNext
    BY <1>10 DEF Tree, LinksRest
  <2> QED BY <2>1, TreeStep DEF LinksInv
<1> QED BY <1>1, <1>2, <1>3, <1>4, <1>5, <1>6, <1>7, <1>8, <1>9, <1>10 DEF LinksNext

LEMMA LinksSame ==
    ASSUME LinksInv, UNCHANGED linksVars
    PROVE  LinksInv'
<1>1. /\ UNCHANGED component /\ UNCHANGED usbmuxVars /\ UNCHANGED forwarderVars /\ UNCHANGED lockdownVars
      /\ UNCHANGED testmanagerVars /\ UNCHANGED webinspectorVars /\ UNCHANGED crashVars /\ UNCHANGED mounterVars
      /\ UNCHANGED proxyVars /\ UNCHANGED transferVars /\ UNCHANGED treeVars
  BY DEF linksVars
<1>2. MuxInv => MuxInv'
  BY <1>1 DEF MuxInv, usbmuxVars
<1>3. Tracked => Tracked'
  BY <1>1 DEF Tracked, forwarderVars
<1>4. LdInv => LdInv'
  BY <1>1 DEF LdInv, LdTyped, Secure, Uncrossed, lockdownVars
<1>5. TmInv => TmInv'
  BY <1>1 DEF TmInv, TmOpen, TmTyped, testmanagerVars
<1>6. OneLive => OneLive'
  BY <1>1 DEF OneLive, webinspectorVars
<1>7. Reading => Reading'
  BY <1>1 DEF Reading, crashVars
<1>8. MtInv => MtInv'
  BY <1>1 DEF MtInv, MtTyped, mounterVars
<1>9. PxInv => PxInv'
  BY <1>1 DEF PxInv, proxyVars
<1>10. component' = component
  BY <1>1
<1>11. FrameInv => FrameInv'
  BY <1>1 DEF FrameInv, FrameShapes, testmanagerVars
<1>12. YieldInv => YieldInv'
  BY <1>1 DEF YieldInv, YieldTyped, webinspectorVars
<1>13. ReportsInv => ReportsInv'
  BY <1>1 DEF ReportsInv, crashVars
<1>14. AtInv => AtInv'
  BY <1>1 DEF AtInv, AtTyped, HandleHeld, UnitsCounted, OutcomeKept, F!ReadServed, F!MovingIn, F!MovingOut, transferVars
<1>15. TreeInv => TreeInv'
  BY <1>1 DEF TreeInv, RmInv, PullInv, HostIs, Written, D!NoClobber, D!Misjudged, treeVars
<1> QED BY <1>2, <1>3, <1>4, <1>5, <1>6, <1>7, <1>8, <1>9, <1>10, <1>11, <1>12, <1>13, <1>14, <1>15 DEF LinksInv

\* Whichever of them runs, its invariant holds.
LEMMA LinksCorrect == LinksSpec => []LinksInv
<1>1. LinksInit => LinksInv
  BY LinksInitInv
<1>2. LinksInv /\ [LinksNext]_linksVars => LinksInv'
  BY LinksStep, LinksSame
<1> QED BY <1>1, <1>2, PTL DEF LinksSpec

\* A connection is used as what it is now (Usbmux, DevicePortForwarder, LockdownService,
\* WebInspectorService, CrashReportsService): whatever is dialled, ended, upgraded or timed out,
\* but for what a user writes in clear while a service that he made himself is upgraded.
THEOREM ConnectionsAreHeld == LinksSpec => []ConnectionsHeld
<1>1. LinksInv => ConnectionsHeld
  BY MuxHolds, ForwarderHolds, LdHolds, WebHolds, CrashHolds DEF LinksInv, ConnectionsHeld
<1> QED BY <1>1, LinksCorrect, PTL

\* An answer reaches the request it is of (the tags of Usbmux, the order of LockdownService, the callbacks
\* of testmanagerd, the steps of a mount, the parts of an installation_proxy list): whatever is
\* given up and answered late.
THEOREM AnswersReachTheirRequests == LinksSpec => []AnswersMatch
<1>1. LinksInv => AnswersMatch
  BY MuxHolds, LdHolds, TmHolds, MtHolds, PxHolds DEF LinksInv, AnswersMatch
<1> QED BY <1>1, LinksCorrect, PTL

\* What comes out is what went in (the frames of testmanagerd, the messages of WebInspectorService,
\* the reports that CrashReportsService watches for, a file over AFC): however it is cut, buffered,
\* interrupted or stopped.
THEOREM StreamsStayExact == LinksSpec => []StreamsExact
<1>1. LinksInv => StreamsExact
  BY FrameHolds, YieldHolds, ReportsHold, AtHolds DEF LinksInv, StreamsExact
<1> QED BY <1>1, LinksCorrect, PTL

\* AfcService.pull writes no entry over another, unless the host was misjudged and may be written
\* over, and rm reports what it leaves and else only what was removed without an answer: for every
\* tree, every way names are sanitized and told apart, and whatever is on the host already.
THEOREM TreesAreKept == LinksSpec => []TreesKept
<1>1. LinksInv => TreesKept
  BY TreeHolds DEF LinksInv, TreesKept
<1> QED BY <1>1, LinksCorrect, PTL
=============================================================================
