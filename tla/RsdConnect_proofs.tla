-------------------------- MODULE RsdConnect_proofs --------------------------
(* Safety of RsdConnect, and the proof that it implements Discovery, for every *)
(* set of callers and number of discoveries.                                   *)
EXTENDS RsdConnect, TLAPS

-----------------------------------------------------------------------------
(* The inductive invariant: what holds of each client, and that at most one     *)
(* discovery is in flight.                                                      *)

\* After an 'error' was heard, a second one is impossible: no data arrives any
\* more, and the socket's own errors are not reported.
Silent(k) ==
    /\ ~k.hasSocket
    /\ \/ k.link \in {"dying", "closed"}
       \/ k.closing
       \/ ~k.connected /\ k.progress \notin {"dialing", "delay", "writing"}

\* The transport and the timers.
TransportInv(k) ==
    /\ k \in Fields
    /\ k.hasSocket => k.hasTransport /\ k.shutdown = "no" /\ k.link # "none"
    /\ k.services => k.session = "ok"
    /\ k.closer # "none" <=> k.shutdown = "running"
    /\ ~k.unheard
    /\ k.link = "dialing" => k.progress = "dialing"
    /\ k.errorHeard \/ Silent(k)

\* The caller of connect().
UserInv(k) ==
    /\ k.session = "open" <=> k.user = "connecting"
    /\ k.hasSocket => k.user = "connecting"
    /\ k.user = "closing" <=> k.closer = "user"
    /\ k.user = "connecting" => k.result = "none" /\ k.errorHeard
    /\ k.user \in {"closing", "done"} => k.result # "none"
    /\ k.link # "none" \/ k.shutdown # "no"
    /\ ~k.hasSocket => k.link \in {"dying", "closed"} \/ k.shutdown # "no"
    /\ k.user = "done" /\ k.result = "ok" =>
          k.link \in {"dying", "closed"} /\ k.shutdown = "finished"

Used(k) == k.user # "none" /\ TransportInv(k) /\ UserInv(k)

ClientInv(k) == k = Unused \/ Used(k)

\* What a step of a client may do to the discovery it carries.
Moves(k, n) ==
    /\ n.user # "none"
    /\ \/ n.user = k.user /\ n.result = k.result
       \/ k.user = "connecting" /\ n.user = "closing"
       \/ k.user = "connecting" /\ n.user = "done" /\ n.result = "failed"
       \/ k.user = "closing" /\ n.user = "done" /\ n.result = k.result

OneInFlight == \A d, e \in InFlight : d = e

IInv ==
    /\ clients \in [Client -> Fields]
    /\ awaits \in [Caller -> 0..MaxDiscoveries]
    /\ \A d \in Client : ClientInv(clients[d])
    /\ OneInFlight
    /\ \A c \in Caller : awaits[c] # 0 => clients[awaits[c]].user # "none"
-----------------------------------------------------------------------------
(* The handlers, as functions of a client's state.                             *)

\* The caller of connect() has not resumed.
Awaited(k) ==
    /\ k \in Fields
    /\ k.user = "connecting" /\ k.result = "none"
    /\ k.services <=> k.session = "ok"
    /\ k.hasSocket => k.hasTransport /\ k.shutdown = "no" /\ k.link # "none"
    /\ ~k.hasSocket => k.link \in {"dying", "closed"} \/ k.shutdown # "no"
    /\ k.closer # "none" <=> k.shutdown = "running"
    /\ k.closer # "user"
    /\ ~k.unheard
    /\ k.link = "dialing" => k.progress = "dialing"
    /\ k.errorHeard \/ k.hasSocket \/ k.link \in {"dying", "closed"}

Open(k) == Awaited(k) /\ k.session = "open"

\* connect() has just been settled, and its caller is about to resume.
Resumable(k) ==
    /\ Awaited(k)
    /\ k.session \in {"ok", "failed"}
    /\ k.session = "ok" => k.hasSocket

\* The caller closes the client, and waits exactly if it is the first to close.
LEMMA UserResumesInv ==
    ASSUME NEW k, Resumable(k)
    PROVE  Used(UserResumes(k)) /\ Moves(k, UserResumes(k))
<1>1. PICK o \in {"ok", "failed"} : o = "ok" <=> k.session = "ok"
  OBVIOUS
<1>2. k \in Fields
  BY DEF Awaited, Resumable
<1>3. UserResumes(k) = ClientClose([k EXCEPT !.result = o, !.user = "closing"], "user")
  BY <1>1, <1>2 DEF UserResumes, Awaited, Resumable, Fields
<1>4. CASE k.hasSocket
  <2> DEFINE N == [k EXCEPT !.result = o, !.user = "closing", !.serviceTimer = FALSE,
                            !.hasSocket = FALSE, !.connected = FALSE, !.closing = TRUE,
                            !.shutdown = "running", !.closer = "user"]
  <2>1. UserResumes(k) = N
    BY <1>2, <1>3, <1>4 DEF ClientClose, TransportClose, Awaited, Resumable, Fields
  <2>2. ASSUME NEW n, n = N  PROVE Used(n) /\ Moves(k, n)
    <3>1. /\ n \in Fields
          /\ n.link = k.link /\ n.shutdown = "running" /\ n.closer = "user" /\ ~n.hasSocket
          /\ n.closing /\ n.services = k.services /\ n.session = k.session
          /\ n.progress = k.progress /\ n.user = "closing" /\ n.result = o
          /\ n.errorHeard = k.errorHeard /\ n.unheard = k.unheard
      <4>1. n \in Fields
        BY <1>2, <2>2, ZenonT(120) DEF Fields
      <4>2. /\ n.link = k.link /\ n.shutdown = "running" /\ n.closer = "user" /\ ~n.hasSocket
            /\ n.closing /\ n.services = k.services /\ n.session = k.session
            /\ n.progress = k.progress /\ n.user = "closing" /\ n.result = o
            /\ n.errorHeard = k.errorHeard /\ n.unheard = k.unheard
        BY <1>2, <2>2 DEF Fields
      <4> QED BY <4>1, <4>2
    <3> HIDE DEF N
    <3>2. TransportInv(n)
      BY <3>1 DEF Awaited, Resumable, TransportInv, Silent
    <3>3. UserInv(n) /\ Moves(k, n)
      BY <1>1, <3>1 DEF Awaited, Resumable, UserInv, Moves
    <3> QED BY <3>1, <3>2, <3>3 DEF Used, Moves
  <2> QED BY <2>1, <2>2
<1>5. CASE ~k.hasSocket /\ ~k.hasTransport
  <2> DEFINE N == [k EXCEPT !.result = o, !.user = "done", !.serviceTimer = FALSE]
  <2>1. UserResumes(k) = N
    BY <1>2, <1>3, <1>5 DEF ClientClose, ClosedFor, Awaited, Resumable, Fields
  <2>2. ASSUME NEW n, n = N  PROVE Used(n) /\ Moves(k, n)
    <3>1. /\ n \in Fields
          /\ n.link = k.link /\ n.shutdown = k.shutdown /\ n.closer = k.closer
          /\ n.connected = k.connected /\ n.progress = k.progress
          /\ ~n.hasSocket /\ n.closing = k.closing /\ n.services = k.services
          /\ n.session = k.session /\ n.user = "done" /\ n.result = o
          /\ n.errorHeard = k.errorHeard /\ n.unheard = k.unheard
      <4>1. n \in Fields
        BY <1>2, <1>5, <2>2, ZenonT(120) DEF Fields
      <4>2. /\ n.link = k.link /\ n.shutdown = k.shutdown /\ n.closer = k.closer
            /\ n.connected = k.connected /\ n.progress = k.progress
            /\ ~n.hasSocket /\ n.closing = k.closing /\ n.services = k.services
            /\ n.session = k.session /\ n.user = "done" /\ n.result = o
            /\ n.errorHeard = k.errorHeard /\ n.unheard = k.unheard
        BY <1>2, <1>5, <2>2 DEF Fields
      <4> QED BY <4>1, <4>2
    <3> HIDE DEF N
    <3>2. TransportInv(n)
      BY <1>5, <3>1 DEF Awaited, Resumable, TransportInv, Silent
    <3>3. UserInv(n) /\ Moves(k, n)
      BY <1>1, <1>5, <3>1 DEF Awaited, Resumable, UserInv, Moves
    <3> QED BY <3>1, <3>2, <3>3 DEF Used, Moves
  <2> QED BY <2>1, <2>2
<1>6. CASE ~k.hasSocket /\ k.hasTransport
  <2> DEFINE N == [k EXCEPT !.result = o, !.user = "done", !.serviceTimer = FALSE,
                            !.connected = FALSE, !.closing = FALSE,
                            !.hasTransport = FALSE, !.services = FALSE]
  <2>1. UserResumes(k) = N
    BY <1>2, <1>3, <1>6 DEF ClientClose, TransportClose, CleanupResources, ClosedFor,
                            Awaited, Resumable, Fields
  <2>2. ASSUME NEW n, n = N  PROVE Used(n) /\ Moves(k, n)
    <3>1. /\ n \in Fields
          /\ n.link = k.link /\ n.shutdown = k.shutdown /\ n.closer = k.closer
          /\ ~n.connected /\ n.progress = k.progress
          /\ ~n.hasSocket /\ ~n.closing /\ ~n.services
          /\ n.session = k.session /\ n.user = "done" /\ n.result = o
          /\ n.errorHeard = k.errorHeard /\ n.unheard = k.unheard
      <4>1. n \in Fields
        BY <1>2, <1>6, <2>2, ZenonT(120) DEF Fields
      <4>2. /\ n.link = k.link /\ n.shutdown = k.shutdown /\ n.closer = k.closer
            /\ ~n.connected /\ n.progress = k.progress
            /\ ~n.hasSocket /\ ~n.closing /\ ~n.services
            /\ n.session = k.session /\ n.user = "done" /\ n.result = o
            /\ n.errorHeard = k.errorHeard /\ n.unheard = k.unheard
        BY <1>2, <1>6, <2>2 DEF Fields
      <4> QED BY <4>1, <4>2
    <3> HIDE DEF N
    <3>2. TransportInv(n)
      BY <1>6, <3>1 DEF Awaited, Resumable, TransportInv, Silent
    <3>3. UserInv(n) /\ Moves(k, n)
      BY <1>1, <1>6, <3>1 DEF Awaited, Resumable, UserInv, Moves
    <3> QED BY <3>1, <3>2, <3>3 DEF Used, Moves
  <2> QED BY <2>1, <2>2
<1> QED BY <1>2, <1>4, <1>5, <1>6 DEF Fields

\* A transport in use belongs to a caller that awaits connect().
LEMMA OpenInv ==
    ASSUME NEW k, Used(k), k.session = "open"
    PROVE  Open(k) /\ k.errorHeard
BY DEF Used, TransportInv, UserInv, Open, Awaited, Fields

\* Settling connect() either resumes its caller or does nothing.
LEMMA SettledInv ==
    ASSUME NEW k, NEW o \in {"ok", "failed"},
           \/ Open(k) /\ (o = "ok" => k.hasSocket)
           \/ Used(k) /\ k.session # "open"
    PROVE  Used(Settled(k, o)) /\ Moves(k, Settled(k, o))
<1>1. CASE k.session # "open"
  BY <1>1 DEF Open, Settled, Used, Moves
<1>2. CASE k.session = "open" /\ o = "ok"
  <2> DEFINE N == [k EXCEPT !.session = "ok", !.services = TRUE]
  <2>1. Settled(k, o) = UserResumes(N)
    BY <1>2 DEF Settled, Open, Awaited, Fields
  <2>2. ASSUME NEW n, n = N  PROVE Resumable(n) /\ n.user = k.user /\ n.result = k.result
    BY <1>2, <2>2 DEF Open, Awaited, Resumable, Fields
  <2> QED BY <2>1, <2>2, UserResumesInv DEF Moves
<1>3. CASE k.session = "open" /\ o = "failed"
  <2> DEFINE N == [k EXCEPT !.session = "failed", !.services = FALSE]
  <2>1. Settled(k, o) = UserResumes(N)
    BY <1>3 DEF Settled, Open, Awaited, Fields
  <2>2. ASSUME NEW n, n = N  PROVE Resumable(n) /\ n.user = k.user /\ n.result = k.result
    BY <1>3, <2>2 DEF Open, Awaited, Resumable, Fields
  <2> QED BY <2>1, <2>2, UserResumesInv DEF Moves
<1> QED BY <1>1, <1>2, <1>3

\* The catch block of connectTransport may run.
Threw(k) ==
    /\ k.user # "none"
    /\ k \in Fields
    /\ UserInv(k)
    /\ k.hasSocket => k.hasTransport /\ k.shutdown = "no" /\ k.link # "none"
    /\ k.services => k.session = "ok"
    /\ k.closer # "none" <=> k.shutdown = "running"
    /\ ~k.unheard
    /\ k.link # "dialing"
    /\ ~k.errorHeard =>
          ~k.hasSocket /\ (k.link \in {"dying", "closed"} \/ ~k.connected \/ k.closing)

\* It settles connect(), closes the client and leaves both in order.
LEMMA ConnectThrewInv ==
    ASSUME NEW k, Threw(k)
    PROVE  Used(ConnectThrew(k)) /\ Moves(k, ConnectThrew(k))
<1>0. k \in Fields
  BY DEF Threw
<1>1. CASE k.session = "open"
  <2> DEFINE R == [k EXCEPT !.session = "failed", !.progress = "catch"]
             C == ClientClose(R, "connect")
  <2>1. ConnectThrew(k) = UserResumes(C)
    BY <1>0, <1>1 DEF ConnectThrew, Fields
  <2>2. CASE ~k.hasTransport
    <3> DEFINE N == [k EXCEPT !.session = "failed", !.progress = "over", !.serviceTimer = FALSE]
    <3>1. C = N
      BY <1>0, <2>2 DEF ClientClose, ClosedFor, Fields
    <3>2. ASSUME NEW n, n = N  PROVE Resumable(n) /\ n.user = k.user /\ n.result = k.result
      BY <1>0, <1>1, <2>2, <3>2, ZenonT(120) DEF Threw, UserInv, Awaited, Resumable, Fields
    <3> QED BY <2>1, <3>1, <3>2, UserResumesInv DEF Moves
  <2>3. CASE k.hasTransport /\ k.hasSocket
    <3> DEFINE N == [k EXCEPT !.session = "failed", !.progress = "catch", !.serviceTimer = FALSE,
                              !.hasSocket = FALSE, !.connected = FALSE, !.closing = TRUE,
                              !.shutdown = "running", !.closer = "connect"]
    <3>1. C = N
      BY <1>0, <2>3 DEF ClientClose, TransportClose, Fields
    <3>2. ASSUME NEW n, n = N  PROVE Resumable(n) /\ n.user = k.user /\ n.result = k.result
      BY <1>0, <1>1, <2>3, <3>2, ZenonT(120) DEF Threw, UserInv, Awaited, Resumable, Fields
    <3> QED BY <2>1, <3>1, <3>2, UserResumesInv DEF Moves
  <2>4. CASE k.hasTransport /\ ~k.hasSocket
    <3> DEFINE N == [k EXCEPT !.session = "failed", !.progress = "over", !.serviceTimer = FALSE,
                              !.connected = FALSE, !.closing = FALSE,
                              !.hasTransport = FALSE, !.services = FALSE]
    <3>1. C = N
      BY <1>0, <2>4 DEF ClientClose, TransportClose, CleanupResources, ClosedFor, Fields
    <3>2. ASSUME NEW n, n = N  PROVE Resumable(n) /\ n.user = k.user /\ n.result = k.result
      <4>1. /\ n \in Fields
            /\ n.link = k.link /\ n.shutdown = k.shutdown /\ n.closer = k.closer
            /\ ~n.hasSocket /\ ~n.services /\ n.session = "failed" /\ n.user = k.user
            /\ n.result = k.result /\ n.errorHeard = k.errorHeard /\ n.unheard = k.unheard
        <5>1. n \in Fields
          BY <1>0, <2>4, <3>2, ZenonT(120) DEF Fields
        <5>2. /\ n.link = k.link /\ n.shutdown = k.shutdown /\ n.closer = k.closer
              /\ ~n.hasSocket /\ ~n.services /\ n.session = "failed" /\ n.user = k.user
              /\ n.result = k.result /\ n.errorHeard = k.errorHeard /\ n.unheard = k.unheard
          BY <1>0, <2>4, <3>2 DEF Fields
        <5> QED BY <5>1, <5>2
      <4> HIDE DEF N
      <4> QED BY <1>1, <2>4, <4>1 DEF Threw, UserInv, Awaited, Resumable
    <3> QED BY <2>1, <3>1, <3>2, UserResumesInv DEF Moves
  <2> QED BY <1>0, <2>2, <2>3, <2>4 DEF Fields
<1>2. CASE k.session # "open" /\ ~k.hasTransport
  <2> DEFINE N == [k EXCEPT !.progress = "over", !.serviceTimer = FALSE]
  <2>1. ConnectThrew(k) = N
    BY <1>0, <1>2 DEF ConnectThrew, ClientClose, ClosedFor, Fields
  <2>2. ASSUME NEW n, n = N  PROVE Used(n) /\ Moves(k, n)
    <3>1. /\ n \in Fields
          /\ n.link = k.link /\ n.shutdown = k.shutdown /\ n.closer = k.closer
          /\ n.hasSocket = k.hasSocket /\ n.connected = k.connected /\ n.closing = k.closing
          /\ n.progress = "over" /\ n.services = k.services /\ n.session = k.session
          /\ n.user = k.user /\ n.result = k.result
          /\ n.errorHeard = k.errorHeard /\ n.unheard = k.unheard
      BY <1>0, <1>2, <2>2 DEF Fields
    <3> HIDE DEF N
    <3>2. TransportInv(n)
      BY <1>2, <3>1 DEF Threw, UserInv, TransportInv, Silent
    <3>3. UserInv(n)
      BY <1>2, <3>1 DEF Threw, UserInv
    <3> QED BY <3>1, <3>2, <3>3 DEF Threw, Used, Moves
  <2> QED BY <2>1, <2>2
<1>3. CASE k.session # "open" /\ k.hasTransport
  <2> DEFINE N == [k EXCEPT !.progress = "over", !.serviceTimer = FALSE, !.connected = FALSE,
                            !.closing = FALSE, !.hasTransport = FALSE, !.services = FALSE]
  <2>1. ConnectThrew(k) = N
    BY <1>0, <1>3, ZenonT(120) DEF ConnectThrew, ClientClose, TransportClose, CleanupResources, ClosedFor,
                      Threw, UserInv, Fields
  <2>2. ASSUME NEW n, n = N  PROVE Used(n) /\ Moves(k, n)
    <3>1. /\ n \in Fields
          /\ n.link = k.link /\ n.shutdown = k.shutdown /\ n.closer = k.closer
          /\ n.hasSocket = k.hasSocket /\ ~n.connected /\ n.progress = "over"
          /\ ~n.services /\ n.session = k.session /\ n.user = k.user /\ n.result = k.result
          /\ n.errorHeard = k.errorHeard /\ n.unheard = k.unheard
      <4>1. n \in Fields
        BY <1>0, <1>3, <2>2, ZenonT(120) DEF Fields
      <4>2. /\ n.link = k.link /\ n.shutdown = k.shutdown /\ n.closer = k.closer
            /\ n.hasSocket = k.hasSocket /\ ~n.connected /\ n.progress = "over"
            /\ ~n.services /\ n.session = k.session /\ n.user = k.user /\ n.result = k.result
            /\ n.errorHeard = k.errorHeard /\ n.unheard = k.unheard
        BY <1>0, <1>3, <2>2 DEF Fields
      <4> QED BY <4>1, <4>2
    <3> HIDE DEF N
    <3>2. TransportInv(n)
      BY <1>3, <3>1 DEF Threw, UserInv, TransportInv, Silent
    <3>3. UserInv(n)
      BY <1>3, <3>1 DEF Threw, UserInv
    <3> QED BY <3>1, <3>2, <3>3 DEF Threw, Used, Moves
  <2> QED BY <2>1, <2>2
<1> QED BY <1>0, <1>1, <1>2, <1>3 DEF Fields

\* The end of a shutdown, whoever awaits it.
LEMMA ShutdownFinishedInv ==
    ASSUME NEW k, Used(k), k.shutdown = "running", k.link \in {"dying", "closed"}
    PROVE  Used(ShutdownFinished(k)) /\ Moves(k, ShutdownFinished(k))
<1> DEFINE F == [k EXCEPT !.shutdown = "finished", !.closing = FALSE, !.closer = "none"]
<1>0. k \in Fields /\ ~k.hasSocket /\ k.closer # "none"
  BY DEF Used, TransportInv, Fields
<1>1. CASE k.closer = "handshake"
  <2>1. ShutdownFinished(k) = ConnectThrew(F)
    BY <1>1 DEF ShutdownFinished
  <2>2. ASSUME NEW n, n = F  PROVE Threw(n) /\ n.user = k.user /\ n.result = k.result
    <3>1. /\ n \in Fields
          /\ n.link = k.link /\ n.shutdown = "finished" /\ n.closer = "none" /\ ~n.hasSocket
          /\ n.services = k.services /\ n.session = k.session /\ n.user = k.user
          /\ n.result = k.result /\ n.errorHeard = k.errorHeard /\ n.unheard = k.unheard
      BY <1>0, <2>2 DEF Fields
    <3> HIDE DEF F
    <3> QED BY <1>1, <3>1 DEF Used, TransportInv, UserInv, Threw
  <2> QED BY <2>1, <2>2, ConnectThrewInv DEF Moves
<1>2. CASE k.closer = "timer"
  <2> DEFINE N == [k EXCEPT !.shutdown = "finished", !.closing = FALSE, !.closer = "none",
                            !.serviceTimer = FALSE, !.hasTransport = FALSE, !.services = FALSE]
  <2>1. ShutdownFinished(k) = Settled(N, "failed")
    BY <1>0, <1>2 DEF ShutdownFinished, CleanupResources, Fields
  <2>2. ASSUME NEW n, n = N
        PROVE  /\ Open(n) \/ (Used(n) /\ n.session # "open")
               /\ n.user = k.user /\ n.result = k.result
    <3>1. /\ n \in Fields
          /\ n.link = k.link /\ n.shutdown = "finished" /\ n.closer = "none" /\ ~n.hasSocket
          /\ ~n.services /\ n.session = k.session /\ n.user = k.user /\ n.result = k.result
          /\ n.errorHeard = k.errorHeard /\ n.unheard = k.unheard /\ n.progress = k.progress
      BY <1>0, <2>2 DEF Fields
    <3> HIDE DEF N
    <3>2. CASE k.session = "open"
      <4>1. n.user = "connecting" /\ n.result = "none" /\ n.errorHeard /\ ~n.unheard
        BY <3>1, <3>2 DEF Used, TransportInv, UserInv
      <4> QED BY <3>1, <3>2, <4>1 DEF Open, Awaited
    <3>3. CASE k.session # "open"
      BY <1>2, <3>1, <3>3 DEF Used, TransportInv, UserInv, Silent
    <3> QED BY <3>1, <3>2, <3>3
  <2> QED BY <2>1, <2>2, SettledInv DEF Moves
<1>3. CASE k.closer = "force"
  <2>1. ShutdownFinished(k) = F
    BY <1>3 DEF ShutdownFinished
  <2>2. ASSUME NEW n, n = F  PROVE Used(n) /\ Moves(k, n)
    <3>1. /\ n \in Fields
          /\ n.link = k.link /\ n.shutdown = "finished" /\ n.closer = "none" /\ ~n.hasSocket
          /\ n.services = k.services /\ n.session = k.session /\ n.user = k.user
          /\ n.result = k.result /\ n.progress = k.progress
          /\ n.errorHeard = k.errorHeard /\ n.unheard = k.unheard
      BY <1>0, <2>2 DEF Fields
    <3> HIDE DEF F
    <3> QED BY <1>3, <3>1 DEF Used, TransportInv, UserInv, Silent, Moves
  <2> QED BY <2>1, <2>2
<1>4. CASE k.closer = "user"
  <2> DEFINE N == [k EXCEPT !.shutdown = "finished", !.closing = FALSE, !.closer = "none",
                            !.serviceTimer = FALSE, !.hasTransport = FALSE, !.services = FALSE,
                            !.user = "done"]
  <2>1. ShutdownFinished(k) = N
    BY <1>0, <1>4 DEF ShutdownFinished, CleanupResources, ClosedFor, Fields
  <2>2. ASSUME NEW n, n = N  PROVE Used(n) /\ Moves(k, n)
    <3>1. /\ n \in Fields
          /\ n.link = k.link /\ n.shutdown = "finished" /\ n.closer = "none" /\ ~n.hasSocket
          /\ ~n.services /\ n.session = k.session /\ n.user = "done"
          /\ n.result = k.result /\ n.progress = k.progress
          /\ n.errorHeard = k.errorHeard /\ n.unheard = k.unheard
      BY <1>0, <2>2 DEF Fields
    <3> HIDE DEF N
    <3> QED BY <1>4, <3>1 DEF Used, TransportInv, UserInv, Silent, Moves
  <2> QED BY <2>1, <2>2
<1>5. CASE k.closer = "connect"
  <2> DEFINE N == [k EXCEPT !.shutdown = "finished", !.closing = FALSE, !.closer = "none",
                            !.serviceTimer = FALSE, !.hasTransport = FALSE, !.services = FALSE,
                            !.progress = "over"]
  <2>1. ShutdownFinished(k) = N
    BY <1>0, <1>5 DEF ShutdownFinished, CleanupResources, ClosedFor, Fields
  <2>2. ASSUME NEW n, n = N  PROVE Used(n) /\ Moves(k, n)
    <3>1. /\ n \in Fields
          /\ n.link = k.link /\ n.shutdown = "finished" /\ n.closer = "none" /\ ~n.hasSocket
          /\ ~n.services /\ n.session = k.session /\ n.user = k.user
          /\ n.result = k.result /\ n.progress = "over"
          /\ n.errorHeard = k.errorHeard /\ n.unheard = k.unheard
      BY <1>0, <2>2 DEF Fields
    <3> HIDE DEF N
    <3> QED BY <1>5, <3>1 DEF Used, TransportInv, UserInv, Silent, Moves
  <2> QED BY <2>1, <2>2
<1> QED BY <1>0, <1>1, <1>2, <1>3, <1>4, <1>5 DEF Fields

\* A first 'error' is heard, and no second one comes.
LEMMA EmitErrorInv ==
    ASSUME NEW k \in Fields, k.errorHeard,
           \/ Open(k) /\ (k.hasSocket \/ k.link \in {"dying", "closed"})
           \/ Used(k) /\ k.session # "open" /\ k.link \in {"dying", "closed"}
    PROVE  Used(EmitError(k)) /\ Moves(k, EmitError(k))
<1> DEFINE N == [k EXCEPT !.errorHeard = FALSE]
<1>1. EmitError(k) = Settled(N, "failed")
  BY DEF EmitError
<1>2. ASSUME NEW n, n = N
      PROVE  /\ Open(n) \/ (Used(n) /\ n.session # "open")
             /\ n.user = k.user /\ n.result = k.result
  <2>1. /\ n \in Fields
        /\ n.link = k.link /\ n.shutdown = k.shutdown /\ n.closer = k.closer
        /\ n.hasSocket = k.hasSocket /\ n.hasTransport = k.hasTransport
        /\ (n.services <=> k.services) /\ n.session = k.session /\ n.user = k.user
        /\ n.result = k.result /\ n.progress = k.progress /\ n.unheard = k.unheard
    BY <1>2 DEF Fields
  <2> HIDE DEF N
  <2>2. CASE Open(k)
    BY <2>1, <2>2 DEF Open, Awaited
  <2>3. CASE Used(k) /\ k.session # "open" /\ k.link \in {"dying", "closed"}
    BY <2>1, <2>3 DEF Used, TransportInv, UserInv, Silent
  <2> QED BY <2>1, <2>2, <2>3
<1> QED BY <1>1, <1>2, SettledInv DEF Moves

-----------------------------------------------------------------------------
(* The steps of a client.                                                      *)

\* A step takes client d from one state in order to another, along Moves.
Stepped(d) ==
    /\ UNCHANGED awaits
    /\ \E n : /\ clients' = [clients EXCEPT ![d] = n]
              /\ Used(clients[d]) /\ Used(n) /\ Moves(clients[d], n)

\* A client that was never constructed takes no step.
LEMMA UsedClient ==
    ASSUME NEW k, ClientInv(k),
           k.link # "none" \/ k.progress # "none" \/ k.session # "none" \/ k.serviceTimer
               \/ k.shutdown # "no"
    PROVE  Used(k) /\ k \in Fields
<1>1. k # Unused
  BY DEF Unused
<1> QED BY <1>1 DEF ClientInv, Used, TransportInv

LEMMA ConnectedSteps ==
    ASSUME IInv, NEW d \in Client, Connected(d)
    PROVE  Stepped(d)
<1>1. PICK k : k = clients[d]
  OBVIOUS
<1> DEFINE N == [k EXCEPT !.link = "open", !.progress = "delay"]
<1>2. k.link = "dialing" /\ Change(d, N)
  BY <1>1 DEF Connected
<1>3. Used(k) /\ k \in Fields
  BY <1>1, <1>2, UsedClient DEF IInv
<1>4. ASSUME NEW n, n = N  PROVE Used(n) /\ Moves(k, n)
  <2>1. /\ n \in Fields
        /\ n.link = "open" /\ n.shutdown = k.shutdown /\ n.closer = k.closer
        /\ n.hasSocket = k.hasSocket /\ n.connected = k.connected /\ n.closing = k.closing
        /\ n.progress = "delay" /\ n.hasTransport = k.hasTransport
        /\ n.services = k.services /\ n.session = k.session /\ n.user = k.user
        /\ n.result = k.result /\ n.errorHeard = k.errorHeard /\ n.unheard = k.unheard
    BY <1>3, <1>4 DEF Fields
  <2> HIDE DEF N
  <2>2. TransportInv(n)
    BY <1>2, <1>3, <2>1 DEF Used, TransportInv, Silent
  <2>3. UserInv(n) /\ Moves(k, n)
    BY <1>2, <1>3, <2>1 DEF Used, UserInv, Moves
  <2> QED BY <2>2, <2>3 DEF Used, Moves
<1> QED BY <1>1, <1>2, <1>3, <1>4 DEF Stepped, Change

LEMMA DialFailsSteps ==
    ASSUME IInv, NEW d \in Client, DialFails(d)
    PROVE  Stepped(d)
<1>1. PICK k : k = clients[d]
  OBVIOUS
<1>2. PICK l : l = IF k.link = "dialing" THEN "dying" ELSE k.link
  OBVIOUS
<1> DEFINE N == [k EXCEPT !.link = l]
<1>3. k.progress = "dialing"
  BY <1>1 DEF DialFails
<1>4. Used(k) /\ k \in Fields
  BY <1>1, <1>3, UsedClient DEF IInv
<1>5. Change(d, ConnectThrew(N))
  BY <1>1, <1>2, <1>4 DEF DialFails, Fields
<1>6. ASSUME NEW n, n = N
      PROVE  Threw(n) /\ n.user = k.user /\ n.result = k.result
  <2>1. /\ n \in Fields
        /\ n.link = l /\ n.shutdown = k.shutdown /\ n.closer = k.closer
        /\ n.hasSocket = k.hasSocket /\ n.connected = k.connected /\ n.closing = k.closing
        /\ n.progress = k.progress /\ n.hasTransport = k.hasTransport
        /\ n.services = k.services /\ n.session = k.session /\ n.user = k.user
        /\ n.result = k.result /\ n.errorHeard = k.errorHeard /\ n.unheard = k.unheard
    BY <1>2, <1>4, <1>6 DEF Fields
  <2> HIDE DEF N
  <2>2. UserInv(n) /\ n.user # "none" /\ n.user = k.user /\ n.result = k.result
    BY <1>2, <1>4, <2>1 DEF Used, UserInv
  <2>3. n.link # "dialing" /\ (n.hasSocket => n.link # "none")
    BY <1>2, <1>4, <2>1 DEF Used, TransportInv
  <2>4. ~n.errorHeard => ~n.hasSocket /\ (n.link \in {"dying", "closed"} \/ n.closing)
    BY <1>2, <1>3, <1>4, <2>1 DEF Used, TransportInv, Silent
  <2> QED BY <1>4, <2>1, <2>2, <2>3, <2>4 DEF Used, TransportInv, Threw
<1> HIDE DEF N
<1>7. Used(ConnectThrew(N)) /\ Moves(N, ConnectThrew(N))
  BY <1>6, ConnectThrewInv
<1>8. Moves(k, ConnectThrew(N))
  BY <1>6, <1>7 DEF Moves
<1> QED BY <1>1, <1>4, <1>5, <1>7, <1>8 DEF Stepped, Change

LEMMA DelayOverSteps ==
    ASSUME IInv, NEW d \in Client, DelayOver(d)
    PROVE  Stepped(d)
<1>1. PICK k : k = clients[d]
  OBVIOUS
<1> DEFINE N == [k EXCEPT !.progress = "writing"]
<1>2. k.progress = "delay" /\ Change(d, N)
  BY <1>1 DEF DelayOver
<1>3. Used(k) /\ k \in Fields
  BY <1>1, <1>2, UsedClient DEF IInv
<1>4. ASSUME NEW n, n = N  PROVE Used(n) /\ Moves(k, n)
  <2>1. /\ n \in Fields
        /\ n.link = k.link /\ n.shutdown = k.shutdown /\ n.closer = k.closer
        /\ n.hasSocket = k.hasSocket /\ n.connected = k.connected /\ n.closing = k.closing
        /\ n.progress = "writing" /\ n.hasTransport = k.hasTransport
        /\ n.services = k.services /\ n.session = k.session /\ n.user = k.user
        /\ n.result = k.result /\ n.errorHeard = k.errorHeard /\ n.unheard = k.unheard
    BY <1>3, <1>4 DEF Fields
  <2> HIDE DEF N
  <2>2. TransportInv(n)
    BY <1>2, <1>3, <2>1 DEF Used, TransportInv, Silent
  <2>3. UserInv(n) /\ Moves(k, n)
    BY <1>2, <1>3, <2>1 DEF Used, UserInv, Moves
  <2> QED BY <2>2, <2>3 DEF Used, Moves
<1> QED BY <1>1, <1>2, <1>3, <1>4 DEF Stepped, Change

LEMMA HandshakeDoneSteps ==
    ASSUME IInv, NEW d \in Client, HandshakeDone(d)
    PROVE  Stepped(d)
<1>1. PICK k : k = clients[d]
  OBVIOUS
<1> DEFINE N == [k EXCEPT !.connected = TRUE, !.progress = "over", !.serviceTimer = TRUE]
<1>2. k.progress = "writing" /\ k.link = "open" /\ Change(d, N)
  BY <1>1 DEF HandshakeDone
<1>3. Used(k) /\ k \in Fields
  BY <1>1, <1>2, UsedClient DEF IInv
<1>4. ASSUME NEW n, n = N  PROVE Used(n) /\ Moves(k, n)
  <2>1. /\ n \in Fields
        /\ n.link = k.link /\ n.shutdown = k.shutdown /\ n.closer = k.closer
        /\ n.hasSocket = k.hasSocket /\ n.closing = k.closing
        /\ n.hasTransport = k.hasTransport
        /\ n.services = k.services /\ n.session = k.session /\ n.user = k.user
        /\ n.result = k.result /\ n.errorHeard = k.errorHeard /\ n.unheard = k.unheard
    BY <1>3, <1>4 DEF Fields
  <2> HIDE DEF N
  <2>2. TransportInv(n)
    BY <1>2, <1>3, <2>1 DEF Used, TransportInv, Silent
  <2>3. UserInv(n) /\ Moves(k, n)
    BY <1>2, <1>3, <2>1 DEF Used, UserInv, Moves
  <2> QED BY <2>2, <2>3 DEF Used, Moves
<1> QED BY <1>1, <1>2, <1>3, <1>4 DEF Stepped, Change

LEMMA HandshakeFailsSteps ==
    ASSUME IInv, NEW d \in Client, HandshakeFails(d)
    PROVE  Stepped(d)
<1>1. PICK k : k = clients[d]
  OBVIOUS
<1>2. k.progress = "writing"
  BY <1>1 DEF HandshakeFails
<1>3. Used(k) /\ k \in Fields
  BY <1>1, <1>2, UsedClient DEF IInv
<1>4. CASE k.hasSocket
  <2> DEFINE N == [k EXCEPT !.progress = "closing", !.hasSocket = FALSE, !.connected = FALSE,
                            !.closing = TRUE, !.shutdown = "running", !.closer = "handshake"]
  <2>1. Change(d, N)
    BY <1>1, <1>3, <1>4 DEF HandshakeFails, TransportClose, Fields
  <2>2. ASSUME NEW n, n = N  PROVE Used(n) /\ Moves(k, n)
    <3>1. /\ n \in Fields
          /\ n.link = k.link /\ n.shutdown = "running" /\ n.closer = "handshake"
          /\ ~n.hasSocket /\ ~n.connected /\ n.closing /\ n.progress = "closing"
          /\ n.services = k.services /\ n.session = k.session /\ n.user = k.user
          /\ n.result = k.result /\ n.errorHeard = k.errorHeard /\ n.unheard = k.unheard
      <4>1. n \in Fields
        BY <1>3, <2>2, ZenonT(120) DEF Fields
      <4>2. /\ n.link = k.link /\ n.shutdown = "running" /\ n.closer = "handshake"
            /\ ~n.hasSocket /\ ~n.connected /\ n.closing /\ n.progress = "closing"
            /\ n.services = k.services /\ n.session = k.session /\ n.user = k.user
            /\ n.result = k.result /\ n.errorHeard = k.errorHeard /\ n.unheard = k.unheard
        BY <1>3, <2>2 DEF Fields
      <4> QED BY <4>1, <4>2
    <3> HIDE DEF N
    <3>2. TransportInv(n)
      BY <1>2, <1>3, <1>4, <3>1 DEF Used, TransportInv, Silent
    <3>3. UserInv(n) /\ Moves(k, n)
      BY <1>3, <1>4, <3>1 DEF Used, TransportInv, UserInv, Moves
    <3> QED BY <3>2, <3>3 DEF Used, Moves
  <2> QED BY <1>1, <1>3, <2>1, <2>2 DEF Stepped, Change
<1>5. CASE ~k.hasSocket
  <2> DEFINE N == [k EXCEPT !.connected = FALSE, !.closing = FALSE]
  <2>1. Change(d, ConnectThrew(N))
    BY <1>1, <1>3, <1>5 DEF HandshakeFails, TransportClose, Fields
  <2>2. ASSUME NEW n, n = N
        PROVE  Threw(n) /\ n.user = k.user /\ n.result = k.result
    <3>1. /\ n \in Fields
          /\ n.link = k.link /\ n.shutdown = k.shutdown /\ n.closer = k.closer
          /\ ~n.hasSocket /\ ~n.connected
          /\ n.services = k.services /\ n.session = k.session /\ n.user = k.user
          /\ n.result = k.result /\ n.errorHeard = k.errorHeard /\ n.unheard = k.unheard
      BY <1>3, <1>5, <2>2 DEF Fields
    <3> HIDE DEF N
    <3>2. UserInv(n) /\ n.user # "none" /\ n.user = k.user /\ n.result = k.result
      BY <1>3, <1>5, <3>1 DEF Used, UserInv
    <3> QED BY <1>2, <1>3, <3>1, <3>2 DEF Used, TransportInv, Threw
  <2> HIDE DEF N
  <2>3. Used(ConnectThrew(N)) /\ Moves(N, ConnectThrew(N))
    BY <2>2, ConnectThrewInv
  <2>4. Moves(k, ConnectThrew(N))
    BY <2>2, <2>3 DEF Moves
  <2> QED BY <1>1, <1>3, <2>1, <2>3, <2>4 DEF Stepped, Change
<1> QED BY <1>3, <1>4, <1>5 DEF Fields

LEMMA CatalogArrivesSteps ==
    ASSUME IInv, NEW d \in Client, CatalogArrives(d)
    PROVE  Stepped(d)
<1>1. PICK k : k = clients[d]
  OBVIOUS
<1>2. k.session = "open" /\ k.hasSocket /\ Change(d, Settled(k, "ok"))
  BY <1>1 DEF CatalogArrives, Hears
<1>3. Used(k) /\ k \in Fields
  BY <1>1, <1>2, UsedClient DEF IInv
<1>4. Open(k)
  BY <1>2, <1>3, OpenInv
<1>5. Used(Settled(k, "ok")) /\ Moves(k, Settled(k, "ok"))
  BY <1>2, <1>4, SettledInv
<1> QED BY <1>1, <1>2, <1>3, <1>5 DEF Stepped, Change

LEMMA FrameRefusedSteps ==
    ASSUME IInv, NEW d \in Client, FrameRefused(d)
    PROVE  Stepped(d)
<1>1. PICK k : k = clients[d]
  OBVIOUS
<1>2. k.link = "open" /\ k.hasSocket /\ Change(d, EmitError(k))
  BY <1>1 DEF FrameRefused, Hears
<1>3. Used(k) /\ k \in Fields
  BY <1>1, <1>2, UsedClient DEF IInv
<1>4. Open(k) /\ k.errorHeard
  BY <1>2, <1>3, OpenInv DEF Used, UserInv
<1>5. Used(EmitError(k)) /\ Moves(k, EmitError(k))
  BY <1>2, <1>3, <1>4, EmitErrorInv
<1> QED BY <1>1, <1>2, <1>3, <1>5 DEF Stepped, Change

LEMMA OperationTimeoutSteps ==
    ASSUME IInv, NEW d \in Client, OperationTimeout(d)
    PROVE  Stepped(d)
<1>1. PICK k : k = clients[d]
  OBVIOUS
<1>2. k.session = "open" /\ Change(d, Settled(ForceCleanup(k), "failed"))
  BY <1>1 DEF OperationTimeout
<1>3. Used(k) /\ k \in Fields
  BY <1>1, <1>2, UsedClient DEF IInv
<1>4. Open(k) /\ k.errorHeard
  BY <1>2, <1>3, OpenInv
<1>5. ASSUME NEW n, n = ForceCleanup(k)
      PROVE  Open(n) /\ n.user = k.user /\ n.result = k.result
  <2>1. CASE k.hasSocket
    <3> DEFINE N == [k EXCEPT !.hasSocket = FALSE, !.connected = FALSE, !.closing = TRUE,
                              !.shutdown = "running", !.closer = "force",
                              !.serviceTimer = FALSE, !.hasTransport = FALSE, !.services = FALSE]
    <3>1. n = N
      BY <1>3, <1>5, <2>1 DEF ForceCleanup, TransportClose, CleanupResources,
                              Used, TransportInv, Fields
    <3>2. /\ n \in Fields
          /\ n.link = k.link /\ n.shutdown = "running" /\ n.closer = "force" /\ ~n.hasSocket
          /\ n.progress = k.progress /\ ~n.services /\ n.session = k.session
          /\ n.user = k.user /\ n.result = k.result /\ n.errorHeard = k.errorHeard
          /\ n.unheard = k.unheard
      <4>1. n \in Fields
        BY <1>3, <3>1, ZenonT(120) DEF Fields
      <4>2. /\ n.link = k.link /\ n.shutdown = "running" /\ n.closer = "force" /\ ~n.hasSocket
            /\ n.progress = k.progress /\ ~n.services /\ n.session = k.session
            /\ n.user = k.user /\ n.result = k.result /\ n.errorHeard = k.errorHeard
            /\ n.unheard = k.unheard
        BY <1>3, <3>1 DEF Fields
      <4> QED BY <4>1, <4>2
    <3> HIDE DEF N
    <3> QED BY <1>4, <3>2 DEF Open, Awaited
  <2>2. CASE ~k.hasSocket /\ k.hasTransport
    <3> DEFINE N == [k EXCEPT !.connected = FALSE, !.closing = FALSE,
                              !.serviceTimer = FALSE, !.hasTransport = FALSE, !.services = FALSE]
    <3>1. n = N
      BY <1>3, <1>5, <2>2 DEF ForceCleanup, TransportClose, CleanupResources, Fields
    <3>2. /\ n \in Fields
          /\ n.link = k.link /\ n.shutdown = k.shutdown /\ n.closer = k.closer /\ ~n.hasSocket
          /\ n.progress = k.progress /\ ~n.services /\ n.session = k.session
          /\ n.user = k.user /\ n.result = k.result /\ n.errorHeard = k.errorHeard
          /\ n.unheard = k.unheard
      BY <1>3, <2>2, <3>1 DEF Fields
    <3> HIDE DEF N
    <3> QED BY <1>4, <2>2, <3>2 DEF Open, Awaited
  <2>3. CASE ~k.hasSocket /\ ~k.hasTransport
    <3> DEFINE N == [k EXCEPT !.serviceTimer = FALSE, !.hasTransport = FALSE, !.services = FALSE]
    <3>1. n = N
      BY <1>3, <1>5, <2>3 DEF ForceCleanup, CleanupResources, Fields
    <3>2. /\ n \in Fields
          /\ n.link = k.link /\ n.shutdown = k.shutdown /\ n.closer = k.closer /\ ~n.hasSocket
          /\ n.progress = k.progress /\ ~n.services /\ n.session = k.session
          /\ n.user = k.user /\ n.result = k.result /\ n.errorHeard = k.errorHeard
          /\ n.unheard = k.unheard
      BY <1>3, <2>3, <3>1 DEF Fields
    <3> HIDE DEF N
    <3> QED BY <1>4, <2>3, <3>2 DEF Open, Awaited
  <2> QED BY <1>3, <2>1, <2>2, <2>3 DEF Fields
<1>6. PICK n : n = ForceCleanup(k)
  OBVIOUS
<1>7. Used(Settled(n, "failed")) /\ Moves(n, Settled(n, "failed"))
  BY <1>5, <1>6, SettledInv
<1>8. Moves(k, Settled(n, "failed"))
  BY <1>5, <1>6, <1>7 DEF Moves
<1> QED BY <1>1, <1>2, <1>3, <1>6, <1>7, <1>8 DEF Stepped, Change

LEMMA ServiceTimeoutSteps ==
    ASSUME IInv, NEW d \in Client, ServiceTimeout(d)
    PROVE  Stepped(d)
<1>1. PICK k : k = clients[d]
  OBVIOUS
<1>2. k.serviceTimer
  BY <1>1 DEF ServiceTimeout
<1>3. Used(k) /\ k \in Fields
  BY <1>1, <1>2, UsedClient DEF IInv
<1>4. CASE k.session = "open" /\ k.hasSocket
  <2> DEFINE N == [k EXCEPT !.serviceTimer = FALSE, !.hasSocket = FALSE, !.connected = FALSE,
                            !.closing = TRUE, !.shutdown = "running", !.closer = "timer"]
  <2>1. Change(d, N)
    BY <1>1, <1>3, <1>4 DEF ServiceTimeout, TransportClose, Fields
  <2>2. ASSUME NEW n, n = N  PROVE Used(n) /\ Moves(k, n)
    <3>1. /\ n \in Fields
          /\ n.link = k.link /\ n.shutdown = "running" /\ n.closer = "timer"
          /\ ~n.hasSocket /\ n.progress = k.progress
          /\ n.services = k.services /\ n.session = k.session /\ n.user = k.user
          /\ n.result = k.result /\ n.errorHeard = k.errorHeard /\ n.unheard = k.unheard
      BY <1>3, <2>2 DEF Fields
    <3> HIDE DEF N
    <3>2. TransportInv(n)
      BY <1>3, <1>4, <3>1, OpenInv DEF Used, TransportInv
    <3>3. UserInv(n) /\ Moves(k, n)
      BY <1>3, <1>4, <3>1 DEF Used, UserInv, Moves
    <3> QED BY <3>2, <3>3 DEF Used, Moves
  <2> QED BY <1>1, <1>3, <2>1, <2>2 DEF Stepped, Change
<1>5. CASE k.session = "open" /\ ~k.hasSocket
  <2> DEFINE N == [k EXCEPT !.serviceTimer = FALSE, !.connected = FALSE, !.closing = FALSE]
  <2>1. Change(d, N)
    BY <1>1, <1>3, <1>5 DEF ServiceTimeout, TransportClose, Fields
  <2>2. ASSUME NEW n, n = N  PROVE Used(n) /\ Moves(k, n)
    <3>1. /\ n \in Fields
          /\ n.link = k.link /\ n.shutdown = k.shutdown /\ n.closer = k.closer
          /\ n.hasSocket = k.hasSocket /\ n.progress = k.progress
          /\ n.services = k.services /\ n.session = k.session /\ n.user = k.user
          /\ n.result = k.result /\ n.errorHeard = k.errorHeard /\ n.unheard = k.unheard
      BY <1>3, <2>2 DEF Fields
    <3> HIDE DEF N
    <3>2. TransportInv(n)
      BY <1>3, <1>5, <3>1, OpenInv DEF Used, TransportInv
    <3>3. UserInv(n) /\ Moves(k, n)
      BY <1>3, <1>5, <3>1 DEF Used, UserInv, Moves
    <3> QED BY <3>2, <3>3 DEF Used, Moves
  <2> QED BY <1>1, <1>3, <2>1, <2>2 DEF Stepped, Change
<1>6. CASE k.session # "open"
  <2> DEFINE N == [k EXCEPT !.serviceTimer = FALSE]
  <2>1. Change(d, N)
    BY <1>1, <1>3, <1>6 DEF ServiceTimeout, Fields
  <2>2. ASSUME NEW n, n = N  PROVE Used(n) /\ Moves(k, n)
    <3>1. /\ n \in Fields
          /\ n.link = k.link /\ n.shutdown = k.shutdown /\ n.closer = k.closer
          /\ n.hasSocket = k.hasSocket /\ n.connected = k.connected /\ n.closing = k.closing
          /\ n.progress = k.progress /\ n.hasTransport = k.hasTransport
          /\ n.services = k.services /\ n.session = k.session /\ n.user = k.user
          /\ n.result = k.result /\ n.errorHeard = k.errorHeard /\ n.unheard = k.unheard
      BY <1>3, <2>2 DEF Fields
    <3> HIDE DEF N
    <3>2. TransportInv(n)
      BY <1>3, <3>1 DEF Used, TransportInv, Silent
    <3>3. UserInv(n) /\ Moves(k, n)
      BY <1>3, <3>1 DEF Used, UserInv, Moves
    <3> QED BY <3>2, <3>3 DEF Used, Moves
  <2> QED BY <1>1, <1>3, <2>1, <2>2 DEF Stepped, Change
<1> QED BY <1>3, <1>4, <1>5, <1>6 DEF Fields

LEMMA SocketErrorSteps ==
    ASSUME IInv, NEW d \in Client, SocketError(d)
    PROVE  Stepped(d)
<1>1. PICK k : k = clients[d]
  OBVIOUS
<1> DEFINE N == [k EXCEPT !.link = "dying", !.connected = FALSE]
<1>2. k.link = "open" /\ Change(d, IF k.closing \/ ~k.connected THEN N ELSE EmitError(N))
  BY <1>1 DEF SocketError
<1>3. Used(k) /\ k \in Fields
  BY <1>1, <1>2, UsedClient DEF IInv
<1>4. ASSUME NEW n, n = N
      PROVE  /\ n \in Fields /\ n.link = "dying" /\ Used(n) /\ Moves(k, n)
             /\ n.errorHeard = k.errorHeard /\ n.user = k.user /\ n.result = k.result
  <2>1. /\ n \in Fields
        /\ n.link = "dying" /\ n.shutdown = k.shutdown /\ n.closer = k.closer
        /\ n.hasSocket = k.hasSocket /\ n.progress = k.progress
        /\ n.hasTransport = k.hasTransport
        /\ n.services = k.services /\ n.session = k.session /\ n.user = k.user
        /\ n.result = k.result /\ n.errorHeard = k.errorHeard /\ n.unheard = k.unheard
    BY <1>3, <1>4 DEF Fields
  <2> HIDE DEF N
  <2>2. TransportInv(n)
    BY <1>2, <1>3, <2>1 DEF Used, TransportInv, Silent
  <2>3. UserInv(n) /\ Moves(k, n)
    BY <1>2, <1>3, <2>1 DEF Used, UserInv, Moves
  <2> QED BY <2>1, <2>2, <2>3 DEF Used, Moves
<1>5. CASE k.closing \/ ~k.connected
  BY <1>1, <1>2, <1>3, <1>4, <1>5 DEF Stepped, Change
<1>6. CASE ~(k.closing \/ ~k.connected)
  <2>0. k.errorHeard
    BY <1>2, <1>3, <1>6 DEF Used, TransportInv, Silent
  <2>1. N.errorHeard
    BY <1>4, <2>0
  <2> HIDE DEF N
  <2>2. Used(EmitError(N)) /\ Moves(N, EmitError(N))
    BY <1>4, <2>1, EmitErrorInv, OpenInv
  <2>3. Moves(k, EmitError(N))
    BY <1>4, <2>2 DEF Moves
  <2> QED BY <1>1, <1>2, <1>3, <1>6, <2>2, <2>3 DEF Stepped, Change
<1> QED BY <1>5, <1>6

\* What a settlement does not touch once the transport is closed.
LEMMA SettledKeeps ==
    ASSUME NEW k \in Fields, k.session = "open" => Open(k), ~k.hasSocket
    PROVE  /\ Settled(k, "failed").link = k.link
           /\ Settled(k, "failed").shutdown = k.shutdown
           /\ k.session = "open" => Settled(k, "failed").user = "done"
<1>1. CASE k.session # "open"
  BY <1>1 DEF Settled
<1>2. CASE k.session = "open"
  <2> DEFINE S == [k EXCEPT !.session = "failed", !.services = FALSE]
             R == [k EXCEPT !.session = "failed", !.services = FALSE, !.result = "failed",
                            !.user = "closing"]
  <2>1. Settled(k, "failed") = UserResumes(S)
    BY <1>2 DEF Settled, Open, Awaited, Fields
  <2>2. UserResumes(S) = ClientClose(R, "user")
    BY DEF UserResumes, Fields
  <2>3. R \in Fields /\ R.link = k.link /\ R.shutdown = k.shutdown /\ ~R.hasSocket
    <3>1. R \in Fields
      BY ZenonT(120) DEF Fields
    <3>2. R.link = k.link /\ R.shutdown = k.shutdown /\ ~R.hasSocket
      BY DEF Fields
    <3> QED BY <3>1, <3>2
  <2> HIDE DEF R, S
  <2>4. /\ ClientClose(R, "user").link = R.link
        /\ ClientClose(R, "user").shutdown = R.shutdown
        /\ ClientClose(R, "user").user = "done"
    BY <2>3 DEF ClientClose, TransportClose, CleanupResources, ClosedFor, Fields
  <2> QED BY <2>1, <2>2, <2>3, <2>4
<1> QED BY <1>1, <1>2

LEMMA SocketClosesSteps ==
    ASSUME IInv, NEW d \in Client, SocketCloses(d)
    PROVE  Stepped(d)
<1>1. PICK k : k = clients[d]
  OBVIOUS
<1> DEFINE N == [k EXCEPT !.link = "closed", !.connected = FALSE]
<1>2. PICK s : s = Settled(N, "failed")
  OBVIOUS
<1>3. /\ k.link \in {"open", "dying"}
      /\ Change(d, IF k.shutdown = "running" THEN ShutdownFinished(s) ELSE s)
  BY <1>1, <1>2 DEF SocketCloses
<1>4. Used(k) /\ k \in Fields
  BY <1>1, <1>3, UsedClient DEF IInv
<1>5. ASSUME NEW n, n = N
      PROVE  /\ n \in Fields /\ Used(n) /\ Moves(k, n)
             /\ n.link = "closed" /\ n.shutdown = k.shutdown /\ n.hasSocket = k.hasSocket
             /\ n.user = k.user /\ n.result = k.result
  <2>1. /\ n \in Fields
        /\ n.link = "closed" /\ n.shutdown = k.shutdown /\ n.closer = k.closer
        /\ n.hasSocket = k.hasSocket /\ n.progress = k.progress
        /\ n.hasTransport = k.hasTransport
        /\ n.services = k.services /\ n.session = k.session /\ n.user = k.user
        /\ n.result = k.result /\ n.errorHeard = k.errorHeard /\ n.unheard = k.unheard
    BY <1>4, <1>5 DEF Fields
  <2> HIDE DEF N
  <2>2. TransportInv(n)
    BY <1>3, <1>4, <2>1 DEF Used, TransportInv, Silent
  <2>3. UserInv(n) /\ Moves(k, n)
    BY <1>3, <1>4, <2>1 DEF Used, UserInv, Moves
  <2> QED BY <2>1, <2>2, <2>3 DEF Used, Moves
<1> HIDE DEF N
<1>6. N.session = "open" => Open(N)
  BY <1>5, OpenInv
<1>7. Used(s) /\ Moves(N, s)
  BY <1>2, <1>5, <1>6, SettledInv
<1>8. Moves(k, s)
  BY <1>5, <1>7 DEF Moves
<1>9. CASE k.shutdown # "running"
  BY <1>1, <1>3, <1>4, <1>7, <1>8, <1>9 DEF Stepped, Change
<1>10. CASE k.shutdown = "running"
  <2>1. ~N.hasSocket
    BY <1>4, <1>5, <1>10 DEF Used, TransportInv
  <2>2. s.link = "closed" /\ s.shutdown = "running"
    BY <1>2, <1>5, <1>6, <1>10, <2>1, SettledKeeps
  <2>3. PICK f : f = ShutdownFinished(s)
    OBVIOUS
  <2>4. Used(f) /\ Moves(s, f)
    BY <1>7, <2>2, <2>3, ShutdownFinishedInv
  <2>5. s.user = "closing" => k.user = "closing" /\ s.result = k.result
    <3>1. CASE N.session = "open"
      BY <1>2, <1>5, <1>6, <2>1, <3>1, SettledKeeps
    <3>2. CASE N.session # "open"
      BY <1>2, <1>5, <3>2 DEF Settled
    <3> QED BY <3>1, <3>2
  <2>6. Moves(k, f)
    BY <1>8, <2>4, <2>5 DEF Moves
  <2> QED BY <1>1, <1>3, <1>4, <1>10, <2>3, <2>4, <2>6 DEF Stepped, Change
<1> QED BY <1>9, <1>10

LEMMA ShutdownTimeoutSteps ==
    ASSUME IInv, NEW d \in Client, ShutdownTimeout(d)
    PROVE  Stepped(d)
<1>1. PICK k : k = clients[d]
  OBVIOUS
<1>2. PICK l : l = IF k.link = "closed" THEN "closed" ELSE "dying"
  OBVIOUS
<1> DEFINE N == [k EXCEPT !.link = l]
<1>3. k.shutdown = "running"
  BY <1>1 DEF ShutdownTimeout
<1>4. Used(k) /\ k \in Fields
  BY <1>1, <1>3, UsedClient DEF IInv
<1>5. Change(d, ShutdownFinished(N))
  BY <1>1, <1>2, <1>4 DEF ShutdownTimeout, Fields
<1>6. ASSUME NEW n, n = N
      PROVE  /\ Used(n) /\ n.shutdown = "running" /\ n.link \in {"dying", "closed"}
             /\ n.user = k.user /\ n.result = k.result
  <2>1. /\ n \in Fields
        /\ n.link = l /\ n.shutdown = "running" /\ n.closer = k.closer
        /\ n.hasSocket = k.hasSocket /\ n.progress = k.progress
        /\ n.hasTransport = k.hasTransport
        /\ n.services = k.services /\ n.session = k.session /\ n.user = k.user
        /\ n.result = k.result /\ n.errorHeard = k.errorHeard /\ n.unheard = k.unheard
    BY <1>2, <1>3, <1>4, <1>6 DEF Fields
  <2> HIDE DEF N
  <2>2. TransportInv(n)
    BY <1>2, <1>3, <1>4, <2>1 DEF Used, TransportInv, Silent
  <2>3. UserInv(n)
    BY <1>2, <1>3, <1>4, <2>1 DEF Used, UserInv
  <2> QED BY <1>2, <1>4, <2>1, <2>2, <2>3 DEF Used
<1> HIDE DEF N
<1>7. Used(ShutdownFinished(N)) /\ Moves(N, ShutdownFinished(N))
  BY <1>6, ShutdownFinishedInv
<1>8. Moves(k, ShutdownFinished(N))
  BY <1>6, <1>7 DEF Moves
<1> QED BY <1>1, <1>4, <1>5, <1>7, <1>8 DEF Stepped, Change

-----------------------------------------------------------------------------
(* The invariant.                                                              *)

LEMMA InitInv == Init => IInv
<1> SUFFICES ASSUME Init PROVE IInv
  OBVIOUS
<1>1. Unused \in Fields /\ Unused.user = "none"
  BY DEF Unused, Fields
<1>2. clients \in [Client -> Fields] /\ \A d \in Client : clients[d] = Unused
  BY <1>1 DEF Init
<1>3. awaits \in [Caller -> 0..MaxDiscoveries]
  BY DiscoveriesAssumption DEF Init
<1>4. InFlight = {}
  BY <1>1, <1>2 DEF InFlight
<1> QED BY <1>2, <1>3, <1>4 DEF Init, IInv, ClientInv, OneInFlight

\* A discovery that has ended stays ended, so a step of a client starts none.
LEMMA SteppedInv ==
    ASSUME IInv, NEW d \in Client, Stepped(d)
    PROVE  IInv'
<1>1. PICK n : /\ clients' = [clients EXCEPT ![d] = n] /\ awaits' = awaits
               /\ Used(clients[d]) /\ Used(n) /\ Moves(clients[d], n)
  BY DEF Stepped
<1>2. n \in Fields
  BY <1>1 DEF Used, TransportInv
<1>3. clients' \in [Client -> Fields] /\ \A e \in Client : clients'[e] = IF e = d THEN n ELSE clients[e]
  BY <1>1, <1>2 DEF IInv
<1>4. \A e \in Client : ClientInv(clients[e])'
  BY <1>1, <1>3 DEF IInv, ClientInv
<1>5. InFlight' \subseteq InFlight
  BY <1>1, <1>3 DEF InFlight, Moves
<1>6. OneInFlight'
  BY <1>5 DEF IInv, OneInFlight
<1>7. \A c \in Caller : awaits'[c] # 0 => clients'[awaits'[c]].user # "none"
  <2> SUFFICES ASSUME NEW c \in Caller, awaits[c] # 0
               PROVE  clients'[awaits[c]].user # "none"
    BY <1>1
  <2>1. awaits[c] \in Client
    BY DiscoveriesAssumption DEF IInv, Client
  <2> QED BY <1>1, <1>3, <2>1 DEF IInv, Moves
<1> QED BY <1>1, <1>3, <1>4, <1>6, <1>7 DEF IInv

LEMMA NewClient ==
    /\ Used(Connecting) /\ Connecting \in Fields
    /\ Connecting.user = "connecting" /\ Connecting.result = "none"
<1>1. PICK u : u = Unused
  OBVIOUS
<1>2. /\ u \in Fields
      /\ u.shutdown = "no" /\ u.closer = "none" /\ ~u.services /\ u.result = "none" /\ ~u.unheard
  BY <1>1 DEF Unused, Fields
<1> DEFINE N == [u EXCEPT !.link = "dialing", !.hasSocket = TRUE, !.progress = "dialing",
                          !.hasTransport = TRUE, !.session = "open", !.user = "connecting",
                          !.errorHeard = TRUE]
<1>3. Connecting = N
  BY <1>1 DEF Connecting
<1>4. ASSUME NEW n, n = N
      PROVE  Used(n) /\ n \in Fields /\ n.user = "connecting" /\ n.result = "none"
  <2>1. /\ n \in Fields
        /\ n.link = "dialing" /\ n.shutdown = "no" /\ n.closer = "none"
        /\ n.hasSocket /\ n.progress = "dialing" /\ n.hasTransport
        /\ ~n.services /\ n.session = "open" /\ n.user = "connecting"
        /\ n.result = "none" /\ n.errorHeard /\ ~n.unheard
    BY <1>2, <1>4 DEF Fields
  <2> HIDE DEF N
  <2> QED BY <2>1 DEF Used, TransportInv, UserInv
<1> QED BY <1>3, <1>4

LEMMA DiscoverServicesInv ==
    ASSUME IInv, NEW c \in Caller, DiscoverServices(c)
    PROVE  IInv'
<1>1. CASE \E d \in InFlight : awaits' = [awaits EXCEPT ![c] = d] /\ UNCHANGED clients
  <2>1. PICK d \in InFlight : awaits' = [awaits EXCEPT ![c] = d] /\ UNCHANGED clients
    BY <1>1
  <2>2. d \in Client /\ clients[d].user # "none"
    BY <2>1 DEF InFlight
  <2>3. awaits' \in [Caller -> 0..MaxDiscoveries]
    BY <2>1, <2>2 DEF IInv, Client
  <2>4. OneInFlight'
    BY <2>1 DEF IInv, OneInFlight, InFlight
  <2>5. \A b \in Caller : awaits'[b] # 0 => clients'[awaits'[b]].user # "none"
    BY <2>1, <2>2 DEF IInv
  <2> QED BY <2>1, <2>3, <2>4, <2>5 DEF IInv
<1>2. CASE \E d \in Client : /\ InFlight = {} /\ clients[d].user = "none"
                             /\ clients' = [clients EXCEPT ![d] = Connecting]
                             /\ awaits' = [awaits EXCEPT ![c] = d]
  <2>1. PICK d \in Client : /\ InFlight = {} /\ clients[d].user = "none"
                            /\ clients' = [clients EXCEPT ![d] = Connecting]
                            /\ awaits' = [awaits EXCEPT ![c] = d]
    BY <1>2
  <2>2. /\ clients' \in [Client -> Fields]
        /\ \A e \in Client : clients'[e] = IF e = d THEN Connecting ELSE clients[e]
    BY <2>1, NewClient DEF IInv
  <2>3. awaits' \in [Caller -> 0..MaxDiscoveries]
    BY <2>1 DEF IInv, Client
  <2>4. \A e \in Client : ClientInv(clients[e])'
    BY <2>2, NewClient DEF IInv, ClientInv
  <2>5. OneInFlight'
    BY <2>1, <2>2, NewClient DEF OneInFlight, InFlight
  <2>6. \A b \in Caller : awaits'[b] # 0 => clients'[awaits'[b]].user # "none"
    <3> SUFFICES ASSUME NEW b \in Caller, awaits'[b] # 0
                 PROVE  clients'[awaits'[b]].user # "none"
      OBVIOUS
    <3>1. awaits'[b] \in Client
      BY <2>3, DiscoveriesAssumption DEF Client
    <3>2. CASE b = c
      BY <2>1, <2>2, <3>2, NewClient DEF IInv
    <3>3. CASE b # c
      BY <2>1, <2>2, <3>1, <3>3, NewClient DEF IInv
    <3> QED BY <3>2, <3>3
  <2> QED BY <2>2, <2>3, <2>4, <2>5, <2>6 DEF IInv
<1>3. \A d \in Client : d >= d
  BY DEF Client
<1> QED BY <1>1, <1>2, <1>3 DEF DiscoverServices, Coalesce

\* Every step is one of a caller or of a client.
LEMMA NextSteps ==
    ASSUME IInv, Next
    PROVE  (\E c \in Caller : DiscoverServices(c)) \/ (\E d \in Client : Stepped(d))
<1> USE DEF Next
<1> QED BY ConnectedSteps, DialFailsSteps, DelayOverSteps, HandshakeDoneSteps,
           HandshakeFailsSteps, CatalogArrivesSteps, FrameRefusedSteps, OperationTimeoutSteps,
           ServiceTimeoutSteps, SocketErrorSteps, SocketClosesSteps, ShutdownTimeoutSteps

LEMMA NextInv == IInv /\ [Next]_vars => IInv'
<1> SUFFICES ASSUME IInv, [Next]_vars PROVE IInv'
  OBVIOUS
<1>1. CASE Next
  BY <1>1, NextSteps, SteppedInv, DiscoverServicesInv
<1>2. CASE UNCHANGED vars
  BY <1>2 DEF vars, IInv, OneInFlight, InFlight
<1> QED BY <1>1, <1>2

LEMMA SpecInv == Spec => []IInv
BY InitInv, NextInv, PTL DEF Spec

-----------------------------------------------------------------------------
(* The theorems.                                                               *)

\* Every field keeps its domain, and a client's fields agree.
THEOREM TypeCorrect == Spec => []TypeOK
<1>1. IInv => TypeOK
  <2> SUFFICES ASSUME IInv PROVE TypeOK
    OBVIOUS
  <2>1. ASSUME NEW d \in Client
        PROVE  /\ clients[d].hasSocket => clients[d].hasTransport
               /\ clients[d].services => clients[d].session = "ok"
               /\ clients[d].closer # "none" <=> clients[d].shutdown = "running"
    <3>1. CASE clients[d] = Unused
      BY <3>1 DEF Unused
    <3>2. CASE Used(clients[d])
      BY <3>2 DEF Used, TransportInv
    <3> QED BY <3>1, <3>2 DEF IInv, ClientInv
  <2> QED BY <2>1 DEF IInv, TypeOK
<1> QED BY <1>1, SpecInv, PTL

\* No transport emits an 'error' without a listener: the process survives every
\* order of frames, timers and socket events.
THEOREM ErrorsAreHeard == Spec => []NoUnheardError
<1>1. IInv => NoUnheardError
  BY DEF IInv, ClientInv, Used, TransportInv, Unused, NoUnheardError
<1> QED BY <1>1, SpecInv, PTL

\* A discovery that has returned does not leave an open connection behind.
THEOREM SocketsReleased == Spec => []ReleasedOnReturn
<1>1. IInv => ReleasedOnReturn
  <2> SUFFICES ASSUME IInv, NEW d \in Client, clients[d].user = "done"
               PROVE  clients[d].link \in {"dying", "closed"} \/ clients[d].shutdown # "no"
    BY DEF ReleasedOnReturn
  <2>1. Used(clients[d])
    BY DEF IInv, ClientInv, Unused
  <2> QED BY <2>1 DEF Used, UserInv
<1> QED BY <1>1, SpecInv, PTL

\* A catalog is returned only once its connection is gone.
THEOREM ClosedBeforeSuccess == Spec => []SuccessAfterClose
<1>1. IInv => SuccessAfterClose
  <2> SUFFICES ASSUME IInv, NEW d \in Client,
                      clients[d].user = "done", clients[d].result = "ok"
               PROVE  clients[d].link \in {"dying", "closed"} /\ clients[d].shutdown = "finished"
    BY DEF SuccessAfterClose
  <2>1. Used(clients[d])
    BY DEF IInv, ClientInv, Unused
  <2> QED BY <2>1 DEF Used, UserInv
<1> QED BY <1>1, SpecInv, PTL

-----------------------------------------------------------------------------
(* The refinement.                                                             *)

\* In every state in order, the discovery in flight tells the phase.
LEMMA PhaseOf ==
    ASSUME IInv, NEW d \in InFlight
    PROVE  /\ InFlight = {d}
           /\ Phase = IF clients[d].result = "ok" THEN "closing" ELSE "connecting"
BY DEF IInv, OneInFlight, Phase

\* A step of a client is a stutter, or reads the catalog, or ends the discovery.
LEMMA SteppedRefines ==
    ASSUME IInv, NEW d \in Client, Stepped(d)
    PROVE  [D!Next]_(D!discoveryVars)
<1>1. PICK n : /\ clients' = [clients EXCEPT ![d] = n] /\ awaits' = awaits
               /\ Used(clients[d]) /\ Used(n) /\ Moves(clients[d], n)
  BY DEF Stepped
<1>2. \A e \in Client : clients'[e] = IF e = d THEN n ELSE clients[e]
  BY <1>1 DEF IInv
<1>3. IInv'
  BY SteppedInv
<1>4. \A c \in Caller : awaits[c] = 0 \/ awaits[c] \in Client
  BY DiscoveriesAssumption DEF IInv, Client
<1>5. 0 \notin Client
  BY DEF Client
<1>6. CASE n.user = clients[d].user /\ n.result = clients[d].result
  <2>1. InFlight' = InFlight /\ \A e \in Client : clients'[e].result = clients[e].result
    BY <1>2, <1>6 DEF InFlight
  <2>2. Phase' = Phase
    BY <2>1 DEF Phase, InFlight
  <2>3. Waiting' = Waiting
    BY <1>1, <2>1 DEF Waiting
  <2>4. Outcome' = Outcome
    BY <1>1, <1>4, <2>1, <2>3 DEF Outcome
  <2> QED BY <2>2, <2>3, <2>4 DEF D!discoveryVars
<1>7. CASE clients[d].user = "connecting" /\ n.user = "closing"
  <2>1. InFlight' = InFlight /\ d \in InFlight /\ clients[d].result = "none"
    BY <1>1, <1>2, <1>7 DEF InFlight, Used, UserInv
  <2>2. InFlight = {d}
    BY <2>1, PhaseOf
  <2>3. Phase = "connecting"
    BY <2>1, PhaseOf
  <2>4. Phase' = IF n.result = "ok" THEN "closing" ELSE "connecting"
    BY <1>2, <2>1, <2>2 DEF Phase
  <2>5. Waiting' = Waiting
    BY <1>1, <2>1 DEF Waiting
  <2>6. Outcome' = Outcome
    <3>1. \A c \in Caller : c \notin Waiting => awaits[c] # d
      BY <2>1 DEF Waiting
    <3> QED BY <1>1, <1>2, <1>4, <2>5, <3>1 DEF Outcome
  <2> QED BY <2>3, <2>4, <2>5, <2>6 DEF D!discoveryVars, D!Next, D!CatalogRead
<1>8. CASE clients[d].user \in {"connecting", "closing"} /\ n.user = "done"
  <2>1. d \in InFlight
    BY <1>8 DEF InFlight
  <2>2. InFlight = {d}
    BY <2>1, PhaseOf
  <2>3. InFlight' = {}
    BY <1>2, <1>8, <2>2 DEF InFlight
  <2>4. Phase' = "none" /\ Waiting' = {}
    BY <2>3 DEF Phase, Waiting
  <2>5. Waiting = {c \in Caller : awaits[c] = d}
    BY <2>2 DEF Waiting
  <2>6. Outcome' = [c \in Caller |-> IF c \in Waiting THEN n.result ELSE Outcome[c]]
    BY <1>1, <1>2, <1>4, <1>5, <2>4, <2>5 DEF Outcome
  <2>7. CASE n.result = "ok"
    <3>1. clients[d].result = "ok"
      BY <1>1, <1>8, <2>7 DEF Moves, Used, UserInv
    <3>2. Phase = "closing"
      BY <2>1, <3>1, PhaseOf
    <3> QED BY <2>4, <2>6, <2>7, <3>2 DEF D!Next, D!Succeed, D!End
  <2>8. CASE n.result # "ok"
    <3>1. n.result = "failed"
      BY <1>1, <1>8, <2>8 DEF Used, TransportInv, UserInv, Fields
    <3>2. clients[d].result # "ok"
      BY <1>1, <1>8, <2>8 DEF Moves, Used, UserInv
    <3>3. Phase = "connecting"
      BY <2>1, <3>2, PhaseOf
    <3> QED BY <2>4, <2>6, <3>1, <3>3 DEF D!Next, D!Fail, D!End
  <2> QED BY <2>7, <2>8
<1> QED BY <1>1, <1>6, <1>7, <1>8 DEF Moves

\* A call joins.
LEMMA DiscoverServicesRefines ==
    ASSUME IInv, NEW c \in Caller, DiscoverServices(c)
    PROVE  D!Join(c)
<1>1. \A b \in Caller : awaits[b] = 0 \/ awaits[b] \in Client
  BY DiscoveriesAssumption DEF IInv, Client
<1>2. 0 \notin Client
  BY DEF Client
<1>3. c \notin Waiting
  BY DEF DiscoverServices, Waiting
<1>4. CASE \E d \in InFlight : awaits' = [awaits EXCEPT ![c] = d] /\ UNCHANGED clients
  <2>1. PICK d \in InFlight : awaits' = [awaits EXCEPT ![c] = d] /\ UNCHANGED clients
    BY <1>4
  <2>2. InFlight' = InFlight /\ Phase' = Phase /\ Phase # "none"
    BY <2>1 DEF InFlight, Phase
  <2>3. \A b \in Caller : awaits'[b] = IF b = c THEN d ELSE awaits[b]
    BY <2>1 DEF IInv
  <2>4. Waiting' = Waiting \cup {c}
    BY <2>2, <2>3 DEF Waiting
  <2>5. Outcome' = [Outcome EXCEPT ![c] = "none"]
    <3>1. \A b \in Caller : Outcome'[b] = IF b = c THEN "none" ELSE Outcome[b]
      <4> SUFFICES ASSUME NEW b \in Caller
                   PROVE  Outcome'[b] = IF b = c THEN "none" ELSE Outcome[b]
        OBVIOUS
      <4>1. CASE b = c
        BY <2>4, <4>1 DEF Outcome
      <4>2. CASE b # c
        <5>1. awaits'[b] = awaits[b] /\ clients' = clients /\ (b \in Waiting' <=> b \in Waiting)
          BY <2>1, <2>3, <2>4, <4>2
        <5> QED BY <4>2, <5>1 DEF Outcome
      <4> QED BY <4>1, <4>2
    <3> QED BY <3>1 DEF Outcome
  <2> QED BY <1>3, <2>2, <2>4, <2>5 DEF D!Join
<1>5. CASE \E d \in Client : /\ InFlight = {} /\ clients[d].user = "none"
                             /\ clients' = [clients EXCEPT ![d] = Connecting]
                             /\ awaits' = [awaits EXCEPT ![c] = d]
  <2>1. PICK d \in Client : /\ InFlight = {} /\ clients[d].user = "none"
                            /\ clients' = [clients EXCEPT ![d] = Connecting]
                            /\ awaits' = [awaits EXCEPT ![c] = d]
    BY <1>5
  <2>2. \A e \in Client : clients'[e] = IF e = d THEN Connecting ELSE clients[e]
    BY <2>1 DEF IInv
  <2>3. InFlight' = {d}
    BY <2>1, <2>2, NewClient DEF InFlight
  <2>4. Phase = "none" /\ Phase' = "connecting"
    BY <2>1, <2>2, <2>3, NewClient DEF Phase
  <2>5. \A b \in Caller : awaits'[b] = IF b = c THEN d ELSE awaits[b]
    BY <2>1 DEF IInv
  <2>6. \A b \in Caller : awaits[b] # d
    BY <1>2, <2>1 DEF IInv
  <2>7. Waiting = {} /\ Waiting' = {c}
    BY <2>1, <2>3, <2>5, <2>6 DEF Waiting
  <2>8. Outcome' = [Outcome EXCEPT ![c] = "none"]
    BY <1>1, <2>2, <2>5, <2>6, <2>7 DEF Outcome
  <2> QED BY <1>3, <2>4, <2>7, <2>8 DEF D!Join
<1>6. \A d \in Client : d >= d
  BY DEF Client
<1> QED BY <1>4, <1>5, <1>6 DEF DiscoverServices, Coalesce

\* The clients implement Discovery.
THEOREM Refinement == Spec => ImplementsDiscovery
<1>1. Init => D!Init
  <2> SUFFICES ASSUME Init PROVE D!Init
    OBVIOUS
  <2>1. \A d \in Client : clients[d].user = "none"
    BY DEF Init, Unused
  <2>2. InFlight = {}
    BY <2>1 DEF InFlight
  <2> QED BY <2>2 DEF Init, D!Init, Phase, Waiting, Outcome
<1>2. IInv /\ [Next]_vars => [D!Next]_(D!discoveryVars)
  <2> SUFFICES ASSUME IInv, [Next]_vars PROVE [D!Next]_(D!discoveryVars)
    OBVIOUS
  <2>1. CASE UNCHANGED vars
    BY <2>1 DEF vars, D!discoveryVars, Phase, Waiting, Outcome, InFlight
  <2>2. ASSUME NEW c \in Caller, DiscoverServices(c)
        PROVE  [D!Next]_(D!discoveryVars)
    BY <2>2, DiscoverServicesRefines DEF D!Next
  <2>3. CASE Next
    BY <2>2, <2>3, NextSteps, SteppedRefines
  <2> QED BY <2>1, <2>3
<1> QED BY <1>1, <1>2, SpecInv, PTL DEF Spec, ImplementsDiscovery, D!Spec
=============================================================================
