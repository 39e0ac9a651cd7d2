------------------------ MODULE TunnelReadiness_proofs ------------------------
(* Safety of the registry's long poll for every set of clients, devices and    *)
(* services, checked by TLAPS.                                                 *)
EXTENDS TunnelReadiness, TLAPS

\* A request that was made names a device.
TargetSet == \A c \in Client : phase[c] # "idle" => target[c] \in Udid

\* No request arrived later than the last write.
ArrivedInPast == \A c \in Client : arrived[c] \in 0..writes

\* The inductive invariant.  The two clauses that speak of entries lean on the
\* exact correspondence between waiter lists and parked requests: without it a
\* forgotten waiter could be settled with an entry of another device.
IInv ==
    /\ TypeOK
    /\ TargetSet
    /\ ArrivedInPast
    /\ WaitersExact
    /\ FreshAnswer
    /\ PublishedIsSeen

USE WritesAssumption, NoUdidAssumption, NoEntryAssumption

\* Settling the waiters of a UDID keeps the lists exact.
LEMMA SettleExact ==
    ASSUME TypeOK, TargetSet, WaitersExact,
           NEW u \in Udid, NEW others \in SUBSET Client, NEW a \in Answer,
           \A c \in others : phase[c] = "refreshing",
           SettleWaiters(u, others, a), target' = target
    PROVE  /\ waiters' \in [Udid -> SUBSET Client]
           /\ phase' \in [Client -> {"idle", "parked", "settled", "refreshing", "answered"}]
           /\ timer' \in [Client -> {"none", "armed", "cleared", "fired"}]
           /\ answer' \in [Client -> Answer]
           /\ TargetSet'
           /\ WaitersExact'
           /\ waiters'[u] = {}
           /\ \A v \in Udid : v # u => waiters'[v] = waiters[v]
  <1>1. waiters' \in [Udid -> SUBSET Client]
    BY DEF SettleWaiters, TypeOK
  <1>2. phase' \in [Client -> {"idle", "parked", "settled", "refreshing", "answered"}]
    BY DEF SettleWaiters, TypeOK
  <1>3. timer' \in [Client -> {"none", "armed", "cleared", "fired"}]
    BY DEF SettleWaiters, TypeOK
  <1>4. answer' \in [Client -> Answer]
    BY DEF SettleWaiters, TypeOK
  <1>5. TargetSet'
    BY DEF SettleWaiters, TypeOK, TargetSet, WaitersExact
  <1>6. \A c \in Client : c \in waiters[u] \cup others => phase[c] # "idle"
    BY DEF WaitersExact
  <1>7. ASSUME NEW v \in Udid, NEW c \in Client
        PROVE  c \in waiters'[v] <=> phase'[c] = "parked" /\ target'[c] = v
    BY DEF SettleWaiters, TypeOK, WaitersExact
  <1>8. ASSUME NEW c \in Client
        PROVE  phase'[c] = "parked" <=> timer'[c] = "armed"
    BY DEF SettleWaiters, TypeOK, WaitersExact
  <1>9. WaitersExact'
    BY <1>7, <1>8 DEF WaitersExact
  <1>10. waiters'[u] = {} /\ \A v \in Udid : v # u => waiters'[v] = waiters[v]
    BY DEF SettleWaiters, TypeOK
  <1> QED BY <1>1, <1>2, <1>3, <1>4, <1>5, <1>9, <1>10

\* Writing an entry: upsertReadyEntry keeps the whole invariant.
LEMMA UpsertInv ==
    ASSUME IInv, NEW u \in Udid, NEW services \in Catalog,
           NEW refreshers \in SUBSET Client,
           \A c \in refreshers : phase[c] = "refreshing",
           UpsertReadyEntry(u, services, refreshers),
           UNCHANGED <<server, target, arrived, caller>>,
           publisher' \in [Udid -> {"idle", "discovering"}]
    PROVE  IInv'
  <1> DEFINE e == Stamped(services, "publish")
  <1>1. e \in Entry /\ writes' \in 0..MaxWrites /\ e.lastUpdated = writes + 1
        /\ e.services = services /\ services # {}
    BY DEF IInv, TypeOK, UpsertReadyEntry, Stamped, Entry, Catalog
  <1>2. Ok(e) \in Answer
    BY <1>1 DEF Ok, Answer, Code
  <1>3. SettleWaiters(u, refreshers, Ok(e))
    BY DEF UpsertReadyEntry, ResolveReady
  <1> e \in Entry /\ e # NoEntry
    BY <1>1
  <1>4. /\ waiters' \in [Udid -> SUBSET Client]
        /\ phase' \in [Client -> {"idle", "parked", "settled", "refreshing", "answered"}]
        /\ timer' \in [Client -> {"none", "armed", "cleared", "fired"}]
        /\ answer' \in [Client -> Answer]
        /\ TargetSet'
        /\ WaitersExact'
        /\ waiters'[u] = {}
        /\ \A v \in Udid : v # u => waiters'[v] = waiters[v]
    BY <1>2, <1>3, SettleExact DEF IInv
  <1>5. tunnels' \in [Udid -> Entry \cup {NoEntry}]
    BY <1>1 DEF IInv, TypeOK, UpsertReadyEntry
  <1>6. TypeOK'
    BY <1>1, <1>4, <1>5 DEF IInv, TypeOK
  <1>7. ASSUME NEW c \in Client, answer'[c].code = 200, timer'[c] = "cleared"
        PROVE  IsTunnelEntryReady(answer'[c].entry) /\ answer'[c].entry.lastUpdated > arrived'[c]
    <2>1. CASE c \in waiters[u] \cup refreshers
      <3>1. answer'[c].entry = e
        BY <1>3, <2>1 DEF SettleWaiters, Ok
      <3>2. IsTunnelEntryReady(e)
        BY <1>1, ZenonT(20) DEF IsTunnelEntryReady
      <3>3. arrived'[c] \in 0..writes
        BY DEF IInv, TypeOK, ArrivedInPast
      <3>4. e.lastUpdated > arrived'[c]
        BY <1>1, <3>3 DEF IInv, TypeOK
      <3> QED BY <3>1, <3>2, <3>4
    <2>2. CASE c \notin waiters[u] \cup refreshers
      <3>1. answer'[c] = answer[c] /\ timer'[c] = timer[c] /\ arrived'[c] = arrived[c]
        BY <1>3, <2>2 DEF SettleWaiters, IInv, TypeOK
      <3> QED BY <1>7, <3>1 DEF IInv, FreshAnswer
    <2> QED BY <2>1, <2>2
  <1>8. FreshAnswer'
    BY <1>7 DEF FreshAnswer, IsTunnelEntryReady
  <1>9. PublishedIsSeen'
    BY <1>4 DEF IInv, TypeOK, PublishedIsSeen, UpsertReadyEntry, IsTunnelEntryReady
  <1>10. ArrivedInPast'
    BY <1>1 DEF UpsertReadyEntry, IInv, TypeOK, ArrivedInPast
  <1> QED BY <1>4, <1>6, <1>8, <1>9, <1>10 DEF IInv

\* markPending, whatever else it comes with, keeps the invariant as long as no
\* entry becomes ready.
LEMMA PendingInv ==
    ASSUME IInv, NEW u \in Udid, MarkPending(u),
           UNCHANGED <<writes, server, target, arrived, caller>>,
           publisher' \in [Udid -> {"idle", "discovering"}],
           tunnels' \in [Udid -> Entry \cup {NoEntry}],
           \A v \in Udid : tunnels'[v] = tunnels[v] \/ tunnels'[v] = NoEntry
    PROVE  IInv'
  <1>1. SettleWaiters(u, {}, Failed(408))
    BY DEF MarkPending
  <1>2. Failed(408) \in Answer
    BY DEF Failed, Answer, Code
  <1>3. /\ waiters' \in [Udid -> SUBSET Client]
        /\ phase' \in [Client -> {"idle", "parked", "settled", "refreshing", "answered"}]
        /\ timer' \in [Client -> {"none", "armed", "cleared", "fired"}]
        /\ answer' \in [Client -> Answer]
        /\ TargetSet'
        /\ WaitersExact'
        /\ waiters'[u] = {}
        /\ \A v \in Udid : v # u => waiters'[v] = waiters[v]
    BY <1>1, <1>2, SettleExact DEF IInv
  <1>4. TypeOK' /\ ArrivedInPast'
    BY <1>3 DEF IInv, TypeOK, ArrivedInPast
  <1>5. FreshAnswer'
    <2> SUFFICES ASSUME NEW c \in Client, answer'[c].code = 200, timer'[c] = "cleared"
                 PROVE  IsTunnelEntryReady(answer'[c].entry)
                        /\ answer'[c].entry.lastUpdated > arrived'[c]
      BY DEF FreshAnswer, IsTunnelEntryReady
    <2>1. c \notin waiters[u]
      BY <1>1 DEF SettleWaiters, Failed
    <2>2. answer'[c] = answer[c] /\ timer'[c] = timer[c] /\ arrived'[c] = arrived[c]
      BY <1>1, <2>1 DEF SettleWaiters, IInv, TypeOK
    <2> QED BY <2>2 DEF IInv, FreshAnswer
  <1>6. PublishedIsSeen'
    BY <1>3 DEF IInv, TypeOK, PublishedIsSeen, IsTunnelEntryReady
  <1> QED BY <1>3, <1>4, <1>5, <1>6 DEF IInv

\* The handlers that answer at once, and those that start to wait.
LEMMA ReplyInv ==
    ASSUME IInv, NEW c \in Client, NEW a \in Answer, Reply(c, a), ~Open(c) \/ phase[c] = "refreshing",
           target' \in [Client -> Udid \cup {NoUdid}], target'[c] \in Udid,
           \A d \in Client : d # c => target'[d] = target[d],
           arrived' \in [Client -> 0..MaxWrites], \A d \in Client : arrived'[d] \in 0..writes,
           \A d \in Client : d # c => arrived'[d] = arrived[d],
           caller' \in [Client -> {"idle", "get", "refresh", "resolved", "failed"}],
           UNCHANGED <<tunnels, writes, publisher, server>>
    PROVE  IInv'
  <1>1. TypeOK'
    BY DEF IInv, TypeOK, Reply
  <1>2. TargetSet' /\ ArrivedInPast'
    BY DEF IInv, TypeOK, Reply, TargetSet, ArrivedInPast
  <1>3. WaitersExact'
    BY DEF IInv, TypeOK, Reply, WaitersExact, Open
  <1>4. FreshAnswer'
    BY DEF IInv, TypeOK, Reply, FreshAnswer, IsTunnelEntryReady
  <1>5. PublishedIsSeen'
    BY DEF IInv, TypeOK, Reply, PublishedIsSeen, IsTunnelEntryReady
  <1> QED BY <1>1, <1>2, <1>3, <1>4, <1>5 DEF IInv

LEMMA StepInv == IInv /\ [Next]_vars => IInv'
  <1> SUFFICES ASSUME IInv, [Next]_vars PROVE IInv'
    OBVIOUS
  <1>1. ASSUME NEW u \in Udid, PublishBegin(u) PROVE IInv'
    BY <1>1, PendingInv DEF PublishBegin, IInv, TypeOK
  <1>2. ASSUME NEW u \in Udid, PublishDone(u) PROVE IInv'
    <2>1. PICK services \in Catalog : UpsertReadyEntry(u, services, {})
      BY <1>2 DEF PublishDone
    <2>2. publisher' \in [Udid -> {"idle", "discovering"}]
      BY <1>2 DEF PublishDone, IInv, TypeOK
    <2> QED BY <1>2, <2>1, <2>2, UpsertInv DEF PublishDone
  <1>3. ASSUME NEW u \in Udid, PublishFail(u) PROVE IInv'
    BY <1>3 DEF PublishFail, requestVars, IInv, TypeOK, TargetSet, ArrivedInPast, WaitersExact,
                FreshAnswer, PublishedIsSeen, IsTunnelEntryReady
  <1>4. ASSUME NEW u \in Udid, TunnelDied(u) PROVE IInv'
    <2>1. MarkPending(u) /\ UNCHANGED <<writes, server, target, arrived, caller, publisher>>
      BY <1>4 DEF TunnelDied, RemoveTunnelEntry
    <2>2. tunnels' \in [Udid -> Entry \cup {NoEntry}]
          /\ \A v \in Udid : tunnels'[v] = tunnels[v] \/ tunnels'[v] = NoEntry
      BY <1>4 DEF TunnelDied, RemoveTunnelEntry, IInv, TypeOK
    <2>3. publisher' \in [Udid -> {"idle", "discovering"}]
      BY <2>1 DEF IInv, TypeOK
    <2> QED BY <2>1, <2>2, <2>3, PendingInv
  <1>5. ASSUME NEW u \in Udid, UpdateTunnel(u) PROVE IInv'
    <2>1. PICK services \in SUBSET Service :
             tunnels' = [tunnels EXCEPT ![u] = Stamped(services, "put")]
      BY <1>5 DEF UpdateTunnel
    <2>2. Stamped(services, "put") \in Entry /\ writes' = writes + 1 /\ writes' \in 0..MaxWrites
      BY <1>5 DEF UpdateTunnel, Stamped, Entry, IInv, TypeOK
    <2>3. TypeOK'
      BY <1>5, <2>1, <2>2 DEF UpdateTunnel, requestVars, IInv, TypeOK
    <2>4. TargetSet' /\ ArrivedInPast' /\ WaitersExact' /\ FreshAnswer'
      BY <1>5, <2>2 DEF UpdateTunnel, requestVars, IInv, TypeOK, TargetSet, ArrivedInPast,
                        WaitersExact, FreshAnswer, IsTunnelEntryReady
    <2>5. tunnels'[u].by = "put" /\ \A v \in Udid : v # u => tunnels'[v] = tunnels[v]
      BY <2>1 DEF Stamped, IInv, TypeOK
    <2>6. PublishedIsSeen'
      BY <1>5, <2>5 DEF UpdateTunnel, requestVars, IInv, PublishedIsSeen, IsTunnelEntryReady
    <2> QED BY <2>3, <2>4, <2>6 DEF IInv
  <1>6. ASSUME NEW c \in Client, WaiterTimeout(c) PROVE IInv'
    <2>1. target[c] \in Udid /\ c \in waiters[target[c]] /\ phase[c] = "parked"
      BY <1>6 DEF WaiterTimeout, IInv, TypeOK, WaitersExact, TargetSet
    <2>2. Failed(408) \in Answer
      BY DEF Failed, Answer, Code
    <2>3. TypeOK'
      BY <1>6, <2>1, <2>2 DEF WaiterTimeout, RemoveWaiter, IInv, TypeOK
    <2>4. TargetSet' /\ ArrivedInPast'
      BY <1>6, <2>1 DEF WaiterTimeout, IInv, TypeOK, TargetSet, ArrivedInPast
    <2>5. WaitersExact'
      BY <1>6, <2>1 DEF WaiterTimeout, RemoveWaiter, IInv, TypeOK, WaitersExact
    <2>6. FreshAnswer'
      BY <1>6 DEF WaiterTimeout, IInv, TypeOK, FreshAnswer, IsTunnelEntryReady
    <2>7. PublishedIsSeen'
      BY <1>6, <2>1 DEF WaiterTimeout, RemoveWaiter, IInv, TypeOK, PublishedIsSeen, IsTunnelEntryReady
    <2> QED BY <2>3, <2>4, <2>5, <2>6, <2>7 DEF IInv
  <1>7. ASSUME NEW c \in Client, SendSettled(c) PROVE IInv'
    BY <1>7 DEF SendSettled, serverVars, IInv, TypeOK, TargetSet, ArrivedInPast, WaitersExact,
                FreshAnswer, PublishedIsSeen, IsTunnelEntryReady
  <1>8. ASSUME NEW c \in Client, RefreshDone(c) PROVE IInv'
    <2>1. PICK services \in Catalog : UpsertReadyEntry(target[c], services, {c})
      BY <1>8 DEF RefreshDone
    <2>2. target[c] \in Udid /\ phase[c] = "refreshing"
      BY <1>8 DEF RefreshDone, IInv, TargetSet
    <2>3. publisher' \in [Udid -> {"idle", "discovering"}]
      BY <1>8 DEF RefreshDone, IInv, TypeOK
    <2>4. \A d \in {c} : phase[d] = "refreshing"
      BY <2>2
    <2> QED BY <1>8, <2>1, <2>2, <2>3, <2>4, UpsertInv DEF RefreshDone
  <1>9. ASSUME NEW c \in Client, RefreshFail(c) PROVE IInv'
    <2>1. Failed(500) \in Answer
      BY DEF Failed, Answer, Code
    <2>2. target[c] \in Udid
      BY <1>9 DEF RefreshFail, IInv, TargetSet
    <2>3. /\ target' = target /\ arrived' = arrived /\ caller' = caller
          /\ UNCHANGED <<tunnels, writes, publisher, server>>
          /\ Reply(c, Failed(500)) /\ phase[c] = "refreshing"
      BY <1>9 DEF RefreshFail
    <2> QED BY <2>1, <2>2, <2>3, ReplyInv DEF IInv, TypeOK, ArrivedInPast
  <1>10. ASSUME NEW c \in Client, FetchTimeout(c) PROVE IInv'
    BY <1>10 DEF FetchTimeout, serverVars, requestVars, IInv, TypeOK, TargetSet, ArrivedInPast,
                 WaitersExact, FreshAnswer, PublishedIsSeen, IsTunnelEntryReady
  <1>11. ASSUME NEW c \in Client, NEW u \in Udid, NEW wait \in BOOLEAN, CallGet(c, u, wait)
         PROVE  IInv'
    <2>1. /\ target' = [target EXCEPT ![c] = u]
          /\ arrived' = [arrived EXCEPT ![c] = writes]
          /\ caller' = [caller EXCEPT ![c] = "get"]
          /\ UNCHANGED <<tunnels, writes, publisher, server>>
          /\ ~Open(c)
      BY <1>11 DEF CallGet, GetTunnelByUdid, Arrive
    <2>2. /\ target' \in [Client -> Udid \cup {NoUdid}] /\ target'[c] = u
          /\ \A d \in Client : d # c => target'[d] = target[d] /\ arrived'[d] = arrived[d]
          /\ arrived' \in [Client -> 0..MaxWrites] /\ \A d \in Client : arrived'[d] \in 0..writes
          /\ caller' \in [Client -> {"idle", "get", "refresh", "resolved", "failed"}]
      BY <2>1 DEF IInv, TypeOK, ArrivedInPast
    <2>3. CASE IsTunnelEntryReady(tunnels[u]) /\ Reply(c, Ok(tunnels[u]))
      <3>1. Ok(tunnels[u]) \in Answer
        BY DEF Ok, Answer, Code, IInv, TypeOK
      <3> QED BY <2>1, <2>2, <2>3, <3>1, ReplyInv
    <2>4. CASE Reply(c, Failed(404))
      <3>1. Failed(404) \in Answer
        BY DEF Failed, Answer, Code
      <3> QED BY <2>1, <2>2, <2>4, <3>1, ReplyInv
    <2>5. CASE ~IsTunnelEntryReady(tunnels[u]) /\ WaitForReady(c, u)
      <3>1. TypeOK'
        BY <2>1, <2>2, <2>5 DEF WaitForReady, IInv, TypeOK
      <3>2. TargetSet' /\ ArrivedInPast'
        BY <2>1, <2>2, <2>5 DEF WaitForReady, IInv, TypeOK, TargetSet, ArrivedInPast
      <3>3. WaitersExact'
        BY <2>1, <2>2, <2>5 DEF WaitForReady, IInv, TypeOK, WaitersExact, Open
      <3>4. FreshAnswer'
        BY <2>1, <2>2, <2>5 DEF WaitForReady, IInv, TypeOK, FreshAnswer, IsTunnelEntryReady
      <3>5. PublishedIsSeen'
        BY <2>1, <2>5 DEF WaitForReady, IInv, TypeOK, PublishedIsSeen, IsTunnelEntryReady
      <3> QED BY <3>1, <3>2, <3>3, <3>4, <3>5 DEF IInv
    <2> QED BY <1>11, <2>3, <2>4, <2>5 DEF CallGet, GetTunnelByUdid
  <1>12. ASSUME NEW c \in Client, NEW s \in Service, GetAnswered(c, s) PROVE IInv'
    <2>1. CASE UNCHANGED <<serverVars, requestVars>>
               /\ caller' \in [Client -> {"idle", "get", "refresh", "resolved", "failed"}]
      BY <2>1 DEF serverVars, requestVars, IInv, TypeOK, TargetSet, ArrivedInPast,
                  WaitersExact, FreshAnswer, PublishedIsSeen, IsTunnelEntryReady
    <2>2. CASE /\ RefreshTunnelServices(c, target[c]) /\ phase[c] = "answered"
               /\ caller' = [caller EXCEPT ![c] = "refresh"]
               /\ UNCHANGED <<tunnels, writes, publisher, server>>
      <3>1. target[c] \in Udid /\ ~Open(c)
        BY <2>2 DEF IInv, TargetSet, Open
      <3>2. target' = target /\ arrived' = [arrived EXCEPT ![c] = writes]
        BY <2>2 DEF RefreshTunnelServices, Arrive, IInv, TypeOK
      <3>3. /\ target' \in [Client -> Udid \cup {NoUdid}] /\ target'[c] \in Udid
            /\ \A d \in Client : d # c => target'[d] = target[d] /\ arrived'[d] = arrived[d]
            /\ arrived' \in [Client -> 0..MaxWrites] /\ \A d \in Client : arrived'[d] \in 0..writes
            /\ caller' \in [Client -> {"idle", "get", "refresh", "resolved", "failed"}]
        BY <2>2, <3>1, <3>2 DEF IInv, TypeOK, ArrivedInPast
      <3>4. CASE Reply(c, Failed(404))
        <4>1. Failed(404) \in Answer
          BY DEF Failed, Answer, Code
        <4> QED BY <2>2, <3>1, <3>3, <3>4, <4>1, ReplyInv
      <3>5. CASE /\ phase' = [phase EXCEPT ![c] = "refreshing"]
                 /\ timer' = [timer EXCEPT ![c] = "none"]
                 /\ UNCHANGED <<waiters, answer>>
        <4>1. TypeOK'
          BY <2>2, <3>3, <3>5 DEF IInv, TypeOK
        <4>2. TargetSet' /\ ArrivedInPast'
          BY <2>2, <3>3, <3>5 DEF IInv, TypeOK, TargetSet, ArrivedInPast
        <4>3. WaitersExact' /\ FreshAnswer'
          BY <2>2, <3>1, <3>2, <3>3, <3>5 DEF IInv, TypeOK, WaitersExact, FreshAnswer, IsTunnelEntryReady
        <4>4. PublishedIsSeen'
          BY <2>2, <3>5 DEF IInv, TypeOK, PublishedIsSeen, IsTunnelEntryReady
        <4> QED BY <4>1, <4>2, <4>3, <4>4 DEF IInv
      <3> QED BY <2>2, <3>4, <3>5 DEF RefreshTunnelServices
    <2> QED BY <1>12, <2>1, <2>2 DEF GetAnswered, IInv, TypeOK
  <1>13. ASSUME NEW c \in Client, NEW s \in Service, RefreshAnswered(c, s) PROVE IInv'
    BY <1>13 DEF RefreshAnswered, serverVars, requestVars, IInv, TypeOK, TargetSet, ArrivedInPast,
                 WaitersExact, FreshAnswer, PublishedIsSeen, IsTunnelEntryReady
  <1>14. CASE StopBegin \/ StopDone
    BY <1>14 DEF StopBegin, StopDone, requestVars, IInv, TypeOK, TargetSet, ArrivedInPast,
                 WaitersExact, FreshAnswer, PublishedIsSeen, IsTunnelEntryReady
  <1>15. CASE UNCHANGED vars
    BY <1>15 DEF vars, IInv, TypeOK, TargetSet, ArrivedInPast,
                 WaitersExact, FreshAnswer, PublishedIsSeen, IsTunnelEntryReady
  <1> QED
    BY <1>1, <1>2, <1>3, <1>4, <1>5, <1>6, <1>7, <1>8, <1>9, <1>10, <1>11, <1>12, <1>13,
       <1>14, <1>15 DEF Next

LEMMA InitInv == Init => IInv
  <1> SUFFICES ASSUME Init PROVE IInv
    OBVIOUS
  <1>1. NoAnswer \in Answer /\ NoAnswer.code # 200
    BY DEF NoAnswer, Answer
  <1>2. TypeOK
    BY <1>1 DEF Init, TypeOK
  <1>3. TargetSet /\ ArrivedInPast /\ WaitersExact /\ FreshAnswer /\ PublishedIsSeen
    BY DEF Init, TargetSet, ArrivedInPast, WaitersExact, FreshAnswer, PublishedIsSeen, IsTunnelEntryReady
  <1> QED BY <1>2, <1>3 DEF IInv

LEMMA SpecInv == Spec => []IInv
  BY InitInv, StepInv, PTL DEF Spec

\* The registry's variables stay in their domains: tunnel-registry-server.ts
\* and tunnel-readiness.ts never file a waiter or an entry of the wrong shape.
THEOREM TypeCorrect == Spec => []TypeOK
  <1>1. IInv => TypeOK
    BY DEF IInv
  <1> QED BY <1>1, SpecInv, PTL

\* For any number of clients and devices the waiter lists of
\* TunnelReadinessCoordinator are exactly the unanswered long polls.
THEOREM WaitersAreExact == Spec => []WaitersExact
  <1>1. IInv => WaitersExact
    BY DEF IInv
  <1> QED BY <1>1, SpecInv, PTL

\* A long poll that waited is answered with an entry written after it arrived
\* (upsertReadyEntry writes before it wakes).
THEOREM AnswersAreFresh == Spec => []FreshAnswer
  <1>1. IInv => FreshAnswer
    BY DEF IInv
  <1> QED BY <1>1, SpecInv, PTL

\* No long poll sleeps on a published entry: the wake-up of upsertReadyEntry is
\* never lost.
THEOREM NoLostWakeup == Spec => []PublishedIsSeen
  <1>1. IInv => PublishedIsSeen
    BY DEF IInv
  <1> QED BY <1>1, SpecInv, PTL
=============================================================================
