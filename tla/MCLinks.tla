-------------------------------- MODULE MCLinks --------------------------------
(* The ways to a device and the services that ask it one thing at a time: the components of  *)
(* MCDevice whose connections and answers can be lost, mixed up or left open.  A behaviour is *)
(* one of the component that runs.  MCDevice extends this module with the others, and each of *)
(* its behaviours is one of LinksSpec, in which a component that is not here takes no step.   *)
EXTENDS Naturals, Sequences

CONSTANTS Client, Nobody, MaxRequests, HighWater, MaxBytes,   \* Usbmux
          Conn, ForwarderCalls,   \* PortForwarder
          Asker, MaxAsks,   \* Lockdown
          MaxCallbacks, Chunks,   \* TestManager
          Listener, MaxDials, MaxLoops, MaxMessages,   \* WebInspector
          Announced, Watched,   \* CrashReports
          MounterCalls, MaxTimeouts,   \* Mounter
          Parts, ProxyRequests,   \* InstallationProxy
          AfcSize, AfcChunk, ReadAhead, Transfers,   \* AfcTransfer
          Listed, TopDirectory, SafeNames, LowerCased, Suffixes   \* AfcTree

ASSUME NamesAssumption == Nobody \notin Client /\ "upgrade" \notin Asker
ASSUME PartsAssumption == Parts \in Seq(Seq(Nat))
ASSUME LinksBounds == MaxRequests \in Nat /\ MaxDials \in Nat /\ Chunks \in SUBSET Nat
ASSUME TransferBounds == {AfcSize, AfcChunk, ReadAhead, Transfers} \subseteq Nat

VARIABLES component,   \* the one that runs; the variables of the others are Resting
          mux, asks, usbmuxd, inbound,   \* Usbmux
          forwarder, conns, active,   \* PortForwarder
          relay, stage, upgrade, plist, requests, lockdownd,   \* Lockdown
          proxy, poll, testmanagerd, answers,   \* TestManager
          inspector, dials, loops, listeners, webinspectord,   \* WebInspector
          watcher, pending, reports, diagnosis, idle,   \* CrashReports
          mounter, plists, mounterd,   \* Mounter
          installer, answered, proxied,   \* InstallationProxy
          transfer, pump, afcd,   \* AfcTransfer
          pull, host, removal   \* AfcTree

usbmuxVars == <<mux, asks, usbmuxd, inbound>>
forwarderVars == <<forwarder, conns, active>>
lockdownVars == <<relay, stage, upgrade, plist, requests, lockdownd>>
testmanagerVars == <<proxy, poll, testmanagerd, answers>>
webinspectorVars == <<inspector, dials, loops, listeners, webinspectord>>
crashVars == <<watcher, pending, reports, diagnosis, idle>>
mounterVars == <<mounter, plists, mounterd>>
proxyVars == <<installer, answered, proxied>>
transferVars == <<transfer, pump, afcd>>
treeVars == <<pull, host, removal>>
linksVars == <<component, usbmuxVars, forwarderVars, lockdownVars, testmanagerVars,
               webinspectorVars, crashVars, mounterVars, proxyVars, transferVars, treeVars>>

U == INSTANCE Usbmux WITH None <- Nobody
P == INSTANCE PortForwarder WITH MaxCalls <- ForwarderCalls
L == INSTANCE Lockdown
T == INSTANCE TestManager
W == INSTANCE WebInspector
C == INSTANCE CrashReports WITH Process <- Watched
I == INSTANCE Mounter WITH MaxCalls <- MounterCalls
N == INSTANCE InstallationProxy WITH MaxRequests <- ProxyRequests
F == INSTANCE AfcTransfer WITH Size <- AfcSize, ChunkSize <- AfcChunk, HighWater <- ReadAhead, MaxOps <- Transfers
D == INSTANCE AfcTree WITH Children <- Listed, Root <- TopDirectory, Sanitized <- SafeNames,
                           Folded <- LowerCased, MaxSuffix <- Suffixes

\* What a device has are trees of directories: an entry is listed once, and no directory is
\* below one that it holds.
ASSUME TreeAssumption ==
    /\ TopDirectory \in DOMAIN Listed
    /\ \A d \in DOMAIN Listed : Listed[d] \in Seq(DOMAIN SafeNames)
    /\ \A d, e \in DOMAIN Listed : \A i \in DOMAIN Listed[d], j \in DOMAIN Listed[e] :
          Listed[d][i] = Listed[e][j] => d = e /\ i = j
    /\ \A d \in DOMAIN Listed : \A i \in DOMAIN Listed[d] : d \notin D!Below(Listed[d][i])

Resting == 0
LinksInit ==
    /\ IF component = "usbmux" THEN U!MuxInit
       ELSE mux = Resting /\ asks = Resting /\ usbmuxd = Resting /\ inbound = Resting
    /\ IF component = "forwarder" THEN P!PfInit
       ELSE forwarder = Resting /\ conns = Resting /\ active = Resting
    /\ IF component = "lockdown" THEN L!LdInit
       ELSE relay = Resting /\ stage = Resting /\ upgrade = Resting /\ plist = Resting /\ requests = Resting /\ lockdownd = Resting
    /\ IF component = "testmanager" THEN T!TmInit
       ELSE proxy = Resting /\ poll = Resting /\ testmanagerd = Resting /\ answers = Resting
    /\ IF component = "webinspector" THEN W!InspectInit
       ELSE inspector = Resting /\ dials = Resting /\ loops = Resting /\ listeners = Resting /\ webinspectord = Resting
    /\ IF component = "crash" THEN C!CrashInit
       ELSE watcher = Resting /\ pending = Resting /\ reports = Resting /\ diagnosis = Resting /\ idle = Resting
    /\ IF component = "mounter" THEN I!MounterInit
       ELSE mounter = Resting /\ plists = Resting /\ mounterd = Resting
    /\ IF component = "proxy" THEN N!ProxyInit
       ELSE installer = Resting /\ answered = Resting /\ proxied = Resting
    /\ IF component = "transfer" THEN F!AtInit
       ELSE transfer = Resting /\ pump = Resting /\ afcd = Resting
    /\ IF component = "tree" THEN D!TreeInit
       ELSE pull = Resting /\ host = Resting /\ removal = Resting

LinksRest(c) ==
    /\ UNCHANGED component
    /\ IF c = "usbmux" THEN TRUE ELSE UNCHANGED usbmuxVars
    /\ IF c = "forwarder" THEN TRUE ELSE UNCHANGED forwarderVars
    /\ IF c = "lockdown" THEN TRUE ELSE UNCHANGED lockdownVars
    /\ IF c = "testmanager" THEN TRUE ELSE UNCHANGED testmanagerVars
    /\ IF c = "webinspector" THEN TRUE ELSE UNCHANGED webinspectorVars
    /\ IF c = "crash" THEN TRUE ELSE UNCHANGED crashVars
    /\ IF c = "mounter" THEN TRUE ELSE UNCHANGED mounterVars
    /\ IF c = "proxy" THEN TRUE ELSE UNCHANGED proxyVars
    /\ IF c = "transfer" THEN TRUE ELSE UNCHANGED transferVars
    /\ IF c = "tree" THEN TRUE ELSE UNCHANGED treeVars

Usbmux == component = "usbmux" /\ U!MuxNext /\ LinksRest("usbmux")
Forwarder == component = "forwarder" /\ P!PfNext /\ LinksRest("forwarder")
Lockdown == component = "lockdown" /\ L!LdNext /\ LinksRest("lockdown")
Testmanager == component = "testmanager" /\ T!TmNext /\ LinksRest("testmanager")
Webinspector == component = "webinspector" /\ W!InspectNext /\ LinksRest("webinspector")
Crash == component = "crash" /\ C!CrashNext /\ LinksRest("crash")
Mounter == component = "mounter" /\ I!MounterNext /\ LinksRest("mounter")
Proxy == component = "proxy" /\ N!ProxyNext /\ LinksRest("proxy")
Transfer == component = "transfer" /\ F!AtNext /\ LinksRest("transfer")
Tree == component = "tree" /\ D!TreeNext /\ LinksRest("tree")

LinksNext == Usbmux \/ Forwarder \/ Lockdown \/ Testmanager \/ Webinspector \/ Crash
             \/ Mounter \/ Proxy \/ Transfer \/ Tree
LinksSpec == LinksInit /\ [][LinksNext]_linksVars

\* An answer reaches the request it is of, or none, though most of these protocols have
\* nothing in an answer that says so: the requests to usbmuxd by their tags, the messages of
\* lockdown by their order, the callbacks of testmanagerd among its replies, the parts of an
\* installation_proxy list, the steps of a mount after waits that were given up.
AnswersMatch ==
    /\ component = "usbmux" => U!AnswersMatch
    /\ component = "lockdown" => L!AnswersInOrder
    /\ component = "testmanager" => T!OthersAnswered
    /\ component = "mounter" => I!MountIsReal /\ I!ImageWhenAsked
    /\ component = "proxy" => N!AnswersWhole

\* A connection is used by whoever has it, as what it is now: a detached usbmux socket by its
\* tunnel, an open upstream by its forwarder, a lockdown session over TLS, but for a user who
\* made the service himself and writes in clear while it is upgraded, one connection of the web
\* inspector for all, for crash reports an AFC connection the device has not dropped.
ConnectionsHeld ==
    /\ component = "usbmux" => U!OwnerHasStream
    /\ component = "forwarder" => P!OpenIsTracked
    /\ component = "lockdown" => L!SecuredTalksTls
    /\ component = "webinspector" => W!OneConnection
    /\ component = "crash" => C!ReadsWhatIsThere

\* What comes out is what went in, whoever reads when and whatever is given up: the frames of
\* testmanagerd, the messages of the web inspector, the reports that were announced, a file
\* read or written over AFC with all the queues on its way, which ends by saying what failed.
StreamsExact ==
    /\ component = "testmanager" => T!FramingAligned
    /\ component = "webinspector" => W!YieldsAll
    /\ component = "crash" => C!ReportsExact
    /\ component = "transfer" => F!ReadServed /\ F!EndsClean

\* AfcTree.NoClobber and RemovedOrReported: no entry of a pulled directory is written over
\* another, unless the file system was misjudged and what is there may be overwritten; and rm
\* reports what it leaves, and nothing else but what was removed without an answer.
TreesKept == component = "tree" => D!NoClobber /\ D!RemovedOrReported
================================================================================
