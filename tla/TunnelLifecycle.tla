--------------------------- MODULE TunnelLifecycle ---------------------------
(* The life of one device's tunnel in the tunnel-creation process: native      *)
(* forwarders that die, the TunnelManager singleton, the registry entry, the   *)
(* watch that removes it, the singleflight RSD discovery, catalog refreshes     *)
(* requested over HTTP, and the reconnect loop.  setup says which script runs:  *)
(* "usb" is scripts/tunnel-creation.mjs, "appletv" start-appletv-tunnel.mjs.    *)
(* All maps of the code are keyed by UDID or by tunnel address, so one device   *)
(* stands for all.  A step is one synchronous segment with the microtasks that  *)
(* follow it.                                                                   *)
EXTENDS Naturals, FiniteSets, Sequences

CONSTANTS
    Tunnel,        \* identities of TunnelConnection objects, recycled when unreachable
    Address,       \* tunnel addresses the device may hand out
    Refresher,     \* concurrent POST /tunnels/:udid/refresh-services requests
    Setups,        \* the situations considered, see Setup
    MaxFaults,     \* bound: forwarder deaths, tunnels without a port, failed creations and discoveries
    NoTunnel, NoAddress, NoEntry, Idle

\* reuse: a new tunnel may get an address still marked active.  refreshes: the
\* registry's clients ask for refreshes.  retries: --reconnect-retries, 0 is
\* unlimited.
Setup == [variant : {"usb", "appletv"}, reuse : BOOLEAN, refreshes : BOOLEAN, retries : Nat]

ASSUME SetupsAssumption == Setups \subseteq Setup
ASSUME FaultsAssumption == MaxFaults \in Nat
ASSUME PlaceholdersAssumption ==
    /\ NoTunnel \notin Tunnel
    /\ NoEntry \notin [tunnel : Tunnel, catalogOf : Tunnel]
    /\ Idle \notin Refresher

VARIABLES
    setup,         \* the situation of this behaviour
    forwarder,     \* native forwarder of each tunnel: free, up, dead, closed
    address,       \* TunnelConnection.Address
    portless,      \* tunnels whose RsdPort is missing or not positive
    manager,       \* TunnelManager.tunnelRegistry: the active tunnel at an address
    established,   \* establishedTunnelsByUdid
    watch,         \* the handler behind lifecycle.notify of each tunnel
    watched,       \* lifecycleWatchStopByUdid: whose watch the map holds
    entry,         \* registry.tunnels[udid]
    finalizing,    \* tunnels (or none) whose onTunnelDead is awaiting closeTunnelByAddress
    inflight,      \* inFlightByUdid: the tunnel being discovered and the phase
    joined,        \* who awaits the discovery, in order: Idle is the builder
    refresh,       \* the tunnel of the entry captured by each refresh request
    builder,       \* createTunnelForDevice + publish, from main or a reconnect
    faults,        \* faults so far
    removed        \* history: tunnels finalize removed from the registry

vars == <<setup, forwarder, address, portless, manager, established, watch, watched, entry,
          finalizing, inflight, joined, refresh, builder, faults, removed>>

Builder == [mode : {"main", "reconnect", "none"},
            pc : {"create", "redundant", "unpublished", "discovering", "off"},
            conn : Tunnel \cup {NoTunnel},    \* result.tunnelConnection
            life : Tunnel \cup {NoTunnel},    \* whose lifecycle.notify result sets
            attempt : Nat]

NoDiscovery == [tunnel |-> NoTunnel, phase |-> "none"]
Off == [mode |-> "none", pc |-> "off", conn |-> NoTunnel, life |-> NoTunnel, attempt |-> 0]

Init ==
    /\ setup \in Setups
    /\ forwarder = [t \in Tunnel |-> "free"]
    /\ address = [t \in Tunnel |-> NoAddress]
    /\ portless = {}
    /\ manager = [a \in Address |-> NoTunnel]
    /\ established = NoTunnel
    /\ watch = [t \in Tunnel |-> "none"]
    /\ watched = NoTunnel
    /\ entry = NoEntry
    /\ finalizing = {}
    /\ inflight = NoDiscovery
    /\ joined = <<>>
    /\ refresh = [r \in Refresher |-> NoTunnel]
    /\ builder = [Off EXCEPT !.mode = "main", !.pc = "create"]
    /\ faults = 0
    /\ removed = {}

Fault == faults < MaxFaults /\ faults' = faults + 1

\* Tunnels some object of the process still refers to.
Reachable ==
    {established, watched, inflight.tunnel, builder.conn, builder.life}
    \cup {manager[a] : a \in Address} \cup finalizing
    \cup {refresh[r] : r \in Refresher}
    \cup (IF entry = NoEntry THEN {} ELSE {entry.tunnel, entry.catalogOf})

-----------------------------------------------------------------------------
(* tunnel-rsd-discovery.ts: one discovery per UDID, whatever the address.      *)

\* discoverServices(udid, t.address, ...): join the one in flight or start one.
JoinDiscovery(who, t) ==
    /\ joined' = Append(joined, who)
    /\ inflight' = IF inflight = NoDiscovery
                   THEN [tunnel |-> t, phase |-> "connecting"]
                   ELSE inflight

\* RsdServiceCatalogClient.connect resolved; `await remoteXPC.close()` follows.
DiscoverCatalog ==
    /\ inflight.phase = "connecting"
    /\ forwarder[inflight.tunnel] = "up"
    /\ inflight' = [inflight EXCEPT !.phase = "closing"]
    /\ UNCHANGED <<setup, forwarder, address, portless, manager, established, watch, watched, entry,
                   finalizing, joined, refresh, builder, faults, removed>>

-----------------------------------------------------------------------------
(* Watches: watchTunnelRegistryOnDead and the two maps around it.              *)

\* stopLifecycleWatch: the handler in the map becomes a no-op.
StopWatch(w) ==
    IF watched # NoTunnel /\ w[watched] = "armed" THEN [w EXCEPT ![watched] = "stopped"] ELSE w

\* Mutant: the new watch never registers its handler.
AttachInert(w, t) == StopWatch(w)

\* attachTunnelRegistryLifecycleWatch for the lifecycle of t.
Attach(w, t) == [StopWatch(w) EXCEPT ![t] = "armed"]

\* Mutant: the previous tunnel is left running.
KeepPrevious(f, conn) == f

\* registerEstablishedTunnel closes the previous tunnel unless it is the same.
ClosePrevious(f, conn) ==
    IF established \notin {NoTunnel, conn} THEN [f EXCEPT ![established] = "closed"] ELSE f

-----------------------------------------------------------------------------
(* The builder: createTunnelForDevice / establishOneTunnel, then publication.  *)

\* Whether the watch is attached before the entry is published: always in the
\* USB script, only for the first tunnel in the Apple TV script.
AttachesFirst == setup.variant = "usb" \/ builder.mode = "main"

\* publishDiscoveredTunnelEntry up to its await: a tunnel without a usable RSD port
\* is skipped, and with it ends the work of the builder.
Publish(b, conn) ==
    IF conn \in portless' THEN builder' = Off /\ UNCHANGED <<inflight, joined>>
    ELSE builder' = [b EXCEPT !.pc = "discovering"] /\ JoinDiscovery(Idle, conn)

\* From the return of getTunnel to the next await that leaves the microtask
\* queue: registerEstablishedTunnel, the watch, markTunnelPending, discovery.
Establish(f, conn, life) ==
    /\ forwarder' = ClosePrevious(f, conn)
    /\ established' = conn
    /\ IF AttachesFirst
       THEN /\ watch' = Attach(watch, life)
            /\ watched' = life
       ELSE /\ watch' = StopWatch(watch)
            /\ watched' = NoTunnel
    /\ IF setup.variant = "appletv" /\ builder.mode = "main"
       THEN /\ builder' = [builder EXCEPT !.pc = "unpublished", !.conn = conn, !.life = life]
            /\ UNCHANGED <<inflight, joined>>
       ELSE Publish([builder EXCEPT !.conn = conn, !.life = life], conn)

\* The native tunnel came up; registerTunnel files it, or finds an active tunnel
\* at its address and starts to close the new one.
Create(t, a) ==
    /\ builder.pc = "create"
    /\ forwarder[t] # "up" /\ t \notin Reachable
    /\ setup.reuse \/ manager[a] = NoTunnel
    /\ address' = [address EXCEPT ![t] = a]
    /\ removed' = removed \ {t}
    /\ \/ portless' = portless \ {t} /\ UNCHANGED faults
       \/ portless' = portless \cup {t} /\ Fault
    /\ \/ /\ manager[a] = NoTunnel
          /\ manager' = [manager EXCEPT ![a] = t]
          /\ Establish([forwarder EXCEPT ![t] = "up"], t, t)
       \/ /\ manager[a] # NoTunnel
          /\ forwarder' = [forwarder EXCEPT ![t] = "up"]
          /\ builder' = [builder EXCEPT !.pc = "redundant", !.conn = manager[a], !.life = t]
          /\ UNCHANGED <<manager, established, watch, watched, inflight, joined>>
    /\ UNCHANGED <<setup, entry, finalizing, refresh>>

\* `await tunnel.closer()` of the redundant tunnel returned: the existing tunnel
\* is used, the lifecycle object is the new tunnel's.
RedundantClosed ==
    /\ builder.pc = "redundant"
    /\ UNCHANGED <<setup, address, portless, manager, entry, finalizing, refresh, faults, removed>>
    /\ Establish([forwarder EXCEPT ![builder.life] = "closed"], builder.conn, builder.life)

\* Apple TV main: publishDiscoveredTunnelEntry after the establishment loop.
PublishLater ==
    /\ builder.pc = "unpublished"
    /\ UNCHANGED <<setup, forwarder, address, portless, manager, established, watch, watched, entry,
                   finalizing, refresh, faults, removed>>
    /\ Publish(builder, builder.conn)

\* Mutant: a failed attempt ends the reconnect run.
GivesUp == Off

\* Another attempt, or "Reconnect retries exhausted".
Retry ==
    IF builder.mode = "reconnect" /\ (setup.retries = 0 \/ builder.attempt < setup.retries)
    THEN [Off EXCEPT !.mode = "reconnect", !.pc = "create",
                     !.attempt = IF setup.retries = 0 THEN 0 ELSE builder.attempt + 1]
    ELSE Off

\* The tunnel could not be created: main gives up, the reconnect loop retries.
CreateFails ==
    /\ builder.pc = "create"
    /\ Fault
    /\ builder' = Retry
    /\ UNCHANGED <<setup, forwarder, address, portless, manager, established, watch, watched, entry,
                   finalizing, inflight, joined, refresh, removed>>

\* What a rejected publishDiscoveredTunnelEntry does to the builder: only the
\* Apple TV loop catches it and tries again.
AfterFailedPublish == IF setup.variant = "appletv" THEN Retry ELSE Off

Participants == {joined[i] : i \in 1..Len(joined)}

\* The discovery failed: every participant is rejected.
DiscoverFails ==
    /\ inflight.phase = "connecting"
    /\ \/ forwarder[inflight.tunnel] = "up" /\ Fault
       \/ forwarder[inflight.tunnel] # "up" /\ UNCHANGED faults
    /\ inflight' = NoDiscovery
    /\ joined' = <<>>
    /\ refresh' = [r \in Refresher |-> IF r \in Participants THEN NoTunnel ELSE refresh[r]]
    /\ builder' = IF Idle \in Participants THEN AfterFailedPublish ELSE builder
    /\ UNCHANGED <<setup, forwarder, address, portless, manager, established, watch, watched, entry,
                   finalizing, removed>>

\* Mutant: every participant writes the builder's entry.
BuilderEntry(who) == [tunnel |-> builder.conn, catalogOf |-> inflight.tunnel]

\* The entry participant who writes: publishDiscoveredTunnelEntry builds it from
\* its result, refreshServiceCatalog spreads the captured entry.
EntryOf(who) ==
    [tunnel |-> IF who = Idle THEN builder.conn ELSE refresh[who],
     catalogOf |-> inflight.tunnel]

\* The discovery succeeded.  The participants resume in the order they joined,
\* each calling upsertReadyEntry; the last write stays.  The Apple TV reconnect
\* loop attaches its watch now.
DiscoverDone ==
    /\ inflight.phase = "closing"
    /\ entry' = EntryOf(joined[Len(joined)])
    /\ inflight' = NoDiscovery
    /\ joined' = <<>>
    /\ refresh' = [r \in Refresher |-> IF r \in Participants THEN NoTunnel ELSE refresh[r]]
    /\ \/ /\ Idle \in Participants
          /\ builder' = Off
          /\ IF AttachesFirst
             THEN UNCHANGED <<watch, watched>>
             ELSE /\ watch' = Attach(watch, builder.life)
                  /\ watched' = builder.life
       \/ /\ Idle \notin Participants
          /\ UNCHANGED <<builder, watch, watched>>
    /\ UNCHANGED <<setup, forwarder, address, portless, manager, established, finalizing, faults, removed>>

-----------------------------------------------------------------------------
(* HTTP refresh, forwarder death, finalize, reconnect.                         *)

\* refreshTunnelServices captures the entry and awaits discoverServices.
RefreshBegin(r) ==
    /\ setup.refreshes
    /\ refresh[r] = NoTunnel
    /\ entry # NoEntry
    /\ refresh' = [refresh EXCEPT ![r] = entry.tunnel]
    /\ JoinDiscovery(r, entry.tunnel)
    /\ UNCHANGED <<setup, forwarder, address, portless, manager, established, watch, watched, entry,
                   finalizing, builder, faults, removed>>

\* Mutant: the entry stays when its forwarder dies.
FinalizeKeepsEntry == finalizing' = finalizing \cup {manager[address[entry.tunnel]]}
                      /\ removed' = removed \cup {entry.tunnel} /\ UNCHANGED entry

\* finalize with an entry present: delete it, then onRemove and onTunnelDead.
RemoveEntry ==
    /\ entry' = NoEntry
    /\ finalizing' = finalizing \cup {manager[address[entry.tunnel]]}
    /\ removed' = removed \cup {entry.tunnel}

\* The forwarder of t exits unexpectedly and calls lifecycle.notify: an armed
\* watch finalizes, and finds an entry or not.
ForwarderDies(t) ==
    /\ forwarder[t] = "up"
    /\ Fault
    /\ forwarder' = [forwarder EXCEPT ![t] = "dead"]
    /\ \/ /\ watch[t] = "armed"
          /\ watch' = [watch EXCEPT ![t] = "finalized"]
          /\ \/ entry # NoEntry /\ RemoveEntry
             \/ entry = NoEntry /\ UNCHANGED <<entry, finalizing, removed>>
       \/ /\ watch[t] # "armed"
          /\ UNCHANGED <<watch, entry, finalizing, removed>>
    /\ UNCHANGED <<setup, address, portless, manager, established, watched, inflight, joined, refresh, builder>>

\* closeTunnelByAddress returned, having closed the tunnel that was active at the
\* address (t may be NoTunnel); then reconnectTunnelByUdid starts a run unless one
\* is going on.
FinalizeContinues(t) ==
    /\ t \in finalizing
    /\ finalizing' = finalizing \ {t}
    /\ manager' = [a \in Address |-> IF manager[a] = t THEN NoTunnel ELSE manager[a]]
    /\ forwarder' = [u \in Tunnel |-> IF u = t THEN "closed" ELSE forwarder[u]]
    /\ builder' = IF builder.mode = "reconnect" THEN builder
                  ELSE [Off EXCEPT !.mode = "reconnect", !.pc = "create",
                                   !.attempt = IF setup.retries = 0 THEN 0 ELSE 1]
    /\ UNCHANGED <<setup, address, portless, established, watch, watched, entry, inflight, joined,
                   refresh, faults, removed>>

-----------------------------------------------------------------------------
Next ==
    \/ \E t \in Tunnel, a \in Address : Create(t, a)
    \/ RedundantClosed \/ PublishLater \/ CreateFails
    \/ DiscoverCatalog \/ DiscoverFails \/ DiscoverDone
    \/ \E r \in Refresher : RefreshBegin(r)
    \/ \E t \in Tunnel : ForwarderDies(t)
    \/ \E t \in Tunnel \cup {NoTunnel} : FinalizeContinues(t)

Spec == Init /\ [][Next]_vars

\* Native calls return, the discovery's timers bound it, promises continue.
Fairness ==
    /\ WF_vars(\E t \in Tunnel, a \in Address : Create(t, a))
    /\ WF_vars(RedundantClosed)
    /\ WF_vars(PublishLater)
    /\ WF_vars(DiscoverCatalog \/ DiscoverFails)
    /\ WF_vars(DiscoverDone)
    /\ \A t \in Tunnel \cup {NoTunnel} : WF_vars(FinalizeContinues(t))

FairSpec == Spec /\ Fairness

-----------------------------------------------------------------------------
(* Properties.                                                                 *)

\* Every variable stays in its domain.
TypeOK ==
    /\ setup \in Setups
    /\ forwarder \in [Tunnel -> {"free", "up", "dead", "closed"}]
    /\ address \in [Tunnel -> Address \cup {NoAddress}]
    /\ portless \subseteq Tunnel
    /\ manager \in [Address -> Tunnel \cup {NoTunnel}]
    /\ established \in Tunnel \cup {NoTunnel}
    /\ watch \in [Tunnel -> {"none", "armed", "finalized", "stopped"}]
    /\ watched \in Tunnel \cup {NoTunnel}
    /\ entry \in [tunnel : Tunnel, catalogOf : Tunnel] \cup {NoEntry}
    /\ finalizing \subseteq Tunnel \cup {NoTunnel}
    /\ inflight.tunnel \in Tunnel \cup {NoTunnel}
    /\ inflight.phase \in {"none", "connecting", "closing"}
    /\ Participants \subseteq Refresher \cup {Idle}
    /\ refresh \in [Refresher -> Tunnel \cup {NoTunnel}]
    /\ builder.mode \in {"main", "reconnect", "none"}
    /\ builder.pc \in {"create", "redundant", "unpublished", "discovering", "off"}
    /\ {builder.conn, builder.life} \subseteq Tunnel \cup {NoTunnel}
    /\ builder.attempt \in 0..setup.retries
    /\ faults \in 0..MaxFaults
    /\ removed \subseteq Tunnel

\* No native forwarder is leaked: one that runs is the established tunnel, or
\* the redundant one registerTunnel is closing.
NoForwarderLeak ==
    \A t \in Tunnel : forwarder[t] = "up" =>
        t = established \/ (builder.pc = "redundant" /\ t = builder.life)

\* An entry, once finalize removed it because its forwarder died, is not
\* published again ("removes a tunnel from the registry when its native
\* forwarder dies").
RemovedStaysRemoved == entry # NoEntry => entry.tunnel \notin removed

\* No entry of a dead forwarder is served: the same sentence, read as a
\* statement about every moment.
NoDeadEntry == entry # NoEntry => forwarder[entry.tunnel] # "dead"

\* What holds when no refresh straddles the death of a tunnel: the publication
\* of the script itself never brings a removed entry back.
PublisherNeverRevives == ~setup.refreshes => RemovedStaysRemoved

\* Without refreshes the registry names the established tunnel, with the catalog
\* discovered on it: the singleflight keyed by UDID never answers the publication
\* of one tunnel with the catalog of another.
EntryMatchesTunnel ==
    ~setup.refreshes /\ entry # NoEntry =>
        entry.tunnel = established /\ entry.catalogOf = entry.tunnel

\* PublisherNeverRevives and EntryMatchesTunnel: an entry is of the established tunnel and of
\* its catalog, and is not brought back by the publication once its tunnel has died.
RegistryTrue == PublisherNeverRevives /\ EntryMatchesTunnel

\* With fresh addresses an entry goes in the very step in which the forwarder of
\* the published tunnel dies: its watch is the one that is armed.
DeathRemovesEntry ==
    [][/\ ~setup.reuse /\ ~setup.refreshes
       /\ entry # NoEntry /\ forwarder[entry.tunnel] = "up"
       /\ forwarder'[entry.tunnel] = "dead"
       => entry' = NoEntry]_vars

\* "Reconnect retries after unexpected tunnel drop (0 = unlimited)": a reconnect
\* run stops only once the tunnel is published.
UnlimitedEndsPublished ==
    [][setup.retries = 0 /\ builder.mode = "reconnect" /\ builder'.mode = "none"
       => entry' # NoEntry]_vars

\* The Apple TV loop keeps that promise, but for a tunnel without an RSD port, which it
\* keeps established and never publishes.
TvRunEndsPublished ==
    [][/\ setup.variant = "appletv" /\ setup.retries = 0
       /\ builder.mode = "reconnect" /\ builder'.mode = "none"
       => entry' # NoEntry \/ established' \in portless']_vars

\* So with fresh addresses a dropped Apple TV tunnel is published again, once the
\* faults stop, or replaced by a tunnel without an RSD port.
DroppedIsRepublished ==
    setup.variant = "appletv" /\ setup.retries = 0 /\ ~setup.reuse /\ builder.mode = "reconnect"
        ~> entry # NoEntry \/ (builder.mode = "none" /\ established \in portless)
=============================================================================
