------------------------- MODULE TunnelLifecycle_proofs -------------------------
(* What holds of a device's tunnel in every situation, for any number of tunnels,   *)
(* addresses, refreshes and faults: no native forwarder is leaked, the registry      *)
(* names the established tunnel, an entry goes with its forwarder, and an Apple TV   *)
(* reconnect run without a limit does not stop unpublished.                          *)
EXTENDS TunnelLifecycle, SequenceTheorems, TLAPS

Entry == [tunnel : Tunnel, catalogOf : Tunnel]
Busy == {"redundant", "unpublished", "discovering"}

\* The domains of the variables.
Typed ==
    /\ setup \in Setups
    /\ forwarder \in [Tunnel -> {"free", "up", "dead", "closed"}]
    /\ address \in [Tunnel -> Address \cup {NoAddress}]
    /\ portless \subseteq Tunnel
    /\ manager \in [Address -> Tunnel \cup {NoTunnel}]
    /\ established \in Tunnel \cup {NoTunnel}
    /\ watch \in [Tunnel -> {"none", "armed", "finalized", "stopped"}]
    /\ watched \in Tunnel \cup {NoTunnel}
    /\ entry \in Entry \cup {NoEntry}
    /\ finalizing \subseteq Tunnel \cup {NoTunnel}
    /\ inflight \in [tunnel : Tunnel \cup {NoTunnel}, phase : {"none", "connecting", "closing"}]
    /\ joined \in Seq(Refresher \cup {Idle})
    /\ refresh \in [Refresher -> Tunnel \cup {NoTunnel}]
    /\ builder \in Builder
    /\ builder.attempt <= setup.retries
    /\ faults \in 0..MaxFaults
    /\ removed \subseteq Tunnel

\* A builder at work has a tunnel; only the first one is published after its loop.
BuilderExact ==
    /\ builder.mode = "none" <=> builder.pc = "off"
    /\ builder.pc = "unpublished" => builder.mode = "main"
    /\ builder.pc \in Busy => builder.conn \in Tunnel /\ builder.life \in Tunnel

\* A discovery has a tunnel and participants, each with the tunnel it will write: the builder
\* when it is discovering, and the refreshes that captured an entry.
DiscoveryExact ==
    /\ inflight.phase = "none" => inflight = NoDiscovery
    /\ inflight.phase = "none" <=> joined = <<>>
    /\ inflight.phase # "none" => inflight.tunnel \in Tunnel
    /\ Idle \in Participants <=> builder.pc = "discovering"
    /\ \A r \in Participants \ {Idle} : refresh[r] \in Tunnel

\* The first tunnel is built before anything was published.
MainIsFirst ==
    builder.mode = "main" =>
        entry = NoEntry /\ finalizing = {} /\ \A r \in Refresher : refresh[r] = NoTunnel

\* A tunnel is filed under its own address only.
FiledOnce == \A a \in Address : manager[a] # NoTunnel => address[manager[a]] = a

\* What is or will be published has been created: it has an address.
Addressed ==
    /\ entry # NoEntry => address[entry.tunnel] \in Address
    /\ builder.pc \in Busy => address[builder.conn] \in Address
    /\ \A r \in Refresher : refresh[r] # NoTunnel => address[refresh[r]] \in Address

\* Without refreshes the life of the entry is sequential: it is removed, its tunnel closed, the
\* next one built and published, one after the other.
Sequential ==
    ~setup.refreshes =>
        /\ \A r \in Refresher : refresh[r] = NoTunnel
        /\ builder.mode # "none" => entry = NoEntry /\ finalizing = {}
        /\ entry # NoEntry => finalizing = {}
        /\ \A t \in finalizing, u \in finalizing : t = u
        /\ builder.pc \in Busy => builder.conn \notin removed
        /\ builder.pc \in {"unpublished", "discovering"} => builder.conn = established
        /\ builder.pc = "discovering" => inflight.tunnel = established
        /\ entry # NoEntry => entry.tunnel \notin removed /\ entry.tunnel = established
        /\ entry # NoEntry => entry.catalogOf = established
        /\ \A a \in Address : manager[a] \in removed => manager[a] \in finalizing

\* Without refreshes and with fresh addresses the watch of the tunnel in use is armed as long as
\* its forwarder runs.
Armed ==
    ~setup.refreshes /\ ~setup.reuse =>
        /\ builder.pc # "redundant"
        /\ builder.pc \in Busy => builder.life = builder.conn
        /\ builder.pc \in Busy /\ AttachesFirst /\ forwarder[builder.conn] = "up"
               => watch[builder.conn] = "armed"
        /\ entry # NoEntry /\ forwarder[entry.tunnel] = "up" => watch[entry.tunnel] = "armed"

IInv ==
    /\ Typed
    /\ BuilderExact
    /\ DiscoveryExact
    /\ MainIsFirst
    /\ NoForwarderLeak
    /\ FiledOnce
    /\ Addressed
    /\ Sequential
    /\ Armed

-----------------------------------------------------------------------------
(* The operators the actions share.                                            *)

LEMMA InitInv == Init => IInv
<1> SUFFICES ASSUME Init  PROVE IInv
  OBVIOUS
<1>1. setup \in Setup
  BY SetupsAssumption DEF Init
<1>2. /\ builder = [mode |-> "main", pc |-> "create", conn |-> NoTunnel, life |-> NoTunnel, attempt |-> 0]
      /\ builder \in Builder
  BY DEF Init, Off, Builder
<1>3. Typed
  <2>1. builder.attempt <= setup.retries
    BY <1>1, <1>2 DEF Setup
  <2>2. joined \in Seq(Refresher \cup {Idle})
    BY DEF Init
  <2>3. inflight \in [tunnel : Tunnel \cup {NoTunnel}, phase : {"none", "connecting", "closing"}]
    BY DEF Init, NoDiscovery
  <2> QED BY <1>2, <2>1, <2>2, <2>3, FaultsAssumption DEF Init, Typed
<1>4. Participants = {}
  BY DEF Init, Participants
<1>5. BuilderExact /\ DiscoveryExact /\ MainIsFirst
  BY <1>2, <1>4 DEF Init, BuilderExact, DiscoveryExact, MainIsFirst, NoDiscovery, Busy
<1>6. NoForwarderLeak /\ FiledOnce /\ Addressed
  BY <1>2 DEF Init, NoForwarderLeak, FiledOnce, Addressed, Busy
<1>7. Sequential
  BY <1>2 DEF Init, Sequential, Busy
<1>8. Armed
  BY <1>2 DEF Init, Armed, Busy
<1> QED BY <1>3, <1>5, <1>6, <1>7, <1>8 DEF IInv

\* discoverServices adds a participant, and leaves a discovery that has a tunnel.
LEMMA JoinKeeps ==
    ASSUME Typed, DiscoveryExact, NEW who \in Refresher \cup {Idle}, NEW t \in Tunnel,
           JoinDiscovery(who, t)
    PROVE  /\ joined' \in Seq(Refresher \cup {Idle}) /\ joined' # <<>>
           /\ Participants' = Participants \cup {who}
           /\ inflight' \in [tunnel : Tunnel \cup {NoTunnel}, phase : {"none", "connecting", "closing"}]
           /\ inflight'.phase # "none" /\ inflight'.tunnel \in Tunnel
           /\ inflight.phase = "none" => inflight'.tunnel = t
           /\ inflight.phase # "none" => inflight' = inflight
<1>1. joined' = Append(joined, who)
  BY DEF JoinDiscovery
<1>2. /\ joined' \in Seq(Refresher \cup {Idle}) /\ Len(joined') = Len(joined) + 1
      /\ \A i \in 1..Len(joined) : joined'[i] = joined[i]
      /\ joined'[Len(joined) + 1] = who
  BY <1>1, AppendProperties DEF Typed
<1>3. Len(joined) \in Nat
  BY LenProperties DEF Typed
<1>4. Participants' = Participants \cup {who}
  BY <1>2, <1>3 DEF Participants
<1>5. joined' # <<>>
  BY <1>2, <1>3
<1>6. CASE inflight.phase = "none"
  <2>1. inflight' = [tunnel |-> t, phase |-> "connecting"]
    BY <1>6 DEF JoinDiscovery, DiscoveryExact
  <2> QED BY <1>2, <1>4, <1>5, <1>6, <2>1
<1>7. CASE inflight.phase # "none"
  <2>1. inflight' = inflight
    BY <1>7 DEF JoinDiscovery, NoDiscovery
  <2> QED BY <1>2, <1>4, <1>5, <1>7, <2>1 DEF Typed, DiscoveryExact
<1> QED BY <1>6, <1>7

LEMMA StopWatchKeeps ==
    ASSUME Typed
    PROVE  StopWatch(watch) \in [Tunnel -> {"none", "armed", "finalized", "stopped"}]
BY DEF StopWatch, Typed

\* The new watch is armed.
LEMMA AttachKeeps ==
    ASSUME Typed, NEW t \in Tunnel
    PROVE  /\ Attach(watch, t) \in [Tunnel -> {"none", "armed", "finalized", "stopped"}]
           /\ Attach(watch, t)[t] = "armed"
BY StopWatchKeeps DEF Attach

LEMMA OffIs ==
    /\ Off \in Builder /\ Off.attempt = 0 /\ Off.pc = "off" /\ Off.mode = "none"
    /\ Off = [mode |-> "none", pc |-> "off", conn |-> NoTunnel, life |-> NoTunnel, attempt |-> 0]
BY DEF Off, Builder

\* A tunnel that has a port is discovered, another ends the work of the builder.
LEMMA PublishKeeps ==
    ASSUME IInv, NEW b \in Builder, NEW conn \in Tunnel, builder.pc # "discovering",
           Publish(b, conn), refresh' = refresh
    PROVE  /\ builder' \in Builder /\ builder'.attempt \in {b.attempt, 0}
           /\ builder'.pc \in {"discovering", "off"}
           /\ builder'.mode = IF builder'.pc = "off" THEN "none" ELSE b.mode
           /\ builder'.pc # "off" => builder'.conn = b.conn /\ builder'.life = b.life
           /\ builder'.pc = "off" => conn \in portless'
           /\ inflight' \in [tunnel : Tunnel \cup {NoTunnel}, phase : {"none", "connecting", "closing"}]
           /\ joined' \in Seq(Refresher \cup {Idle})
           /\ inflight.phase = "none" /\ builder'.pc = "discovering" => inflight'.tunnel = conn
           /\ DiscoveryExact'
<1>1. CASE conn \in portless'
  <2>1. builder' = Off /\ UNCHANGED <<inflight, joined>>
    BY <1>1 DEF Publish
  <2>2. builder' \in Builder /\ builder'.attempt = 0 /\ builder'.pc = "off" /\ builder'.mode = "none"
    BY <2>1, OffIs
  <2>3. DiscoveryExact'
    BY <2>1, <2>2 DEF IInv, DiscoveryExact, NoDiscovery, Participants
  <2> QED BY <1>1, <2>1, <2>2, <2>3 DEF IInv, Typed
<1>2. CASE conn \notin portless'
  <2>1. /\ builder' = [b EXCEPT !.pc = "discovering"]
        /\ JoinDiscovery(Idle, conn)
    BY <1>2 DEF Publish
  <2>2. /\ builder' \in Builder /\ builder'.mode = b.mode
        /\ builder'.attempt = b.attempt
        /\ builder'.conn = b.conn /\ builder'.life = b.life
        /\ builder'.pc = "discovering"
    BY <2>1 DEF Builder
  <2>3. /\ joined' \in Seq(Refresher \cup {Idle}) /\ joined' # <<>>
        /\ Participants' = Participants \cup {Idle}
        /\ inflight' \in [tunnel : Tunnel \cup {NoTunnel}, phase : {"none", "connecting", "closing"}]
        /\ inflight'.phase # "none" /\ inflight'.tunnel \in Tunnel
        /\ inflight.phase = "none" => inflight'.tunnel = conn
    BY <2>1, JoinKeeps DEF IInv
  <2>4. DiscoveryExact'
    BY <2>2, <2>3 DEF IInv, DiscoveryExact
  <2> QED BY <2>2, <2>3, <2>4
<1> QED BY <1>1, <1>2

\* registerEstablishedTunnel, the watch and the discovery: the previous tunnel is closed, the
\* new one is the established one, and the builder waits or discovers.
LEMMA EstablishKeeps ==
    ASSUME IInv, NEW conn \in Tunnel, NEW life \in Tunnel,
           NEW f \in [Tunnel -> {"free", "up", "dead", "closed"}],
           builder.pc \in {"create", "redundant"},
           Establish(f, conn, life), setup' = setup, refresh' = refresh
    PROVE  /\ forwarder' \in [Tunnel -> {"free", "up", "dead", "closed"}]
           /\ established' = conn
           /\ \A t \in Tunnel : forwarder'[t] = "up" => f[t] = "up" /\ (t = established => t = conn)
           /\ watch' \in [Tunnel -> {"none", "armed", "finalized", "stopped"}]
           /\ watched' \in Tunnel \cup {NoTunnel}
           /\ AttachesFirst => watch'[life] = "armed"
           /\ builder' \in Builder /\ builder'.attempt \in {builder.attempt, 0}
           /\ builder'.pc \in {"unpublished", "discovering", "off"}
           /\ builder'.mode = IF builder'.pc = "off" THEN "none" ELSE builder.mode
           /\ builder'.pc # "off" => builder'.conn = conn /\ builder'.life = life
           /\ builder'.pc = "off" => conn \in portless'
           /\ builder'.pc = "unpublished" => builder.mode = "main"
           /\ inflight' \in [tunnel : Tunnel \cup {NoTunnel}, phase : {"none", "connecting", "closing"}]
           /\ joined' \in Seq(Refresher \cup {Idle})
           /\ inflight.phase = "none" /\ builder'.pc = "discovering" => inflight'.tunnel = conn
           /\ DiscoveryExact'
<1>1. /\ forwarder' = ClosePrevious(f, conn) /\ established' = conn
  BY DEF Establish
<1>2. /\ forwarder' \in [Tunnel -> {"free", "up", "dead", "closed"}]
      /\ \A t \in Tunnel : forwarder'[t] = "up" => f[t] = "up" /\ (t = established => t = conn)
  <2>1. CASE established \in {NoTunnel, conn}
    BY <1>1, <2>1, PlaceholdersAssumption DEF ClosePrevious
  <2>2. CASE established \notin {NoTunnel, conn}
    <3>1. forwarder' = [f EXCEPT ![established] = "closed"]
      BY <1>1, <2>2 DEF ClosePrevious
    <3> QED BY <2>2, <3>1
  <2> QED BY <2>1, <2>2
<1>3. /\ watch' \in [Tunnel -> {"none", "armed", "finalized", "stopped"}]
      /\ watched' \in Tunnel \cup {NoTunnel}
      /\ AttachesFirst => watch'[life] = "armed"
  BY AttachKeeps, StopWatchKeeps DEF Establish, IInv
<1>4. CASE setup.variant = "appletv" /\ builder.mode = "main"
  <2>1. /\ builder' = [builder EXCEPT !.pc = "unpublished", !.conn = conn, !.life = life]
        /\ UNCHANGED <<inflight, joined>>
    BY <1>4 DEF Establish
  <2>2. /\ builder' \in Builder /\ builder'.mode = builder.mode
        /\ builder'.attempt = builder.attempt
        /\ builder'.conn = conn /\ builder'.life = life
        /\ builder'.pc = "unpublished"
    BY <2>1 DEF IInv, Typed, Builder
  <2>3. DiscoveryExact'
    BY <2>1, <2>2 DEF IInv, DiscoveryExact, NoDiscovery, Participants
  <2> QED BY <1>4, <1>1, <1>2, <1>3, <2>1, <2>2, <2>3 DEF IInv, Typed
<1>5. CASE ~(setup.variant = "appletv" /\ builder.mode = "main")
  <2> DEFINE b == [builder EXCEPT !.conn = conn, !.life = life]
  <2>1. /\ b \in Builder /\ b.mode = builder.mode /\ b.attempt = builder.attempt
        /\ b.conn = conn /\ b.life = life
    BY DEF IInv, Typed, Builder
  <2>2. Publish(b, conn)
    BY <1>5 DEF Establish
  <2> HIDE DEF b
  <2>3. /\ builder' \in Builder /\ builder'.attempt \in {b.attempt, 0}
        /\ builder'.pc \in {"discovering", "off"}
        /\ builder'.mode = IF builder'.pc = "off" THEN "none" ELSE b.mode
        /\ builder'.pc # "off" => builder'.conn = b.conn /\ builder'.life = b.life
        /\ builder'.pc = "off" => conn \in portless'
        /\ inflight' \in [tunnel : Tunnel \cup {NoTunnel}, phase : {"none", "connecting", "closing"}]
        /\ joined' \in Seq(Refresher \cup {Idle})
        /\ inflight.phase = "none" /\ builder'.pc = "discovering" => inflight'.tunnel = conn
        /\ DiscoveryExact'
    BY <2>1, <2>2, PublishKeeps
  <2> QED BY <1>1, <1>2, <1>3, <2>1, <2>3
<1> QED BY <1>4, <1>5

\* Without refreshes only the builder discovers.
LEMMA NothingJoined ==
    ASSUME Typed, DiscoveryExact, \A r \in Refresher : refresh[r] = NoTunnel, builder.pc # "discovering"
    PROVE  joined = <<>> /\ inflight.phase = "none" /\ inflight = NoDiscovery
<1>1. Participants \subseteq Refresher \cup {Idle}
  BY DEF Typed, Participants
<1>2. Participants = {}
  BY <1>1, PlaceholdersAssumption DEF DiscoveryExact
<1>3. joined = <<>>
  <2> SUFFICES ASSUME joined # <<>>  PROVE FALSE
    OBVIOUS
  <2>1. Len(joined) \in Nat \ {0}
    BY EmptySeq, LenProperties DEF Typed
  <2>2. joined[1] \in Participants
    BY <2>1 DEF Participants
  <2> QED BY <1>2, <2>2
<1> QED BY <1>3 DEF DiscoveryExact

-----------------------------------------------------------------------------
(* The builder.                                                                *)

\* A tunnel is built and filed, or found redundant.
LEMMA CreateInv == ASSUME IInv, NEW t \in Tunnel, NEW a \in Address, Create(t, a)  PROVE IInv'
<1>1. /\ builder.pc = "create" /\ builder.mode # "none"
      /\ forwarder[t] # "up"
      /\ address' = [address EXCEPT ![t] = a]
      /\ removed' = removed \ {t}
      /\ UNCHANGED <<setup, entry, finalizing, refresh>>
      /\ faults' \in 0..MaxFaults /\ portless' \subseteq Tunnel
  BY FaultsAssumption DEF Create, Fault, IInv, Typed, BuilderExact
<1>2. /\ t # established /\ t \notin finalizing
      /\ \A b \in Address : manager[b] # t
      /\ entry # NoEntry => entry.tunnel # t
  BY DEF Create, Reachable
<1>3. /\ address' \in [Tunnel -> Address \cup {NoAddress}] /\ address'[t] = a
      /\ \A u \in Tunnel \ {t} : address'[u] = address[u]
      /\ removed' \subseteq Tunnel /\ removed' \subseteq removed /\ t \notin removed'
  BY <1>1 DEF IInv, Typed
<1> DEFINE up == [forwarder EXCEPT ![t] = "up"]
<1>4. /\ up \in [Tunnel -> {"free", "up", "dead", "closed"}]
      /\ \A u \in Tunnel : up[u] = "up" => u = t \/ u = established
  BY <1>1 DEF IInv, Typed, NoForwarderLeak
<1> HIDE DEF up
<1>5. CASE /\ manager[a] = NoTunnel
           /\ manager' = [manager EXCEPT ![a] = t]
           /\ Establish(up, t, t)
  <2>1. /\ manager' \in [Address -> Tunnel \cup {NoTunnel}] /\ manager'[a] = t
        /\ \A b \in Address \ {a} : manager'[b] = manager[b]
    BY <1>5 DEF IInv, Typed
  <2>2. /\ forwarder' \in [Tunnel -> {"free", "up", "dead", "closed"}]
        /\ established' = t
        /\ \A u \in Tunnel : forwarder'[u] = "up" => up[u] = "up" /\ (u = established => u = t)
        /\ watch' \in [Tunnel -> {"none", "armed", "finalized", "stopped"}]
        /\ watched' \in Tunnel \cup {NoTunnel}
        /\ AttachesFirst => watch'[t] = "armed"
        /\ builder' \in Builder /\ builder'.attempt \in {builder.attempt, 0}
        /\ builder'.pc \in {"unpublished", "discovering", "off"}
        /\ builder'.mode = IF builder'.pc = "off" THEN "none" ELSE builder.mode
        /\ builder'.pc # "off" => builder'.conn = t /\ builder'.life = t
        /\ builder'.pc = "unpublished" => builder.mode = "main"
        /\ inflight' \in [tunnel : Tunnel \cup {NoTunnel}, phase : {"none", "connecting", "closing"}]
        /\ joined' \in Seq(Refresher \cup {Idle})
        /\ inflight.phase = "none" /\ builder'.pc = "discovering" => inflight'.tunnel = t
        /\ DiscoveryExact'
    BY <1>1, <1>4, <1>5, EstablishKeeps
  <2>10. setup.retries \in Nat
    BY SetupsAssumption DEF IInv, Typed, Setup
  <2>3. Typed'
    BY <1>1, <1>3, <2>1, <2>2, <2>10 DEF IInv, Typed
  <2>4. BuilderExact' /\ MainIsFirst'
    BY <1>1, <2>2 DEF IInv, BuilderExact, MainIsFirst, Busy
  <2>5. NoForwarderLeak'
    BY <1>4, <2>2 DEF NoForwarderLeak
  <2>6. FiledOnce'
    BY <1>2, <1>3, <2>1 DEF IInv, Typed, FiledOnce
  <2>9. Addressed'
    BY <1>1, <1>2, <1>3, <2>2 DEF IInv, Typed, Addressed, Busy
  <2>7. Sequential'
    <3> SUFFICES ASSUME ~setup.refreshes  PROVE Sequential'
      BY <1>1 DEF Sequential
    <3>1. entry = NoEntry /\ finalizing = {} /\ \A r \in Refresher : refresh[r] = NoTunnel
      BY <1>1 DEF IInv, Sequential
    <3>2. inflight.phase = "none"
      BY <1>1, <3>1, NothingJoined DEF IInv
    <3>3. \A b \in Address : manager'[b] \notin removed'
      BY <1>3, <2>1, <3>1 DEF IInv, Sequential
    <3> QED BY <1>1, <1>3, <2>2, <3>1, <3>2, <3>3 DEF Sequential, Busy
  <2>8. Armed'
    <3> SUFFICES ASSUME ~setup.refreshes, ~setup.reuse  PROVE Armed'
      BY <1>1 DEF Armed
    <3>1. entry = NoEntry
      BY <1>1 DEF IInv, Sequential
    <3>2. builder'.pc # "off" /\ AttachesFirst' => AttachesFirst
      BY <1>1, <2>2 DEF AttachesFirst
    <3> QED BY <1>1, <2>2, <3>1, <3>2 DEF Armed, Busy
  <2> QED BY <2>2, <2>3, <2>4, <2>5, <2>6, <2>7, <2>8, <2>9 DEF IInv
<1>6. CASE /\ manager[a] # NoTunnel
           /\ forwarder' = up
           /\ builder' = [builder EXCEPT !.pc = "redundant", !.conn = manager[a], !.life = t]
           /\ UNCHANGED <<manager, established, watch, watched, inflight, joined>>
  <2>1. /\ builder' \in Builder /\ builder'.mode = builder.mode
        /\ builder'.attempt = builder.attempt
        /\ builder'.conn = manager[a] /\ builder'.life = t /\ builder'.pc = "redundant"
        /\ manager[a] \in Tunnel /\ manager[a] # t
    BY <1>2, <1>6 DEF IInv, Typed, Builder
  <2>2. Typed'
    BY <1>1, <1>3, <1>4, <1>6, <2>1 DEF IInv, Typed
  <2>3. BuilderExact' /\ MainIsFirst'
    BY <1>1, <2>1 DEF IInv, BuilderExact, MainIsFirst
  <2>4. DiscoveryExact'
    BY <1>1, <1>6, <2>1 DEF IInv, DiscoveryExact, Participants, NoDiscovery
  <2>5. NoForwarderLeak'
    BY <1>4, <1>6, <2>1 DEF NoForwarderLeak
  <2>6. FiledOnce'
    BY <1>2, <1>3, <1>6 DEF IInv, Typed, FiledOnce
  <2>9. Addressed'
    <3>1. address'[manager[a]] \in Address
      BY <1>3, <1>6, <2>1 DEF IInv, FiledOnce
    <3> QED BY <1>1, <1>2, <1>3, <2>1, <3>1 DEF IInv, Typed, Addressed
  <2>7. Sequential'
    BY <1>1, <1>3, <1>6, <2>1 DEF IInv, Sequential, Busy
  <2>8. Armed'
    BY <1>1, <1>6 DEF Create, Armed
  <2> QED BY <2>2, <2>3, <2>4, <2>5, <2>6, <2>7, <2>8, <2>9 DEF IInv
<1> QED BY <1>5, <1>6 DEF Create, up

\* The redundant tunnel is closed, and the one at its address is established instead.
LEMMA RedundantClosedInv == ASSUME IInv, RedundantClosed  PROVE IInv'
<1> DEFINE conn == builder.conn
           life == builder.life
           f == [forwarder EXCEPT ![life] = "closed"]
<1>1. /\ builder.pc = "redundant" /\ builder.mode # "none"
      /\ Establish(f, conn, life)
      /\ UNCHANGED <<setup, address, portless, manager, entry, finalizing, refresh, faults, removed>>
  BY DEF RedundantClosed, IInv, BuilderExact
<1>2. conn \in Tunnel /\ life \in Tunnel
  BY <1>1 DEF IInv, BuilderExact, Busy
<1>3. /\ f \in [Tunnel -> {"free", "up", "dead", "closed"}]
      /\ \A u \in Tunnel : f[u] = "up" => u = established
  BY <1>1, <1>2 DEF IInv, Typed, NoForwarderLeak
<1>4. ~setup.refreshes => conn \notin removed
  BY <1>1 DEF IInv, Sequential, Busy
<1>5. ~setup.refreshes => setup.reuse
  BY <1>1 DEF IInv, Armed
<1> HIDE DEF conn, life, f
<1>6. /\ forwarder' \in [Tunnel -> {"free", "up", "dead", "closed"}]
      /\ established' = conn
      /\ \A u \in Tunnel : forwarder'[u] = "up" => f[u] = "up" /\ (u = established => u = conn)
      /\ watch' \in [Tunnel -> {"none", "armed", "finalized", "stopped"}]
      /\ watched' \in Tunnel \cup {NoTunnel}
      /\ builder' \in Builder /\ builder'.attempt \in {builder.attempt, 0}
      /\ builder'.pc \in {"unpublished", "discovering", "off"}
      /\ builder'.mode = IF builder'.pc = "off" THEN "none" ELSE builder.mode
      /\ builder'.pc # "off" => builder'.conn = conn /\ builder'.life = life
      /\ builder'.pc = "unpublished" => builder.mode = "main"
      /\ inflight' \in [tunnel : Tunnel \cup {NoTunnel}, phase : {"none", "connecting", "closing"}]
      /\ joined' \in Seq(Refresher \cup {Idle})
      /\ inflight.phase = "none" /\ builder'.pc = "discovering" => inflight'.tunnel = conn
      /\ DiscoveryExact'
  BY <1>1, <1>2, <1>3, EstablishKeeps
<1>7. Typed'
  <2>1. UNCHANGED <<setup, address, portless, manager, entry, finalizing, refresh, faults, removed>>
    BY <1>1
  <2>2. setup.retries \in Nat
    BY SetupsAssumption DEF IInv, Typed, Setup
  <2> QED BY <1>2, <1>6, <2>1, <2>2 DEF IInv, Typed
<1>8. BuilderExact' /\ MainIsFirst' /\ FiledOnce'
  BY <1>1, <1>2, <1>6 DEF IInv, BuilderExact, MainIsFirst, FiledOnce, Busy
<1>12. Addressed'
  BY <1>1, <1>6 DEF IInv, Addressed, Busy, conn
<1>9. NoForwarderLeak'
  BY <1>3, <1>6 DEF NoForwarderLeak
<1>10. Sequential'
  <2> SUFFICES ASSUME ~setup.refreshes  PROVE Sequential'
    BY <1>1 DEF Sequential
  <2>1. entry = NoEntry /\ finalizing = {} /\ \A r \in Refresher : refresh[r] = NoTunnel
    BY <1>1 DEF IInv, Sequential
  <2>2. inflight.phase = "none"
    BY <1>1, <2>1, NothingJoined DEF IInv
  <2>3. \A a \in Address : manager[a] \notin removed
    BY <2>1 DEF IInv, Sequential
  <2> QED BY <1>1, <1>4, <1>6, <2>1, <2>2, <2>3 DEF Sequential, Busy
<1>11. Armed'
  BY <1>1, <1>5 DEF Armed
<1> QED BY <1>6, <1>7, <1>8, <1>9, <1>10, <1>11, <1>12 DEF IInv

LEMMA PublishLaterInv == ASSUME IInv, PublishLater  PROVE IInv'
<1>1. /\ builder.pc = "unpublished" /\ builder.conn \in Tunnel /\ builder.mode # "none"
      /\ Publish(builder, builder.conn)
      /\ UNCHANGED <<setup, forwarder, address, portless, manager, established, watch, watched, entry,
                     finalizing, refresh, faults, removed>>
  BY DEF PublishLater, IInv, BuilderExact, Busy
<1>2. /\ builder' \in Builder /\ builder'.attempt \in {builder.attempt, 0}
      /\ builder'.pc \in {"discovering", "off"}
      /\ builder'.mode = IF builder'.pc = "off" THEN "none" ELSE builder.mode
      /\ builder'.pc # "off" => builder'.conn = builder.conn /\ builder'.life = builder.life
      /\ inflight' \in [tunnel : Tunnel \cup {NoTunnel}, phase : {"none", "connecting", "closing"}]
      /\ joined' \in Seq(Refresher \cup {Idle})
      /\ inflight.phase = "none" /\ builder'.pc = "discovering" => inflight'.tunnel = builder.conn
      /\ DiscoveryExact'
  BY <1>1, PublishKeeps DEF IInv, Typed
<1>3. setup.retries \in Nat
  BY SetupsAssumption DEF IInv, Typed, Setup
<1>4. Typed'
  BY <1>1, <1>2, <1>3 DEF IInv, Typed
<1>5. BuilderExact' /\ MainIsFirst' /\ FiledOnce' /\ NoForwarderLeak' /\ Addressed'
  BY <1>1, <1>2 DEF IInv, BuilderExact, MainIsFirst, FiledOnce, NoForwarderLeak, Addressed, Busy
<1>7. Sequential'
  <2> SUFFICES ASSUME ~setup.refreshes  PROVE Sequential'
    BY <1>1 DEF Sequential
  <2>1. /\ entry = NoEntry /\ finalizing = {} /\ \A r \in Refresher : refresh[r] = NoTunnel
        /\ builder.conn \notin removed /\ builder.conn = established
    BY <1>1 DEF IInv, Sequential, BuilderExact, Busy
  <2>2. inflight.phase = "none"
    BY <1>1, <2>1, NothingJoined DEF IInv
  <2>3. \A a \in Address : manager[a] \notin removed
    BY <2>1 DEF IInv, Sequential
  <2> QED BY <1>1, <1>2, <2>1, <2>2, <2>3 DEF Sequential, Busy
<1>8. Armed'
  <2> SUFFICES ASSUME ~setup.refreshes, ~setup.reuse  PROVE Armed'
    BY <1>1 DEF Armed
  <2>1. entry = NoEntry
    BY <1>1 DEF IInv, Sequential
  <2> QED BY <1>1, <1>2, <2>1 DEF IInv, Armed, Busy, AttachesFirst
<1> QED BY <1>2, <1>4, <1>5, <1>7, <1>8 DEF IInv

\* The reconnect loop tries again or ends.
LEMMA RetryKeeps ==
    ASSUME IInv
    PROVE  /\ Retry \in Builder /\ Retry.attempt <= setup.retries
           /\ Retry.pc \in {"create", "off"}
           /\ Retry.mode = "none" <=> Retry.pc = "off"
           /\ Retry.mode \in {builder.mode, "none"} \ {"main"}
<1>1. setup.retries \in Nat /\ builder.attempt \in Nat
  BY SetupsAssumption DEF IInv, Typed, Setup, Builder
<1>2. CASE builder.mode = "reconnect" /\ (setup.retries = 0 \/ builder.attempt < setup.retries)
  <2>1. Retry = [mode |-> "reconnect", pc |-> "create", conn |-> NoTunnel, life |-> NoTunnel,
                 attempt |-> IF setup.retries = 0 THEN 0 ELSE builder.attempt + 1]
    BY <1>2 DEF Retry, Off
  <2> QED BY <1>1, <1>2, <2>1 DEF Builder
<1>3. CASE ~(builder.mode = "reconnect" /\ (setup.retries = 0 \/ builder.attempt < setup.retries))
  <2>1. Retry = [mode |-> "none", pc |-> "off", conn |-> NoTunnel, life |-> NoTunnel, attempt |-> 0]
    BY <1>3 DEF Retry, Off
  <2> QED BY <1>1, <2>1 DEF Builder
<1> QED BY <1>2, <1>3

LEMMA CreateFailsInv == ASSUME IInv, CreateFails  PROVE IInv'
<1>1. /\ builder.pc = "create" /\ builder.mode # "none" /\ builder' = Retry
      /\ faults < MaxFaults /\ faults' = faults + 1
      /\ UNCHANGED <<setup, forwarder, address, portless, manager, established, watch, watched, entry,
                     finalizing, inflight, joined, refresh, removed>>
  BY DEF CreateFails, Fault, IInv, BuilderExact
<1>2. /\ builder' \in Builder /\ builder'.attempt <= setup.retries
      /\ builder'.pc \in {"create", "off"}
      /\ builder'.mode = "none" <=> builder'.pc = "off"
      /\ builder'.mode # "main"
  BY <1>1, RetryKeeps
<1>3. Typed'
  BY <1>1, <1>2, FaultsAssumption DEF IInv, Typed
<1>4. BuilderExact' /\ MainIsFirst' /\ FiledOnce' /\ NoForwarderLeak' /\ Addressed'
  BY <1>1, <1>2 DEF IInv, BuilderExact, MainIsFirst, FiledOnce, NoForwarderLeak, Addressed, Busy
<1>5. DiscoveryExact'
  BY <1>1, <1>2 DEF IInv, DiscoveryExact, Participants, NoDiscovery
<1>6. Sequential'
  BY <1>1, <1>2 DEF IInv, Sequential, Busy
<1>7. Armed'
  BY <1>1, <1>2 DEF IInv, Armed, Busy
<1> QED BY <1>3, <1>4, <1>5, <1>6, <1>7 DEF IInv

-----------------------------------------------------------------------------
(* The discovery and the refreshes.                                            *)

LEMMA DiscoverCatalogInv == ASSUME IInv, DiscoverCatalog  PROVE IInv'
<1>1. /\ inflight.phase = "connecting"
      /\ inflight' = [inflight EXCEPT !.phase = "closing"]
      /\ UNCHANGED <<setup, forwarder, address, portless, manager, established, watch, watched, entry,
                     finalizing, joined, refresh, builder, faults, removed>>
  BY DEF DiscoverCatalog
<1>2. /\ inflight' \in [tunnel : Tunnel \cup {NoTunnel}, phase : {"none", "connecting", "closing"}]
      /\ inflight'.tunnel = inflight.tunnel /\ inflight'.phase = "closing"
  BY <1>1 DEF IInv, Typed
<1>3. Typed'
  BY <1>1, <1>2 DEF IInv, Typed
<1>4. BuilderExact' /\ MainIsFirst' /\ FiledOnce' /\ NoForwarderLeak' /\ Addressed'
  BY <1>1 DEF IInv, BuilderExact, MainIsFirst, FiledOnce, NoForwarderLeak, Addressed
<1>5. DiscoveryExact'
  BY <1>1, <1>2 DEF IInv, DiscoveryExact, Participants
<1>6. Sequential'
  BY <1>1, <1>2 DEF IInv, Sequential
<1>7. Armed'
  BY <1>1 DEF IInv, Armed, AttachesFirst
<1> QED BY <1>3, <1>4, <1>5, <1>6, <1>7 DEF IInv

\* What follows the end of a discovery, however it ends: nobody takes part in it any more.
LEMMA DiscoveryEnds ==
    ASSUME IInv, inflight' = NoDiscovery, joined' = <<>>,
           refresh' = [r \in Refresher |-> IF r \in Participants THEN NoTunnel ELSE refresh[r]],
           builder'.pc # "discovering"
    PROVE  /\ refresh' \in [Refresher -> Tunnel \cup {NoTunnel}]
           /\ inflight' \in [tunnel : Tunnel \cup {NoTunnel}, phase : {"none", "connecting", "closing"}]
           /\ joined' \in Seq(Refresher \cup {Idle})
           /\ DiscoveryExact'
           /\ ~setup.refreshes => \A r \in Refresher : refresh'[r] = NoTunnel
<1>1. Participants' = {}
  BY DEF Participants
<1>2. refresh' \in [Refresher -> Tunnel \cup {NoTunnel}]
  BY DEF IInv, Typed
<1>3. ~setup.refreshes => \A r \in Refresher : refresh'[r] = NoTunnel
  BY DEF IInv, Sequential
<1>4. inflight'.phase = "none"
  BY DEF NoDiscovery
<1>5. DiscoveryExact'
  BY <1>1, <1>4 DEF DiscoveryExact
<1>6. inflight' \in [tunnel : Tunnel \cup {NoTunnel}, phase : {"none", "connecting", "closing"}]
  BY DEF NoDiscovery
<1> QED BY <1>2, <1>3, <1>5, <1>6

LEMMA DiscoverFailsInv == ASSUME IInv, DiscoverFails  PROVE IInv'
<1>1. /\ faults' = faults \/ (faults < MaxFaults /\ faults' = faults + 1)
      /\ inflight' = NoDiscovery /\ joined' = <<>>
      /\ refresh' = [r \in Refresher |-> IF r \in Participants THEN NoTunnel ELSE refresh[r]]
      /\ UNCHANGED <<setup, forwarder, address, portless, manager, established, watch, watched, entry,
                     finalizing, removed>>
  BY DEF DiscoverFails, Fault
<1>2. builder' = builder \/ builder' = Off \/ builder' = Retry
  BY DEF DiscoverFails, AfterFailedPublish
<1>3. builder.pc = "discovering" => builder' = Off \/ builder' = Retry
  BY DEF DiscoverFails, AfterFailedPublish, IInv, DiscoveryExact
<1>4. builder.pc # "discovering" => builder' = builder
  BY DEF DiscoverFails, IInv, DiscoveryExact
<1>5. /\ builder' \in Builder /\ builder'.attempt <= setup.retries
      /\ builder'.pc # "discovering"
      /\ builder'.mode = "none" <=> builder'.pc = "off"
      /\ builder'.mode \in {builder.mode, "none"}
      /\ builder'.pc \in Busy => builder' = builder
  <2>1. setup.retries \in Nat
    BY SetupsAssumption DEF IInv, Typed, Setup
  <2>2. CASE builder' = Off
    BY <2>1, <2>2, OffIs DEF Busy
  <2>3. CASE builder' = Retry
    BY <2>3, RetryKeeps DEF Busy
  <2>4. CASE builder' = builder
    BY <1>3, <2>2, <2>3, <2>4 DEF IInv, Typed, BuilderExact
  <2> QED BY <1>2, <2>2, <2>3, <2>4
<1>6. /\ refresh' \in [Refresher -> Tunnel \cup {NoTunnel}]
      /\ inflight' \in [tunnel : Tunnel \cup {NoTunnel}, phase : {"none", "connecting", "closing"}]
      /\ joined' \in Seq(Refresher \cup {Idle})
      /\ DiscoveryExact'
      /\ ~setup.refreshes => \A r \in Refresher : refresh'[r] = NoTunnel
  BY <1>1, <1>5, DiscoveryEnds
<1>7. Typed'
  BY <1>1, <1>5, <1>6, FaultsAssumption DEF IInv, Typed
<1>8. BuilderExact' /\ MainIsFirst' /\ FiledOnce' /\ Addressed'
  BY <1>1, <1>5 DEF IInv, BuilderExact, MainIsFirst, FiledOnce, Addressed, Busy
<1>9. NoForwarderLeak'
  BY <1>1, <1>4, OffIs, RetryKeeps DEF IInv, NoForwarderLeak
<1>10. Sequential'
  BY <1>1, <1>5, <1>6 DEF IInv, Sequential, Busy
<1>11. Armed'
  BY <1>1, <1>5 DEF IInv, Armed, Busy, AttachesFirst
<1> QED BY <1>6, <1>7, <1>8, <1>9, <1>10, <1>11 DEF IInv

\* The last participant to resume writes the entry of its tunnel, with the catalog found.
LEMMA EntryWritten ==
    ASSUME IInv, DiscoverDone
    PROVE  \E last \in Participants \cap (Refresher \cup {Idle}) :
             /\ last = Idle => builder.pc = "discovering" /\ builder.conn \in Tunnel
             /\ last # Idle => refresh[last] \in Tunnel
             /\ entry' \in Entry /\ entry' # NoEntry
             /\ entry'.tunnel = IF last = Idle THEN builder.conn ELSE refresh[last]
             /\ entry'.catalogOf = inflight.tunnel
             /\ inflight.tunnel \in Tunnel
<1> DEFINE last == joined[Len(joined)]
<1>1. inflight.phase = "closing" /\ entry' = EntryOf(last)
  BY DEF DiscoverDone
<1>2. last \in Participants /\ last \in Refresher \cup {Idle}
  <2>1. joined # <<>> /\ Len(joined) \in Nat \ {0}
    BY <1>1, EmptySeq, LenProperties DEF IInv, Typed, DiscoveryExact
  <2> QED BY <2>1, ElementOfSeq DEF IInv, Typed, Participants
<1> HIDE DEF last
<1>3. /\ inflight.tunnel \in Tunnel
      /\ last = Idle => builder.pc = "discovering" /\ builder.conn \in Tunnel
      /\ last # Idle => refresh[last] \in Tunnel
  BY <1>1, <1>2 DEF IInv, DiscoveryExact, BuilderExact, Busy
<1>4. /\ entry' \in Entry /\ entry' # NoEntry
      /\ entry'.tunnel = IF last = Idle THEN builder.conn ELSE refresh[last]
      /\ entry'.catalogOf = inflight.tunnel
  BY <1>1, <1>3, PlaceholdersAssumption DEF EntryOf, Entry
<1> QED BY <1>2, <1>3, <1>4

LEMMA DiscoverDoneInv == ASSUME IInv, DiscoverDone  PROVE IInv'
<1>1. /\ inflight' = NoDiscovery /\ joined' = <<>>
      /\ refresh' = [r \in Refresher |-> IF r \in Participants THEN NoTunnel ELSE refresh[r]]
      /\ UNCHANGED <<setup, forwarder, address, portless, manager, established, finalizing, faults, removed>>
  BY DEF DiscoverDone
<1>2. PICK last \in Participants \cap (Refresher \cup {Idle}) :
             /\ last = Idle => builder.pc = "discovering" /\ builder.conn \in Tunnel
             /\ last # Idle => refresh[last] \in Tunnel
             /\ entry' \in Entry /\ entry' # NoEntry
             /\ entry'.tunnel = IF last = Idle THEN builder.conn ELSE refresh[last]
             /\ entry'.catalogOf = inflight.tunnel
             /\ inflight.tunnel \in Tunnel
  BY EntryWritten
<1>3. /\ inflight.tunnel \in Tunnel
      /\ last = Idle => builder.pc = "discovering" /\ builder.conn \in Tunnel
      /\ last # Idle => refresh[last] \in Tunnel
  BY <1>2
<1>4. /\ entry' \in Entry /\ entry' # NoEntry
      /\ entry'.tunnel = IF last = Idle THEN builder.conn ELSE refresh[last]
      /\ entry'.catalogOf = inflight.tunnel
  BY <1>2
<1>5. /\ builder.pc = "discovering" => /\ builder' = Off
                                       /\ AttachesFirst => UNCHANGED <<watch, watched>>
                                       /\ ~AttachesFirst => /\ watch' = Attach(watch, builder.life)
                                                            /\ watched' = builder.life
      /\ builder.pc # "discovering" => UNCHANGED <<builder, watch, watched>>
  BY DEF DiscoverDone, IInv, DiscoveryExact
<1>6. /\ builder' \in Builder /\ builder'.attempt <= setup.retries
      /\ builder'.pc # "discovering"
      /\ builder'.mode = "none" <=> builder'.pc = "off"
      /\ builder'.pc = "off" \/ builder' = builder
  <2>1. setup.retries \in Nat
    BY SetupsAssumption DEF IInv, Typed, Setup
  <2> QED BY <1>5, <2>1, OffIs DEF IInv, Typed, BuilderExact
<1>7. /\ watch' \in [Tunnel -> {"none", "armed", "finalized", "stopped"}]
      /\ watched' \in Tunnel \cup {NoTunnel}
      /\ builder.pc = "discovering" /\ ~AttachesFirst => watch'[builder.life] = "armed"
  BY <1>5, AttachKeeps DEF IInv, Typed, BuilderExact, Busy
<1>8. /\ refresh' \in [Refresher -> Tunnel \cup {NoTunnel}]
      /\ inflight' \in [tunnel : Tunnel \cup {NoTunnel}, phase : {"none", "connecting", "closing"}]
      /\ joined' \in Seq(Refresher \cup {Idle})
      /\ DiscoveryExact'
      /\ ~setup.refreshes => \A r \in Refresher : refresh'[r] = NoTunnel
  BY <1>1, <1>6, DiscoveryEnds
<1>9. Typed'
  BY <1>1, <1>4, <1>6, <1>7, <1>8 DEF IInv, Typed
<1>10. BuilderExact' /\ FiledOnce'
  BY <1>1, <1>6 DEF IInv, BuilderExact, FiledOnce, Busy
<1>11. MainIsFirst'
  <2> SUFFICES ASSUME builder'.mode = "main"  PROVE FALSE
    BY DEF MainIsFirst
  <2>1. builder' = builder /\ builder.pc # "discovering" /\ refresh[last] = NoTunnel
    BY <1>2, <1>3, <1>5, <1>6, OffIs DEF IInv, MainIsFirst
  <2> QED BY <1>3, <2>1, PlaceholdersAssumption
<1>16. Addressed'
  BY <1>1, <1>3, <1>2, <1>4, <1>6, PlaceholdersAssumption DEF IInv, Addressed, Busy
<1>12. NoForwarderLeak'
  BY <1>1, <1>5, OffIs DEF IInv, NoForwarderLeak
<1>13. ~setup.refreshes =>
          /\ last = Idle /\ builder.conn = established /\ inflight.tunnel = established
          /\ builder.conn \notin removed /\ finalizing = {}
          /\ \A a \in Address : manager[a] \notin removed
  <2> SUFFICES ASSUME ~setup.refreshes
               PROVE  /\ last = Idle /\ builder.conn = established /\ inflight.tunnel = established
                      /\ builder.conn \notin removed /\ finalizing = {}
                      /\ \A a \in Address : manager[a] \notin removed
    OBVIOUS
  <2>1. last = Idle
    BY <1>2, <1>3, PlaceholdersAssumption DEF IInv, Sequential
  <2> QED BY <1>3, <2>1 DEF IInv, Sequential, BuilderExact, Busy
<1>14. Sequential'
  BY <1>1, <1>3, <1>4, <1>5, <1>8, <1>13, OffIs DEF Sequential, Busy
<1>15. Armed'
  <2> SUFFICES ASSUME ~setup.refreshes, ~setup.reuse  PROVE Armed'
    BY <1>1 DEF Armed
  <2>1. builder.pc = "discovering" /\ builder.life = builder.conn /\ entry'.tunnel = builder.conn
    BY <1>3, <1>4, <1>13 DEF IInv, Armed, Busy
  <2>2. forwarder[builder.conn] = "up" => watch'[builder.conn] = "armed"
    BY <1>5, <1>7, <2>1 DEF IInv, Armed, Busy
  <2> QED BY <1>1, <1>5, <2>1, <2>2, OffIs DEF Armed, Busy
<1> QED BY <1>8, <1>9, <1>10, <1>11, <1>12, <1>14, <1>15, <1>16 DEF IInv

LEMMA RefreshBeginInv == ASSUME IInv, NEW r \in Refresher, RefreshBegin(r)  PROVE IInv'
<1>1. /\ setup.refreshes /\ entry # NoEntry
      /\ refresh' = [refresh EXCEPT ![r] = entry.tunnel]
      /\ JoinDiscovery(r, entry.tunnel)
      /\ UNCHANGED <<setup, forwarder, address, portless, manager, established, watch, watched, entry,
                     finalizing, builder, faults, removed>>
  BY DEF RefreshBegin
<1>2. entry.tunnel \in Tunnel
  BY <1>1 DEF IInv, Typed, Entry
<1>3. /\ refresh' \in [Refresher -> Tunnel \cup {NoTunnel}] /\ refresh'[r] = entry.tunnel
      /\ \A q \in Refresher \ {r} : refresh'[q] = refresh[q]
  BY <1>1, <1>2 DEF IInv, Typed
<1>4. /\ joined' \in Seq(Refresher \cup {Idle}) /\ joined' # <<>>
      /\ Participants' = Participants \cup {r}
      /\ inflight' \in [tunnel : Tunnel \cup {NoTunnel}, phase : {"none", "connecting", "closing"}]
      /\ inflight'.phase # "none" /\ inflight'.tunnel \in Tunnel
  BY <1>1, <1>2, JoinKeeps DEF IInv
<1>5. Typed'
  BY <1>1, <1>3, <1>4 DEF IInv, Typed
<1>6. BuilderExact' /\ MainIsFirst' /\ FiledOnce' /\ NoForwarderLeak'
  BY <1>1 DEF IInv, BuilderExact, MainIsFirst, FiledOnce, NoForwarderLeak
<1>7. DiscoveryExact'
  <2>1. Participants \subseteq Refresher \cup {Idle}
    BY DEF IInv, Typed, Participants
  <2> QED BY <1>1, <1>2, <1>3, <1>4, <2>1, PlaceholdersAssumption DEF IInv, DiscoveryExact
<1>8. Addressed'
  BY <1>1, <1>3 DEF IInv, Addressed
<1>9. Sequential' /\ Armed'
  BY <1>1 DEF Sequential, Armed
<1> QED BY <1>5, <1>6, <1>7, <1>8, <1>9 DEF IInv

-----------------------------------------------------------------------------
(* The forwarder and the finalization.                                         *)

LEMMA ForwarderDiesInv == ASSUME IInv, NEW t \in Tunnel, ForwarderDies(t)  PROVE IInv'
<1>1. /\ forwarder[t] = "up" /\ faults < MaxFaults /\ faults' = faults + 1
      /\ forwarder' = [forwarder EXCEPT ![t] = "dead"]
      /\ UNCHANGED <<setup, address, portless, manager, established, watched, inflight, joined, refresh, builder>>
  BY DEF ForwarderDies, Fault
<1>2. /\ forwarder' \in [Tunnel -> {"free", "up", "dead", "closed"}]
      /\ \A u \in Tunnel : forwarder'[u] = "up" => forwarder[u] = "up" /\ u # t
  BY <1>1 DEF IInv, Typed
<1>3. /\ watch' \in [Tunnel -> {"none", "armed", "finalized", "stopped"}]
      /\ \A u \in Tunnel \ {t} : watch'[u] = watch[u]
  BY DEF ForwarderDies, IInv, Typed
<1>4. DiscoveryExact' /\ FiledOnce' /\ BuilderExact'
  BY <1>1 DEF IInv, DiscoveryExact, Participants, FiledOnce, BuilderExact, NoDiscovery
<1>5. NoForwarderLeak'
  BY <1>1, <1>2 DEF IInv, NoForwarderLeak
<1>6. CASE entry # NoEntry /\ RemoveEntry
  <2> DEFINE gone == manager[address[entry.tunnel]]
  <2>1. /\ entry' = NoEntry /\ finalizing' = finalizing \cup {gone}
        /\ removed' = removed \cup {entry.tunnel}
    BY <1>6 DEF RemoveEntry
  <2>2. entry.tunnel \in Tunnel /\ address[entry.tunnel] \in Address
    BY <1>6 DEF IInv, Typed, Entry, Addressed
  <2>3. gone \in Tunnel \cup {NoTunnel}
    BY <2>2 DEF IInv, Typed
  <2>4. \A a \in Address : manager[a] = entry.tunnel => manager[a] = gone
    BY <2>2, PlaceholdersAssumption DEF IInv, FiledOnce
  <2> HIDE DEF gone
  <2>5. Typed'
    BY <1>1, <1>2, <1>3, <2>1, <2>2, <2>3, FaultsAssumption DEF IInv, Typed
  <2>6. MainIsFirst' /\ Addressed'
    BY <1>1, <1>6, <2>1 DEF IInv, MainIsFirst, Addressed
  <2>7. Sequential'
    <3> SUFFICES ASSUME ~setup.refreshes  PROVE Sequential'
      BY <1>1 DEF Sequential
    <3>1. /\ finalizing = {} /\ \A r \in Refresher : refresh[r] = NoTunnel
          /\ builder.mode = "none" /\ builder.pc = "off"
      BY <1>6 DEF IInv, Sequential, BuilderExact
    <3>2. \A a \in Address : manager[a] \in removed' => manager[a] \in finalizing'
      BY <2>1, <2>4, <3>1 DEF IInv, Sequential
    <3> QED BY <1>1, <2>1, <3>1, <3>2 DEF Sequential, Busy
  <2>8. Armed'
    <3> SUFFICES ASSUME ~setup.refreshes, ~setup.reuse  PROVE Armed'
      BY <1>1 DEF Armed
    <3>1. builder.mode = "none" /\ builder.pc = "off"
      BY <1>6 DEF IInv, Sequential, BuilderExact
    <3> QED BY <1>1, <2>1, <3>1 DEF Armed, Busy
  <2> QED BY <1>4, <1>5, <2>5, <2>6, <2>7, <2>8 DEF IInv
<1>7. CASE UNCHANGED <<entry, finalizing, removed>>
  <2>1. Typed'
    BY <1>1, <1>2, <1>3, <1>7, FaultsAssumption DEF IInv, Typed
  <2>2. MainIsFirst' /\ Addressed' /\ Sequential'
    BY <1>1, <1>7 DEF IInv, MainIsFirst, Addressed, Sequential
  <2>3. Armed'
    <3> SUFFICES ASSUME ~setup.refreshes, ~setup.reuse  PROVE Armed'
      BY <1>1 DEF Armed
    <3>1. builder.pc \in Busy => builder.conn \in Tunnel
      BY DEF IInv, BuilderExact
    <3>2. entry # NoEntry => entry.tunnel \in Tunnel
      BY DEF IInv, Typed, Entry
    <3>3. AttachesFirst' <=> AttachesFirst
      BY <1>1 DEF AttachesFirst
    <3> QED BY <1>1, <1>2, <1>3, <1>7, <3>1, <3>2, <3>3 DEF IInv, Armed
  <2> QED BY <1>4, <1>5, <2>1, <2>2, <2>3 DEF IInv
<1> QED BY <1>6, <1>7 DEF ForwarderDies

LEMMA FinalizeContinuesInv ==
    ASSUME IInv, NEW t \in Tunnel \cup {NoTunnel}, FinalizeContinues(t)
    PROVE  IInv'
<1> DEFINE first == IF setup.retries = 0 THEN 0 ELSE 1
           fresh == [Off EXCEPT !.mode = "reconnect", !.pc = "create", !.attempt = first]
<1>1. /\ t \in finalizing /\ finalizing' = finalizing \ {t}
      /\ manager' = [a \in Address |-> IF manager[a] = t THEN NoTunnel ELSE manager[a]]
      /\ forwarder' = [u \in Tunnel |-> IF u = t THEN "closed" ELSE forwarder[u]]
      /\ builder' = IF builder.mode = "reconnect" THEN builder ELSE fresh
      /\ UNCHANGED <<setup, address, portless, established, watch, watched, entry, inflight, joined,
                     refresh, faults, removed>>
  BY DEF FinalizeContinues
<1>2. setup.retries \in Nat
  BY SetupsAssumption DEF IInv, Typed, Setup
<1>3. /\ fresh \in Builder /\ fresh.attempt <= setup.retries
      /\ fresh.mode = "reconnect" /\ fresh.pc = "create"
  <2>1. first \in Nat /\ first <= setup.retries
    BY <1>2
  <2> HIDE DEF first
  <2> QED BY <2>1 DEF Off, Builder
<1> HIDE DEF first, fresh
<1>4. builder.mode # "main"
  BY <1>1 DEF IInv, MainIsFirst
<1>5. builder' = builder \/ (builder.mode = "none" /\ builder.pc = "off" /\ builder' = fresh)
  BY <1>1, <1>4 DEF IInv, Typed, Builder, BuilderExact
<1>6. /\ builder' \in Builder /\ builder'.attempt <= setup.retries /\ builder'.mode # "main"
      /\ builder'.mode = "none" <=> builder'.pc = "off"
      /\ builder'.pc = "create" \/ builder' = builder
      /\ builder'.pc = "discovering" <=> builder.pc = "discovering"
  BY <1>3, <1>4, <1>5 DEF IInv, Typed, BuilderExact
<1>7. /\ manager' \in [Address -> Tunnel \cup {NoTunnel}]
      /\ \A a \in Address : manager'[a] = NoTunnel \/ (manager'[a] = manager[a] /\ manager[a] # t)
      /\ forwarder' \in [Tunnel -> {"free", "up", "dead", "closed"}]
      /\ \A u \in Tunnel : forwarder'[u] = "up" => forwarder[u] = "up"
  BY <1>1 DEF IInv, Typed
<1>8. Typed'
  BY <1>1, <1>6, <1>7 DEF IInv, Typed
<1>9. BuilderExact' /\ MainIsFirst' /\ FiledOnce' /\ Addressed'
  BY <1>1, <1>6, <1>7 DEF IInv, BuilderExact, MainIsFirst, FiledOnce, Addressed, Busy
<1>10. DiscoveryExact'
  BY <1>1, <1>6 DEF IInv, DiscoveryExact, Participants, NoDiscovery
<1>11. NoForwarderLeak'
  BY <1>1, <1>5, <1>7 DEF IInv, NoForwarderLeak
<1>12. Sequential'
  <2> SUFFICES ASSUME ~setup.refreshes  PROVE Sequential'
    BY <1>1 DEF Sequential
  <2>1. /\ entry = NoEntry /\ finalizing' = {} /\ builder.mode = "none" /\ builder.pc = "off"
        /\ \A r \in Refresher : refresh[r] = NoTunnel
    BY <1>1 DEF IInv, Sequential, BuilderExact
  <2>2. \A a \in Address : manager'[a] \notin removed
    BY <1>1, <1>7, <2>1, PlaceholdersAssumption DEF IInv, Typed, Sequential
  <2> QED BY <1>1, <1>6, <2>1, <2>2 DEF Sequential, Busy
<1>13. Armed'
  <2> SUFFICES ASSUME ~setup.refreshes, ~setup.reuse  PROVE Armed'
    BY <1>1 DEF Armed
  <2>1. entry = NoEntry /\ builder.pc = "off"
    BY <1>1 DEF IInv, Sequential, BuilderExact
  <2> QED BY <1>1, <1>6, <2>1 DEF Armed, Busy
<1> QED BY <1>8, <1>9, <1>10, <1>11, <1>12, <1>13 DEF IInv

-----------------------------------------------------------------------------
(* The theorems.                                                               *)

LEMMA NextInv == IInv /\ [Next]_vars => IInv'
<1> SUFFICES ASSUME IInv, [Next]_vars  PROVE IInv'
  OBVIOUS
<1>1. CASE UNCHANGED vars
  BY <1>1 DEF vars, IInv, Typed, BuilderExact, DiscoveryExact, Participants, NoDiscovery, MainIsFirst,
     NoForwarderLeak, FiledOnce, Addressed, Sequential, Armed, AttachesFirst
<1>2. CASE Next
  BY <1>2, CreateInv, RedundantClosedInv, PublishLaterInv, CreateFailsInv, DiscoverCatalogInv,
     DiscoverFailsInv, DiscoverDoneInv, RefreshBeginInv, ForwarderDiesInv, FinalizeContinuesInv DEF Next
<1> QED BY <1>1, <1>2

LEMMA Invariance == Spec => []IInv
BY InitInv, NextInv, PTL DEF Spec

\* Every variable of the tunnel-creation process stays in its domain.
THEOREM TypeCorrect == Spec => []TypeOK
<1>1. ASSUME IInv  PROVE TypeOK
  <2> USE <1>1
  <2>1. setup.retries \in Nat
    BY SetupsAssumption DEF IInv, Typed, Setup
  <2>2. Participants \subseteq Refresher \cup {Idle}
    BY DEF IInv, Typed, Participants
  <2>3. builder.attempt \in 0..setup.retries
    BY <2>1 DEF IInv, Typed, Builder
  <2> QED BY <2>2, <2>3 DEF IInv, Typed, TypeOK, Builder, Entry
<1> QED BY <1>1, Invariance, PTL

\* No native forwarder is leaked (registerEstablishedTunnel, registerTunnel, closeTunnelByAddress).
THEOREM ForwardersKept == Spec => []NoForwarderLeak
<1>1. IInv => NoForwarderLeak
  BY DEF IInv
<1> QED BY <1>1, Invariance, PTL

\* The registry names the established tunnel with its own catalog, and an entry that finalize
\* removed does not come back, unless a refresh over HTTP straddles the death of a tunnel.
THEOREM RegistryIsTrue == Spec => []RegistryTrue
<1>1. IInv => RegistryTrue
  BY DEF IInv, Sequential, RegistryTrue, PublisherNeverRevives, RemovedStaysRemoved, EntryMatchesTunnel
<1> QED BY <1>1, Invariance, PTL

\* With fresh addresses and no refreshes the entry goes in the step in which the forwarder of the
\* published tunnel dies (watchTunnelRegistryOnDead).
THEOREM DeathIsNoticed == Spec => DeathRemovesEntry
<1> DEFINE Step == /\ ~setup.reuse /\ ~setup.refreshes
                   /\ entry # NoEntry /\ forwarder[entry.tunnel] = "up"
                   /\ forwarder'[entry.tunnel] = "dead"
                   => entry' = NoEntry
<1>1. ASSUME IInv, [Next]_vars  PROVE [Step]_vars
  <2> SUFFICES ASSUME Next, ~setup.reuse, ~setup.refreshes, entry # NoEntry,
                      forwarder[entry.tunnel] = "up", forwarder'[entry.tunnel] = "dead"
               PROVE  entry' = NoEntry
    BY <1>1
  <2>1. /\ watch[entry.tunnel] = "armed" /\ entry.tunnel \in Tunnel
        /\ builder.mode = "none" /\ builder.pc = "off" /\ finalizing = {}
    BY <1>1 DEF IInv, Armed, Sequential, Typed, Entry, BuilderExact
  <2>2. ASSUME NEW t \in Tunnel, ForwarderDies(t)  PROVE entry' = NoEntry
    <3>1. forwarder' = [forwarder EXCEPT ![t] = "dead"]
      BY <2>2 DEF ForwarderDies
    <3>2. t = entry.tunnel
      BY <2>1, <3>1 DEF IInv, Typed
    <3> QED BY <2>1, <2>2, <3>2 DEF ForwarderDies, RemoveEntry
  <2>3. forwarder' # forwarder
    OBVIOUS
  <2>4. (\E t \in Tunnel : ForwarderDies(t)) \/ forwarder' = forwarder
    BY <2>1 DEF Next, Create, RedundantClosed, PublishLater, CreateFails, DiscoverCatalog, DiscoverFails,
       DiscoverDone, RefreshBegin, FinalizeContinues
  <2> QED BY <2>2, <2>3, <2>4
<1> QED BY <1>1, Invariance, PTL DEF Spec, DeathRemovesEntry

\* A reconnect run of the Apple TV script without a limit ends only with the tunnel published
\* (its loop catches what publishDiscoveredTunnelEntry throws), or with a tunnel established
\* that has no RSD port (publishDiscoveredTunnelEntry returns false).
THEOREM TvRunsPublish == Spec => TvRunEndsPublished
<1> DEFINE Step == /\ setup.variant = "appletv" /\ setup.retries = 0
                   /\ builder.mode = "reconnect" /\ builder'.mode = "none"
                   => entry' # NoEntry \/ established' \in portless'
<1>1. ASSUME IInv, [Next]_vars  PROVE [Step]_vars
  <2> SUFFICES ASSUME Next, setup.variant = "appletv", setup.retries = 0, builder.mode = "reconnect",
                      builder'.mode = "none", entry' = NoEntry, established' \notin portless'
               PROVE  FALSE
    BY <1>1
  <2>1. Retry.mode = "reconnect"
    BY DEF Retry, Off
  <2>0. builder \in Builder
    BY <1>1 DEF IInv, Typed
  <2>3. ASSUME NEW f, NEW conn, NEW life, Establish(f, conn, life)
        PROVE  builder'.mode = "reconnect"
    <3>1. established' = conn
      BY <2>3 DEF Establish
    <3>2. CASE builder' = [builder EXCEPT !.pc = "unpublished", !.conn = conn, !.life = life]
      BY <2>0, <3>2 DEF Builder
    <3>3. CASE Publish([builder EXCEPT !.conn = conn, !.life = life], conn)
      <4>1. builder' = [[builder EXCEPT !.conn = conn, !.life = life] EXCEPT !.pc = "discovering"]
        BY <3>1, <3>3 DEF Publish
      <4> QED BY <2>0, <4>1 DEF Builder
    <3> QED BY <2>3, <3>2, <3>3 DEF Establish
  <2>4. CASE \E t \in Tunnel, a \in Address : Create(t, a)
    <3>1. PICK t \in Tunnel, a \in Address : Create(t, a)
      BY <2>4
    <3>2. CASE Establish([forwarder EXCEPT ![t] = "up"], t, t)
      BY <2>3, <3>2
    <3>3. CASE builder' = [builder EXCEPT !.pc = "redundant", !.conn = manager[a], !.life = t]
      BY <2>0, <3>3 DEF Builder
    <3> QED BY <3>1, <3>2, <3>3 DEF Create
  <2>5. CASE RedundantClosed
    BY <2>3, <2>5 DEF RedundantClosed
  <2>6. ~PublishLater
    BY <1>1 DEF PublishLater, IInv, BuilderExact
  <2>7. CASE CreateFails
    BY <2>1, <2>7 DEF CreateFails
  <2>8. CASE DiscoverFails
    BY <2>1, <2>8 DEF DiscoverFails, AfterFailedPublish
  <2>9. CASE DiscoverDone
    BY <1>1, <2>9, EntryWritten
  <2> QED BY <2>4, <2>5, <2>6, <2>7, <2>8, <2>9 DEF Next, DiscoverCatalog, RefreshBegin, ForwarderDies, FinalizeContinues
<1> QED BY <1>1, Invariance, PTL DEF Spec, TvRunEndsPublished

================================================================================
