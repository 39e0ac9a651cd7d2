# A TLA+ model of appium-ios-remotexpc

appium-ios-remotexpc talks to iOS and tvOS devices: it creates tunnels to them,
keeps a registry of those tunnels behind a small HTTP server, discovers the
services of a device over RemoteXPC, and speaks the protocol of each service over
TCP connections through the tunnel.  It is one Node.js code base: within a process
there are no threads, but every `await` hands control to other calls, socket
events and timers.  That is where its hard behaviour is, and what these modules
describe: **a step is one synchronous segment of code together with the promise
continuations (microtasks) that run right after it**, and steps of all callers,
sockets, timers and peers interleave freely.

`PROJECT.json` names, for every definition, the lines it models; it lists the
runs, the findings, the hazards and the theorems.

## 1. Inventory

Paths are relative to `src/src/`.  "State" is what a component keeps between two
calls.

| Component | State | Operations | Hard behaviour | What makes it correct |
|---|---|---|---|---|
| **Tunnel registry server** `lib/tunnel/tunnel-registry-server.ts`, `tunnel-readiness.ts`, `tunnel-availability.ts` | `registry.tunnels`, `waitersByUdid`, the HTTP server | GET with long poll, PUT, refresh-services, upsert and remove from the script, start, stop | waiters, timers and publications race; a refresh awaits a discovery between read and write | no lost wake-up, no stale answer, every poll answered, stop returns |
| **Registry clients** `lib/tunnel/tunnel-api-client.ts`, `tunnel-service-resolver.ts` | none | `getTunnelByUdid`, `refreshTunnelServices`, `resolveTunnelService` | their fetch times out while the server goes on | the call ends; the service found is in the catalog |
| **Tunnel lifecycle** `lib/tunnel/index.ts`, `tunnel-registry-lifecycle.ts`, `tunnel-rsd-discovery.ts`, `scripts/tunnel-creation.mjs`, `scripts/start-appletv-tunnel.mjs` | active tunnels by address, established tunnels by UDID, watches, discoveries in flight, reconnect runs | create, publish, refresh, forwarder death, finalize, reconnect | a forwarder may die at every await; entries captured before an await; addresses come back | no leaked forwarder, dead tunnels leave the registry, a dropped one comes back |
| **AFC connection** `services/ios/afc/index.ts`, `demux.ts` | socket, current demultiplexer, sticky error, packet number, pending map, send lock | `_sendAndWait` under every file operation, background reader, timeouts, `reconnect()` | concurrent dials, responses after timeouts, rejections during a blocked send, reconnect with work in flight | replies matched, lock never leaked, every operation ends |
| **AFC file operations** the rest of `services/ios/afc/` | open handles, local names in use | list, stat, read and write streams, pull, push | chunking, partial failures, case-insensitive local names | bytes in order; no two remote files on one local name |
| **CoreDevice invocation** `services/ios/core-device/core-device-service.ts`, `lib/remote-xpc/remote-xpc-framed-transport.ts` | invocation queue, transport, message number | `invoke`, `sendReceive`, `send`, `close` | replies carry no number; sends race with a transport being replaced | calls serialised, replies matched, numbering starts afresh per connection |
| **RSD catalogue client** `lib/remote-xpc/rsd-service-catalog-client.ts`, `handshake.ts`, `handshake-frames.ts`, `http2-frame-parser.ts`, `service-catalog.ts` | connected flag, services, two timers, HTTP/2 receive buffer | `connect`, `close`, message and socket events | success, three failures and close race to settle one promise | settles exactly once, no timer outlives it, partial frames reassembled |
| **XPC codec** `lib/remote-xpc/xpc-protocol.ts` | none | encode, decode | alignment, nesting, 64-bit lengths | decoding inverts encoding |
| **Port forwarder** `lib/port-forwarding/` | server, active sockets | start, stop, per-client connect with fallback | a client arrives or dials upstream during stop | both halves of a pair close together, stop closes all |
| **Plist service** `lib/plist/plist-service.ts`, `length-based-splitter.ts`, `plist-decoder.ts` | splitter buffer, message queue | send, receive with timeout, close | a late answer stays queued and meets the next request | frames reassembled; replies matched |
| **Plist formats** `lib/plist/binary-plist-*.ts`, `plist-*.ts` | none | parse, create | object table, reference widths, cycles | parsing inverts creation |
| **usbmux** `lib/usbmux/` | tag counter, pending responses | list devices, read pair record, connect | the socket is handed over after connect; timeouts per tag | a response reaches its own tag; no bytes lost at hand-over |
| **lockdown** `lib/lockdown/` | TLS state, session | start session, upgrade, start service | upgrade of a socket with listeners on it | nothing is sent in clear after the upgrade |
| **Apple TV pairing** `lib/apple-tv/pairing-protocol/`, `pairing/`, `network/`, `storage/` | protocol step, keys, sequence number, record file | M1 to M6, verify, encrypted channel | order of messages, PIN retry, stale record | steps only in order; a nonce is used once |
| **Apple TV crypto and encodings** `lib/apple-tv/srp/`, `encryption/`, `tlv/` | none | SRP, ChaCha20, OPACK, TLV | fragments longer than 255 bytes | decoding inverts encoding |
| **Apple TV tunnel service** `lib/apple-tv/tunnel/` | remoted pause state, sockets | pause, pair, open TLS-PSK tunnel, resume | resume after a crash in between | remoted is always resumed |
| **DVT connection** `services/ios/dvt/index.ts`, `channel*.ts`, `dtx-message.ts` | read buffer, channel table, fragments, message number | connect, makeChannel, send, receive, close | one buffer and no read lock; data while nobody reads | messages whole and on their channel; a closed connection ends its readers |
| **DVT instruments** `services/ios/dvt/instruments/` | channel, started and stop flags | configure, start, iterate, stop | stop during a read; consumer that leaves | the iterator ends; sampling stops |
| **NSKeyedArchiver** `services/ios/dvt/nskeyedarchiver-*.ts` | none | archive, unarchive | shared and cyclic references | unarchiving inverts archiving |
| **Accessibility audit** `services/ios/accessibility-audit/` | DTX buffer, waiters, event queue | request, events, close | events and replies interleave on one socket | replies matched by number |
| **testmanagerd and XCUITest** `services/ios/testmanagerd/` | two connections, channels, run state | authorise, start plan, dispatch inbound calls | three ways a run ends, racing | the run settles once |
| **Display capture** `services/ios/display/` | reorder window, loss map, current access unit | RTP in, RTCP out, frames out | 16-bit sequence numbers wrap; loss and reordering | access units contain only consecutive packets |
| **Zip streaming installer** `services/ios/zipconduit/` | reader window, write backlog | stream entries | backpressure | every byte once and in order |
| **Web inspector** `services/ios/webinspector/` | message parts, listeners | send parts, reassemble | message split over several plists | parts joined in order |
| **Syslog** `services/ios/syslog-service/` | partial line, process state | start, stop, entries | entries split over chunks | no entry lost or doubled |
| **Installation and notification proxy** | current request | streamed status, observe | status after completion | ends on its own status |
| **Image mounter, TSS** `services/ios/mobile-image-mounter/`, `lib/tss/` | cached connection | personalise, upload, mount, unmount, lookup | several requests, one failing or answered late; raw bytes between plists | bytes only when asked for; success means mounted |
| **Crash reports** `services/ios/crash-reports/` | AFC connection, buffered announcements | watch, getNewSysdiagnose, pull, clear | syslog, notifications and files come in any order; the AFC connection is dropped when idle | every announced report yielded once, from a live connection |
| **Device discovery** `lib/discovery/` | maps of one browse, the discovery in flight | browse, resolve | records in any order, twice or cut short; callers share one browse | a device is reported exactly when its records came |
| **Request services** (misagent, springboard, diagnostics, ...) | a connection | one request, one response | those of the connection | - |
| **Factories** `services.ts`, `index.ts` | none | construct | - | - |

How they interact: the creation script establishes a tunnel, discovers the
device's services (RSD client) and publishes an entry in the registry it hosts.
Every service object of a test process asks the registry over HTTP where its
service listens (`resolveTunnelService`), dials that port through the tunnel and
then owns that TCP connection, which it shares among its callers.  The native
forwarder under a tunnel reports its death by a callback; the script removes the
entry and, if told to, reconnects.  Below the tunnel, usbmux hands the socket of a
`Connect` over to the lockdown relay or to a forwarder; lockdown and most small
services then exchange plists on it.  The developer services (DVT instruments,
accessibility audit, testmanagerd) speak DTX, whose messages carry keyed archives;
the CoreDevice services speak XPC in HTTP/2 frames.  A test run, a recording and an
Apple TV pairing are flows over several such connections.

## 2. What is modelled

### TunnelReadiness (with TunnelReadiness_proofs)

The registry server, its long-poll coordinator and the three parties that meet
there.

* **State.** `tunnels` is `registry.tunnels`, `waiters` is `waitersByUdid`;
  `phase`, `timer` and `answer` are the server's side of one HTTP request per
  client, `caller` is how far its `resolveTunnelService` is.  `writes` is the
  clock behind `lastUpdated`; `arrived` is a history variable.
* **Actions.** `GetTunnelByUdid`, `RefreshTunnelServices` (split at its await into
  `RefreshDone` and `RefreshFail`), `UpdateTunnel` (PUT), `PublishBegin`,
  `PublishDone` and `PublishFail` for `publishDiscoveredTunnelEntry`,
  `TunnelDied`, `StopBegin`, `StopDone`, the timer `WaiterTimeout`, and the
  continuation `SendSettled` that sends a response after the waiter's promise was
  settled.  `CallGet`, `GetAnswered`, `RefreshAnswered` and `FetchTimeout` are the
  client.
* **Abstracted.** Addresses and ports; listings and other read-only routes, which
  change nothing; the port file.

### TunnelLifecycle (with TunnelLifecycle_proofs)

One device in the creation process.  The maps of the code are keyed by UDID or by
tunnel address, so one device stands for all.  `setup` chooses the script (USB or
Apple TV), whether an address may come back while the code still holds it active,
whether HTTP refreshes occur, and the retry limit.

* **State.** `forwarder` is the native process; `manager` the TunnelManager's
  map; `established`, `watched`, `inflight` the maps of the same purpose; `entry`
  the registry entry with the tunnel it names and the tunnel its catalog was
  discovered on; `builder` the position in `createTunnelForDevice` /
  `establishOneTunnel` and in publication; `joined` who awaits the singleflight
  discovery, in the order in which they will resume.
* **Actions.** `Create` (native tunnel up, `registerTunnel` reached, with an RSD port
  or, in `portless`, without one), `RedundantClosed`, `PublishLater`, `CreateFails`, `DiscoverCatalog`,
  `DiscoverFails`, `DiscoverDone`, `RefreshBegin`, `ForwarderDies` (the callback
  runs `finalize` up to its await), `FinalizeContinues`.
  `Publish` is `publishDiscoveredTunnelEntry` up to its await: a tunnel without a valid
  RSD port is skipped there, and stays established without an entry or a watch.
* **Abstracted.** Discovery is the outcome of the RSD client with the await for
  its close kept apart, since a forwarder can die there.  Reconnect delays have no
  duration.

### AfcConnection (with AfcConnection_proofs)

One `AfcService` dialled by UDID with its demultiplexers.

* **State.** `sockets` with the reader of each and the requests in it, the
  service's `socket`, `demux` (the current generation) and `dead`
  (`connectionError`), per demux the lock `holder`, its `queue`, `pending` and
  `packetNum`; `ops` the progress of each operation.
* **Actions.** `Call`, `DialDone`, `DialFails`, `EnterLock`, `SendDone`,
  `Receive`, `ReaderFails`, `OpTimeout`, `Reconnect`, `ReconnectDone`,
  `ReconnectFails`.  Errors propagate inside the step in which they occur
  (`Fail`, `FailAndMarkDead`): destroying a socket rejects what its reader
  serves, and an operation whose waiter is rejected while its send is still
  blocked ("expired") ends only when the send does.
* **Abstracted.** Payloads, status codes (an operation that gets an error reply
  is answered), `fromSocket`.

### CoreDeviceInvoke (with CoreDeviceInvoke_proofs)

One `CoreDeviceService`.

* **State.** `queue` (the `invokeQueue` promise chain), `transport`, `nextId`,
  per transport its socket (`link`), the ids `sent` on it and the `requests` the
  device has not answered; `calls` the progress of each call.
* **Actions.** `Invoke`, `Start`, `PreviousClosed`, `Connected`,
  `ConnectedTooLate`, `ConnectFails`, `Answer`, `InvokeTimeout`, `Send`, `Close`,
  `PeerEnds`, `SocketCloses`.
* **Abstracted.** The HTTP/2 handshake inside `connect()`, and message bodies.

### RsdConnect, Discovery (with RsdConnect_proofs)

`discoverServices` for one UDID, from its callers down to the sockets.

* **State.** `awaits` is the discovery each caller awaits; `clients` holds, per
  discovery, one record with the fields of `RsdServiceCatalogClient` and of its
  `RemoteXpcFramedTransport`: the TCP socket (`link`), `shutdownSocket` and who
  awaits it (`shutdown`, `closer`), the transport's `socket`, `connected` and
  `closing`, how far `connectTransport` is (`progress`), the client's transport,
  services and service timer, the promise of `connect()` (`session`) and how far
  `discoverServicesOnce` is (`user`, `result`).  `errorHeard` is the
  `once('error')` listener; `unheard` records an `error` emitted without one,
  which Node.js throws.
* **Actions.** `DiscoverServices` joins or starts; `Connected`, `DialFails`,
  `DelayOver`, `HandshakeDone`, `HandshakeFails` are the transport's `connect()`;
  `CatalogArrives` and `FrameRefused` what arrives; `OperationTimeout`,
  `ServiceTimeout` and `ShutdownTimeout` the timers; `SocketError` and
  `SocketCloses` the socket.  What a handler does to a client is a function of the
  record (`Settled`, `ConnectThrew`, `ClientClose`, `ShutdownFinished`, ...), since
  one callback often runs several of them in a row: a frame that is refused emits
  `error`, which rejects `connect()`, whose caller closes the client.
* **Abstracted.** The ten writes of the handshake are one (`HandshakeDone`), which
  may fail at any moment; messages are a catalog or not; the flags `_isConnected`
  and `_isClosing` of the client, which only refuse a second `connect()` and choose
  a log level (each discovery makes its own client).
* **Discovery** is the promise made to the callers, in four actions: `Join`,
  `CatalogRead`, `Succeed`, `Fail`.  `RsdConnect` implements it under the mapping
  that ends the module (`Phase`, `Waiting`, `Outcome`).  It is also what
  `TunnelLifecycle` assumes of discoveries: one in flight, joined by all, and an
  await between the catalog and success in which a forwarder may die.

### DTX: DvtConnection, DvtTap, AxAudit (with MCDtx_proofs), TestManager (with MCLinks_proofs), XcTest (with MCFlows_proofs)

* **DvtConnection** is `DVTSecureSocketProxyService` with its channels.  A header is
  two bytes and a payload one, so that a chunk can end in any part of a message, and
  messages come whole or in three fragments.  `svc` holds the read buffer, the channel
  table, the fragmenters and the message number, `calls` where each caller's loop is.
  The actions are one iteration of the read loop each, the arrival of data, aborts,
  `close()`, `connect()` and the loss of the socket.  There is no lock in the code and
  none here: callers of one channel take turns, as the instruments do, and `causes`
  records what the connection has no defence against (a message nobody waits for, a
  caller that reads after an abort), which `RepliesMatch` excepts by name.
* **DvtTap** has the six instruments that sample.  What `start()` does is a script of
  elements per instrument (channel, flags, the request, the first reads), read off its
  class; `stop()` of another task may come between any two awaits.  The signal it aborts
  is looked at only by a read that waits for a header: a payload is read to its end, and
  a header that is in the buffer is taken all the same (`ReadOn`, `Header`, `Receive`).
* **AxAudit** is the audit service with its own DTX transport: check-in plists, one
  read loop, replies by number, inbound calls to one-shot waiters and listeners.
* **TestManager** is the reader of a testmanagerd connection: polls with a timeout that
  may fire inside a frame, replies of its own to calls on other channels.
* **XcTest** is one `run()` of `XCTestRunner`: three connections, launch, authorization,
  configuration, the background listener with its bound on empty polls, and `close()`,
  which a user may call at any time while `run()` calls it itself.  The device may start
  the process and its answer be lost or be another message (`LaunchFails`), each of the
  three connections may be lost at any moment, and the payload of a callback may never
  follow its header.

### Ways to a device: Usbmux, PortForwarder, Lockdown (with MCLinks_proofs), AppleTv, MdnsBrowse (with MCFlows_proofs)

* **Usbmux**: tagged requests of several tasks, late answers, and `Connect`, after which
  the stream of plists becomes a stream of device bytes (`mux.consumer`).
* **PortForwarder**: the server, each client's two sockets, and the set of active ones.
* **Lockdown**: `createByUDID` with its relay, a session and its upgrade in the
  background, and requests by a user of either plist service meanwhile.  Answers carry
  no id: `plist` keeps those that nobody took.  What is written to the daemon is one
  stream, the client's hello of the handshake in it: it is sent as soon as the session
  has started, behind or before whatever a user writes in clear.
* **AppleTv**: `client` is the one receive a `NetworkClient` has; `flow` the script of
  requests of pair setup, or of verification, listener and tunnel for each pair record;
  `remoted` the suspended system daemon.  A peer answers as one that proved itself, with
  an error, or with what is neither (`unproved`: no data, no proof); which of these each
  step accepts is read off its check, and the code accepts the third of most.
* **MdnsBrowse**: one shared browse; records come in any datagram, twice or cut short, of
  which those that name no host or no port make no device.

### Services on plist connections: WebInspector, CrashReports, Mounter, InstallationProxy (with MCLinks_proofs), Syslog

* **Syslog**: captures of one service with one shared parser; the bytes of the entries
  themselves, since a start byte may occur in a message or a length.  What comes before
  the splitter of plists is unpiped is lost to the parser, in text mode too.
* **WebInspector**: the connection made once, the background loop and the generators.
* **CrashReports**: `watch()` between the syslog that announces and the AFC directory
  that shows reports, and `getNewSysdiagnose()`.
* **Mounter**, **InstallationProxy**: sequences of requests on one cached connection
  whose answers do not say what they answer, with waits that are given up.

### Media and files: MediaStream, Recording, ZipConduit, ZipReader (with MCFlows_proofs), AfcTransfer, AfcTree (with MCLinks_proofs)

* **MediaStream**: datagrams lost, doubled and reordered, the iterator over the
  receiver's queue, depacketizer, loss reporter and receiver report.  Sequence numbers
  are modulo 8 (65536 in the code) and start just below the wraparound.
* **Recording**: one or two tracks from negotiation to closed files, ended by a timer, a
  frame count, a signal or an error.
* **ZipReader**: the search for the end record and the walk through the directory in a
  window that moves; a byte of the file is its offset, so a wrong byte is seen.  Entries
  are announced one by one and kept by name, an entry in the place of an earlier one of
  the same name; the order in which `Object.values` lists the names is left out, and
  `ZipConduit` takes any sequence of entries.
* **ZipConduit**: the upload with reused buffers; a write hands the socket a reference,
  and the bytes that go out are those the buffer holds when they are taken.
* **AfcTransfer**: contents and streams in chunks, the read pump and its flag, handles.
* **AfcTree**: the frames of the recursive pull and of the recursive removal; local names
  with a sanitized form, a folded form and a suffix.  Whether case matters is asked of
  macOS only, taken for granted on Linux, and cached by the name of the device; a removal
  may be carried out and its answer be lost.

### Encodings: XpcMessage, XpcWire, BinaryPlist, KeyedArchive, PairingCodec

Encoders and decoders as functions on sequences of cells (a marker, a byte of a number,
opaque content), with the base of a byte as a parameter so that every width is
exceeded by a small value.  `XpcWire` cuts the messages of two streams into frames and
chunks and follows the parser and the transport through them; `KeyedArchive` has graphs
with shared nodes and cycles.  The decoders are translations of their own, never the
inverse of the encoder.

The modules share no state: each long-lived object of the code belongs to one of
them, and where two meet (the resolver calls the registry, the lifecycle
publishes in it) the other side appears as actions of the module.

## 3. What is checked

| Run | Instance | Distinct states | Expected |
|---|---|---|---|
| `readiness` | 2 clients, 1 UDID, 2 services, 2 writes | 342 thousand | pass |
| `lifecycle` | 4 situations, 3 tunnels, 3 addresses, 1 refresher, 3 faults, with and without an RSD port | 143 thousand | pass |
| `afc` | 3 operations, 2 sockets, 1 reconnect | 97 thousand | pass |
| `invoke` | 2 invocations, 1 send, 3 transports, 2 closes | 44 thousand | pass |
| `rsd` | 2 callers, 2 discoveries | 16 thousand | pass |
| `dtx` | DvtConnection, DvtTap, AxAudit, one at a time | 911 thousand | pass |
| `device` | the fifteen components of `MCDevice`, one at a time | 3.12 million | pass |
| `flows` | XcTest, AppleTv, Recording, Lockdown, MediaStream, ZipConduit, ZipReader, MdnsBrowse, one at a time, fair | 1.29 million | pass |
| `lifecycle_dead` | one situation | small | violation |
| `afc_busy_reconnect` | 2 operations, 2 sockets | small | violation |
| `opack_fifteen` | the values of `MCValues` | small | violation |
| `forwarder_stop` | 2 clients, 3 calls | small | violation |

`MCDtx`, `MCDevice` and `MCFlows` instantiate several components that share no state
and no step in the program.  `Init` chooses the one that runs, the variables of the
others rest at 0, so the states of the run are the sum and not the product of those of
the components.  `MCDevice` extends `MCLinks`, which has ten of the fifteen: those that
`ConnectionsHeld`, `AnswersMatch`, `StreamsExact` and `TreesKept` are about.  They are kept
apart because the encoders in `MCDevice` are RECURSIVE operators, which cost the prover
its arithmetic.  A behaviour of `MCDevice` is one of `LinksSpec` as far as the variables
of `MCLinks` go, so the theorems about `LinksSpec` are about the run.  A property of such a run is a conjunction with one conjunct per
component, each under its own name in its own module.

**readiness** shows that the waiter lists are exactly the parked requests
(`WaitersExact`), that no long poll sleeps on an entry the script published
(`PublishedIsSeen`), that a poll that waited gets an entry written after it came
(`FreshAnswer`), and that every poll is answered and `stop()` returns.

**lifecycle** shows that at most one forwarder of a device runs, apart from the
one being closed (`NoForwarderLeak`), that publication alone never brings back an
entry that was removed and, while no HTTP refresh occurs, the entry names the
established tunnel with its own catalog (`RegistryTrue`), that the entry goes in the step in which
its forwarder dies (`DeathRemovesEntry`), and that a dropped Apple TV tunnel is
published again, unless it was replaced by one that reports no usable RSD port, which the
script neither publishes nor watches (`TvRunEndsPublished`, `DroppedIsRepublished`).

**afc** shows that a reply reaches only the operation that asked, even with two
sockets read by one demultiplexer (`RepliesMatch`), that pending map and lock
hold exactly the live operations and the loss of a socket is felt at once
(`StateExact`), that `reconnect()` on an idle service leaves no old error
(`IdleReconnectRecovers`) and that every operation ends (`EveryOpEnds`).

**invoke** shows that invocations never overlap, that a reply without a number
still reaches the right one, that ids start at 1 on every connection whatever
sends interleave, that no open connection is forgotten as long as only
invocations are used, and that one failed call does not stop the queue.

**rsd** shows that no order of frames, timers and socket events emits an `error`
that nobody hears (`NoUnheardError`: the first one makes the caller close the
transport, which silences it), that a discovery that returned leaves its socket
closed or being shut down (`ReleasedOnReturn`) and, when it returned a catalog,
destroyed (`SuccessAfterClose`), that every discovery ends and its socket closes
even if the device stays silent (`DiscoveryEnds`), and that callers see what
`Discovery` promises (`ImplementsDiscovery`).

**dtx** shows that what a reader takes for a header is one, whatever is split,
aborted or lost, except after the failures the module names (`Broken`) (`FramesKept`); that a reply reaches the call it
answers, unless its channel carried a message nobody asked for or a reply nobody read,
and a channel kept over a reconnect reads nothing of the new connection
(`RepliesMatch`); that after a `stop()` the
generator can hear it waits for no further message and hands out at most the one whose
header it had taken, and that an iteration that ended leaves no device sampling
(`SamplingStops`); and that nobody waits on a closed audit transport, the device
monitors as long as somebody observes, and an audit has the issues of no other that came
before it, but of one that was given up while the device went on with it, or of one
that came after that (`AuditsExact`).

**device** has six properties:

* `AnswersMatch`: usbmux answers by tag, lockdown answers by order, testmanagerd's
  callbacks each get one reply, a mount that reports success has mounted the image
  after the device asked for its bytes, a browse of installed applications is a whole
  list of one request.
* `ConnectionsHeld`: a socket handed over by usbmux has no other consumer and loses no
  byte, no open socket of a port forwarder escapes the set that `stop()` destroys, a
  lockdown session that was secured has sent its daemon nothing it cannot read, unless a
  user who made the service himself wrote in clear during the upgrade (the users of
  `createByUDID` get the service after it), the web inspector has one connection, crash reports are read from an AFC connection that lives.
* `StreamsExact`: frames of testmanagerd stay aligned over timeouts, every generator of the
  web inspector yields every message while it listens, `watch()` yields the announced
  reports and no other, a pump of AFC never leaves a reader waiting with nothing on the way,
  a transfer that ended holds no handle and says what failed.
* `TreesKept`: no pulled file overwrites another of the same pull, unless the volume
  ignores case, the code believes that it does not, and overwriting is allowed
  (`AfcTree!Misjudged`); `rm` that could look at every directory reports what it left, and
  nothing else but what was removed without an answer.
* `RoundTrips`: decoding inverts encoding for binary plists, XPC messages however they
  are cut, OPACK2 and TLV8, and keyed archives; the credit of an HTTP/2 window is
  returned; syslog entries are those that were sent, and the lines of a text capture of
  which the beginning was taken by the plist splitter are, but for the first, lines of it.

**flows** shows that a test run, a recording or a pairing that ended, however it
ended, leaves no process, connection, reporter, open file or suspended daemon
(`NothingLeftBehind`).  Its exceptions are what the code does leave: a process whose number
the run did not learn or could not reach any more (`XcTest!ProcessLost`), the exec and the
control connection of a run that failed at its lookup, and the socket to a listener of a
device that tells no name (`AppleTv!SocketsClosed`).  A run passes only if its plan ended
without failures, and a pairing goes on to keys and tunnel only after the peer answered the
proof with anything but an error (`OutcomeTrue`), which is all the code asks for.  Each flow
ends (`EndsInTime`) except in states that the modules define and name.  In two the code has
no way out: `XcTest!SilentBeforeConfig` and `AppleTv!Hung`; a recording aborted before its
loop listens goes on until `stop()` (`Recording!EndedOrAborted`); and a test run waits
without a timer for what the device owes it, an answer, a payload, or the call that asks for
the configuration (`XcTest!LeftToDevice`).  What remains is that nothing of the host's own
holds a run up: neither an end of the listener, nor a lost connection, nor `close()`.  Four of its components put
together what comes in pieces (`PiecesExact`).  A picture that a display stream delivers has
all its packets, in order, and no datagram that arrived is passed over; the picture of the
first packet taken may lack its beginning, for which there was no sequence number to compare
with, and nothing is said once as many packets in a row were missed as there are sequence
numbers (`Aliased`), since the next number is then the expected one.  What goes out to the
installer is what the entries say, in order, although buffers are filled again while the
socket holds references to them.  The entries that are announced of an archive are those of its
directory in their order, each with the bytes of its own name, those that are listed have
each name once, with the last entry of that name, and an archive is refused for a cause only: a
read that failed, an entry that does not fit in a window, or an end record with the longest
comment.  A discovery has the devices that announced themselves, with every service record
that was heard and names a host and a port, under an IPv4 address if one was heard.

### Where the code does not do what it says

Each of these runs checks one sentence of a comment or test, quoted with its place
in `PROJECT.json`, and TLC shows a behaviour that contradicts it.

* `lifecycle_dead`: a forwarder that dies between discovery and publication is
  published and stays.
* `afc_busy_reconnect`: operations in flight during `reconnect()` mark the new
  connection dead.
* `opack_fifteen`: an array of exactly 15 items is written with the marker of an array
  of any length and cannot be read back.
* `forwarder_stop`: an upstream whose dial resolves after `stop()` is piped to a
  destroyed socket and stays open.

The modules state further sentences that comments say and the code does not keep; no
run checks them, and each can be checked by naming it in a cfg of its module.  They
are what the checked properties except:

| Statement | What contradicts it |
|---|---|
| `TunnelReadiness.NoWaiterOnReadyEntry` | PUT writes a ready entry, the polls waiting for it sleep on |
| `TunnelReadiness.RefusedAfterWait` | the start of a publication answers 408 at once |
| `TunnelLifecycle.RemovedStaysRemoved` | a refresh that straddles a death publishes the dead tunnel again |
| `TunnelLifecycle.UnlimitedEndsPublished` | a failed discovery ends an "unlimited" reconnect run |
| `AfcConnection.LockOnlyWhileSending` | the send lock is kept until the response arrives |
| `DvtTap.StopEndsIteration` | `stop()` during `start()` is overwritten by it |
| `XcTest.RunCleansUp` | a failure before the XCUITest service is constructed leaves the exec and control connections open; the process whose launch was answered late, or by another message, is not killed |
| `TestManager.NothingUnread` | data that comes between two reads has no listener |
| `AppleTv.ProofFirst` | an M4 without its data, and a STATE 4 without any, are taken for a proof, and the proof of the peer in M4 and in STATE 2 is not looked at |
| `AppleTv.CallEnds` | a peer that closes during a receive leaves its promise pending |
| `Recording.RecordingEnds` | the timer fires before the loop listens for it |
| `MediaStream.HighestIsHonest` | a packet taken late, below the highest number, counts as a new cycle |
| `Lockdown.FailureReleases` | a relay whose server or local connection fails leaves its usbmux socket open |
| `Syslog.StopReleases` | a request that fails after its connection is there leaves the connection open |
| `Mounter.ImageAlone` | after two waits that were given up, a late acknowledgement is taken for the one of this image: requests sent before it follow, and the device takes them for a part of the image |
| `Mounter.UnmountIsReal` | the late answer of a lookup that was given up is taken for the unmount's |
| `ZipConduit.CloseCloses` | `close()` drops the reference, the socket stays open |
| `BinaryPlist.DictStaysDict` | a dictionary with the keys type and value is read as a tagged value |
| `KeyedArchive.FieldsKept` | fields of a class the decoder does not know lose their references |

### Bounds

Every bound is a constant of its module.  They are chosen so that the interesting cases
occur:

* two services, so that a catalog can lack the one asked for and is refreshed; two
  polls on one UDID, one that finds the entry unusable, one write before it
  and one after.  UDIDs do not interact in the server, and the theorems cover any
  number;
* a tunnel, its replacement and the replacement's replacement, with a death, a
  failed creation and a failed discovery among them.  Four tunnels and four
  addresses (4.2 million states) gave the same verdicts;
* two concurrent dials with a third operation behind the lock, and a reconnect in
  between.  A third socket (831 thousand states) gave the same verdicts;
* an invocation that times out and one that follows it, with a fire-and-forget
  message and two closes in between.  Three invocations on four transports
  (814 thousand states), and two senders, gave the same verdicts;
* two callers, so that one joins while the discovery of the other is being closed,
  and a second discovery that starts while the socket of the first may still be
  open.  The theorems of `RsdConnect_proofs` cover any number of both;
* two callers, two connections and four DTX messages: a reply, a device message in
  fragments between its parts, and a channel that outlives its connection; chunks of
  two bytes and of everything;
* two runs of an instrument and two calls of `stop()`; two messages of an audit
  device and three audits: one that is given up, one whose listening ends early, and one
  that collects what the device sent for either;
* for streams, a picture of three packets and one of one, around the wraparound of the
  sequence number; two syslog captures, of entries or of lines; three messages of the web inspector over two
  connections; reports of two processes;
* for files, sizes just above and below a chunk, a window that must move inside an
  entry, a comment longer than the first search, three entries of which two or three may
  have one name (`LongestCalled`), two names that differ in case and two that become one
  when sanitized, on each platform and with a stale cache;
* for encodings, values on both sides of every width (`MCValues`): with a byte of base
  4 or 64 the boundaries of 255 and 65535 are a few items away.

Runs state `CHECK_DEADLOCK FALSE` because the systems really come to rest: all
callers have ended or a bound is used up.

### Fairness

Weak fairness only, and only for what the program or Node.js guarantees: armed
timers fire, promise continuations run, awaited dials and discoveries end because
their own timeouts bound them, the close callback of a server or socket comes
once nothing holds it open.  In `flows` that is: the next step of a run's setup where it
awaits no device (`HostGoesOn`), the polls of its listener while they have a timer
(`ListenerGoesOn`) and its `close()`; the host's side of an Apple TV exchange (`HostStep`,
with the timer of its receive); negotiation, timer, loops and teardown of a recording; and
of lockdown only that an ended local connection passes through its relay and that a server
without connections closes.  Nothing is assumed of devices (they may never answer), of
clients, or of the next fault.  One assumption concerns a
peer: in `AfcConnection` a socket that nobody reads any more (the loser of two
concurrent dials after `reconnect()`) has no timer, and a write blocked on it is
assumed to be accepted some day.

## 4. What is proved

`TunnelReadiness_proofs` proves, for any sets of clients, UDIDs and services and
any bound on the writes:

* `TypeCorrect`: `Spec => []TypeOK`
* `WaitersAreExact`: `Spec => []WaitersExact`
* `AnswersAreFresh`: `Spec => []FreshAnswer`
* `NoLostWakeup`: `Spec => []PublishedIsSeen`

The assumptions are those of the module: `MaxWrites` is a natural number, and the
placeholders `NoEntry` and `NoUdid` are neither an entry nor a UDID.

The argument is one inductive invariant,

    IInv == TypeOK /\ TargetSet /\ ArrivedInPast /\ WaitersExact
            /\ FreshAnswer /\ PublishedIsSeen

None of the named properties is inductive by itself.  `WaitersExact` needs
`TargetSet` (a request that left "idle" names a UDID), because a timer removes its
waiter from the list of `target[c]`.  `FreshAnswer` needs `ArrivedInPast`
(requests arrive no later than the clock), since an entry published now is stamped
later than the clock, and `WaitersExact`, which says that those woken are those
with an armed timer.  `PublishedIsSeen` needs `WaitersExact` to know that a
settled list is empty.  The lemma `SettleExact` states what the coordinator's loop
does to requests and waiters once for every caller, `UpsertInv`, `PendingInv` and
`ReplyInv` lift it to the three uses of it, and `StepInv` goes through the actions
of `Next`.

`RsdConnect_proofs` proves, for any set of callers and any number of discoveries
(`MaxDiscoveries \in Nat`):

* `TypeCorrect`, `ErrorsAreHeard`, `SocketsReleased`, `ClosedBeforeSuccess`: the
  four invariants of the run;
* `Refinement`: `Spec => ImplementsDiscovery`, the implementation of `Discovery`.

Clients touch nothing but their own record, so its inductive invariant is one
predicate of a record, `ClientInv`, for each client, with `OneInFlight`.  Its heart
is `TransportInv`: a client whose error listener is used up is `Silent` (it has no
socket, and the socket it had is closing, gone, or no longer in the connected
phase), and `UserInv`: as long as the transport has a socket, the caller still
awaits `connect()`.  Together they say why a second error cannot be emitted.  The
handlers are treated one by one (`UserResumesInv`, `SettledInv`,
`ConnectThrewInv`, `ShutdownFinishedInv`, `EmitErrorInv`), each under the weakest
condition it is called with (`Resumable`, `Open`, `Threw`), since in the middle of
a callback the invariant does not hold.  Every action is then shown to be
`Stepped`: it leads from one record in order to another along `Moves`, which says
what a step may do to a discovery (settle it, end it, never restart it).  That is
all the refinement proof needs to know of the twelve actions.

`CoreDeviceInvoke_proofs` proves, for any sets of invocations and senders and any
number of connections and of calls of `close()`:

* `StaysExact`, `NeverOverlap`, `AnswersMatch`, `NothingOrphaned`: the four
  invariants of the run.

The assumptions are those of the module: the bounds are natural numbers, no call is
both an invocation and a send, and `NoTransport` is not a number.  The inductive
invariant is

    IInv == Typed /\ QueueExact /\ HasTransport /\ Fresh /\ OwesOne
            /\ RepliesMatch /\ Numbered /\ NoneHeld /\ NoOrphan

A reply is taken by whoever waits on its connection, so `RepliesMatch` needs
`OwesOne` (a connection that an invocation waits on owes at most the answer to it).
`OwesOne` needs `QueueExact` (only the head of the queue runs) and `Fresh` (nothing
was written on a connection that is not there yet): the first message on a new
connection is the invocation's own.  `NoOrphan` needs `NoneHeld`: an invocation that
is about to have a connection has seen the last one go, so the assignment to
`transport` loses nothing.  It holds only as long as no `send` is used, since a send
may dial too.  `TailKeeps` and `AppendKeeps` say what the two operations on the queue
keep of it, `FailedCalls`, `SetCall`, `DialKeeps` and `QueueStays` what the shared
operators do; then there is one lemma per action.

`TunnelLifecycle_proofs` proves, for any number of tunnels, addresses and faults, any
set of refreshers and any set of situations:

* `TypeCorrect`, `ForwardersKept`, `RegistryIsTrue`: the three invariants of the run;
* `DeathIsNoticed`, `TvRunsPublish`: its two action properties, the second with the
  tunnel that has no RSD port as the one other end of an unlimited run.

Assumed are only that the situations are situations, that the bound on faults is a
number, and that the placeholders (no tunnel, no entry, ...) are not what they stand in
for.  The inductive invariant is

    IInv == Typed /\ BuilderExact /\ DiscoveryExact /\ MainIsFirst /\ NoForwarderLeak
            /\ FiledOnce /\ Addressed /\ Sequential /\ Armed

`NoForwarderLeak` by itself says nothing of a tunnel that is being built, nor of one
whose address another has taken.  `FiledOnce` and `Addressed` say under which
address the manager has which tunnel, so that `finalize` finds the one it is to close
there; `BuilderExact` and `DiscoveryExact` say where a builder and the callers of a
discovery can be at all.  `RegistryTrue` rests on `Sequential`: without HTTP refreshes,
removing the entry, closing, building the replacement and publishing it come one after
the other, never two of them at once.  `DeathRemovesEntry` rests on `Armed`: the
watch of the tunnel in use is armed for as long as its forwarder runs.

`AfcConnection_proofs` proves, for any finite set of operations, any sockets and any
number of reconnects:

* `StaysExact`, `AnswersMatch`, `IdleRecovers`: the three invariants of the run.

That a call is one of finitely many (`OpAssumption`) is needed for the length of the
lock's queue only.  The inductive invariant is

    IInv == Typed /\ OpsExact /\ SocketsExact /\ GenerationsExact /\ QueueExact
            /\ WireExact /\ NumbersExact /\ WaitersExact /\ Counted /\ RepliesMatch
            /\ LockHeldByLiveOp /\ RejectedAtOnce /\ IdleReconnectRecovers

`RepliesMatch` compares an answer with the call that gets it, and is kept because packet
numbers of one demultiplexer are never used twice (`NumbersExact`), even when two
sockets are read by one demultiplexer, and because what is on the wire or in the pending
map was sent under the number it bears (`WireExact`, `WaitersExact`).  `StateExact` is
about the operations that are rejected in the middle of a send: `QueueExact` says that the
holder and the queue of the lock are the operations that have not been sent, each once,
and `OpsExact` and `GenerationsExact` which demultiplexer each of them belongs to.

`MCDtx_proofs` proves four invariants of the composition of the DTX components, for any
finite sets of users and callers and any numbers of audits, sends, runs, calls of `stop()`,
connections and messages:

* `AuditsStayExact`: `Spec => []AuditsExact`
* `SamplingIsStopped`: `Spec => []SamplingStops`
* `FramesAreKept`: `Spec => []FramesKept`
* `RepliesAnswer`: `Spec => []RepliesMatch`

Each rests on an inductive invariant of its component; the steps of the other components
leave its variables alone.  `AxInv` has, besides the three conjuncts of `AuditsExact`,
that the waiters' table of the transport holds the users that wait and no others
(`TableExact`), that the count of observers is their number (`ObserversCounted`, which is
why users are finitely many), that at most one audit collects (`OneAudit`), what
the device may still send and for which audit (`DeviceExact`), and that nobody
calls before the check-in is through (`CheckinQuiet`).  `AuditsNotMixed` in an earlier form
allowed an audit the issues of the one before it only; the attempt to prove it, and TLC
with three audits, showed that an end taken for another's shifts every later audit.
`TapInv` follows the script of an instrument: while it has not told the device to sample,
or has yet to set the flag, a stop may find nothing to do (`StopReaches`), and one that
was heard is remembered until the loop looks at the flag (`HeardKept`), by which time at
most one message was handed out (`AfterKept`).

The invariant of the connection (`Kept`) is the two properties, that codes are not shared
(`ChannelsNeverAlias`) and, as long as no cause of `Broken` was recorded, `DvGood`.  Its parts:

* what was read and what is on the way is one stream of frames (`Framed`): a reader is at
  a header or, once it has one, at the payload of that header, the fragments of a message
  follow each other in order, and a fragmenter holds those that came before;
* what is still to come continues it (`Pipeline`): a message that was begun is finished by
  the fragments it lacks, which are on the stream or at the device, in order;
* a message is in one stage only, owed, on its way, to be delivered (`Apart`, `Located`),
  so none is delivered twice;
* callers take turns (`Turns`): two that read wait on the same channel with less than a
  header in the buffer, and one that has a header has an empty buffer and nothing queued;
* a code a caller holds is on the connection's table exactly when it is of this connection
  (`Codes`), and so is never given to two channels;
* every message is waited for by the caller who asked, or its channel is in `stray`
  (`Wanted`), which is what `RepliesMatch` excepts.

That callers are finitely many (`CallerAssumption`) is needed because a `data` event goes to
each one that waits.  TLC checked it on the 767 792 states of the component before it was proved.  Each action
has one lemma per part it disturbs; the iterations of the read loop, which move a frame
from the stream to a fragmenter, from there to a queue and from the queue to a caller,
take most of the proof.  It also shows that the reply of a handshake is taken with an empty
buffer: `drainBufferedMessages` never has anything to skip unless a cause was recorded.

`MCFlows_proofs` proves, for any limits on polls, suites, attempts and calls, any pictures in
any packets with any range of sequence numbers, any archive and any sizes of buffers and
windows, and any records of a browse:

* `FlowsLeaveNothing`: `Spec => []NothingLeftBehind`
* `OutcomesAreTrue`: `Spec => []OutcomeTrue`
* `PiecesAreExact`: `Spec => []PiecesExact`

Assumed are that the bound on empty polls is a number (`PollsAssumption`); that a device sends
one picture after the other with the last packet of each marked, and the fragments of a NAL
unit one after the other within a picture (`PicturesAssumption`, which is H.265 over RTP); that
directories in an archive have no payload, and that a transfer buffer (1 MiB,
`TRANSFER_CHUNK_SIZE`) is not smaller than the high water mark of a socket
(`ArchiveAssumption`: otherwise a full buffer is filled again while the socket holds it);
that a window holds at least the fixed part of a header (`WindowAssumption`: 46 bytes, and
the smallest window of the code has the lesser of 1024 and the size of the file); and that a
record is of one of the five kinds that are read, an address with its family
(`RecordsAssumption`).

`FlowsInv` is again one invariant per component.  For a test run (`XcInv`) the claim is
about the end, and inductive is what holds on the way there: whatever the run has still
open, the `close()` that is running or will run has still to close (`ToClose`), but for a
process whose number is lost; what it
reports is what the device said (`ReportsTrue`) of a plan it asked for (`PlanAsked`).
For a recording (`RecInv`) tracks are in the stages their files and sockets allow
(`InTheirStages`), one is negotiated at a time (`OneByOne`), and a track torn down has
let go of everything.  For a pairing (`TvInv`) the daemon is suspended only while the
flow is where its `finally` will resume it (`SuspendedHeld`), a request of the flow is
asked once and answered by what was asked (`AskedOnce`), both sides count alike, and what
comes after the proof comes from a peer that did not answer it with an error
(`ProvedBefore`), and the socket of a tunnel is let go of only where the device told no name
(`SocketsGone`).

For a display stream there are two invariants.  `ReceiverInv` says where each datagram is:
taken, in the hand of a resumed iterator, or queued, and that an iterator waits only for an
empty queue.  `PicturesInv` relates the assembler to the last packet taken: unless the picture
is known to be incomplete, the NAL units kept of it and the fragments of the unit begun are,
together, its packets up to that one without a hole (`Kept`), and a unit is begun exactly if
that packet is a fragment but the last.  A delivered picture is then complete because its last
packet is marked.  For an upload (`UploadInv`) the writes that the socket holds, read as the
buffers are now, continue what the kernel has taken (`Chained`), the next write will continue
those (`Frontier`, `Filled`), and no write that is held refers to the buffer that is being
filled (`Apart`): a full buffer makes the caller wait until nothing is held.

For the directory of an archive (`ReaderInv`) the window shows the bytes of the file where it
is (`Shows`).  While the end record is searched for, the window ends where the file does and
the record is not in what was searched; while the directory is walked, what is read next
begins in the window, and a read that returned nothing was at an entry that does not fit.
The map of entries has the last of those announced under each name (`MapInv`).
That the recursive functions of both, for the place of a header and for the records of a
datagram noted one after the other, are what they say goes by an induction over a set of
numbers (`LeastOf`, `AllUpTo`).  For a browse (`MdnsInv`) the maps are, from a call to its answer, exactly the records heard
(`MapsKept`), whatever order they came in; what is built of them is then `DiscoveryExact`.

`MCLinks_proofs` proves four invariants of the `device` run, for any sets of clients,
connections, askers, listeners and processes, any list of applications in any parts, any
announcements, any tree of directories with any local names, and any bounds:

* `ConnectionsAreHeld`: `LinksSpec => []ConnectionsHeld`
* `AnswersReachTheirRequests`: `LinksSpec => []AnswersMatch`
* `StreamsStayExact`: `LinksSpec => []StreamsExact`
* `TreesAreKept`: `LinksSpec => []TreesKept`

Assumed are that `Nobody` is no client and "upgrade" no asker (`NamesAssumption`), that the
parts of a list are sequences of applications (`PartsAssumption`), that the sizes of files,
chunks and buffers (`TransferBounds`) and the other bounds (`LinksBounds`) are numbers, and
that what a device lists is a tree: an entry is listed once, and no directory is below one
that it holds (`TreeAssumption`).  `LinksInv` is one invariant per component, each
for the component that runs:

* usbmux (`MuxInv`): a tag is a serial number, and the table of callbacks, the tasks that
  wait, the requests at the daemon and the answers on the socket agree on whose it is
  (`Tagged`); the socket is a stream of answers until the answer to the `Connect` that
  succeeds, and of device bytes after it, all of which were read or are there (`Turned`);
* port forwarder (`Tracked`): both sockets of each client are in the set while open;
* lockdown (`LdInv`): on a plist service where no receive was given up, at most one request is
  outstanding and what is queued or on its way there is its answer (`Alone`); as long as
  nobody wrote in clear during the upgrade, what the daemon has yet to read is what it
  expects, the hello last (`Uncrossed`), and in clear nothing is under way once the session
  is on TLS, nor over TLS before (`Secure`);
* testmanagerd (`TmInv`): what is buffered, on the wire and still to be cut into chunks is
  one stream of frames, in which the ids of a channel do not fall and every message begins
  with the frame that says whether it expects a reply (`InStream`, `ToFollow`); a
  payload is read with nothing queued on its channel (`Steady`), and a message that is
  queued on a channel nobody polls has had its reply (`Answered`);
* web inspector (`OneLive`): of all connections dialled, only that of the promise can be or
  become open, unless a `close()` came too early;
* crash reports (`Reading`): the AFC connection is live whenever a report is read or pulled;
* image mounter (`MtInv`): the acknowledgement of `ReceiveBytes` is the last answer until an
  image comes (`Piped`), while the answer to an image or to `MountImage` is awaited there is
  nothing else to be answered (`Uploads`, `Mounts`), and a new connection begins with its
  greeting (`Greets`);
* installation proxy (`PxInv`): unless a call was given up, the request under way is that of
  the call and none of its answers but the last is final (`Pending`), and the
  answers not read go on where those read have ended (`GoesOn`);
* frames of testmanagerd (`FrameInv`): the buffer and the wire together are a chain in which
  each part of a frame is followed by the next, and it opens with a header, or with the
  payload of the header that was read (`Aligned`);
* messages of the web inspector (`YieldInv`): what a generator has yielded and what is in its
  queue are all that came since it began to listen, in order, and a generator that waits
  has nothing queued (`Told`), unless it began after the stop (`late`);
* crash reports (`ReportsInv`): the queue is the latest of what was announced (`Buffered`), and
  what was yielded is, in order, what came before, was wanted and is not gone (`Yielded`);
* AFC transfers (`AtInv`): the handle is open exactly where the operation will still close it
  (`HandleHeld`), every unit that was asked for is written, buffered or on its way
  (`UnitsCounted`), and what will be reported is what happened (`OutcomeKept`);
* AFC trees (`TreeInv`): what is left on the device is what was reported and what the frames
  of the removal have still to do, which are disjoint, and all that is reported and gone was
  removed without an answer (`RmInv`, `Cleared`); unless the host was misjudged, no two remote entries have
  one local place, and all that a pull wrote is at the place of a name it allocated (`PullInv`).

Chunks of any size are handled by recursive functions, and a list of applications is
a concatenation of its parts.  No induction theorem can be applied, but a set of numbers
can be shown to have a least one, or to contain every number up to a bound (`Least`,
`Upwards`), and that is an induction over a set.  `ImageWhenAsked` once said also that
nothing else is taken for a part of an image; the attempt to prove it, and TLC, showed
that this needs that at most one wait was given up, and it is now `ImageAlone`, which does
not hold.

What is below a directory was a RECURSIVE operator; it is now what is in every set that has
the directory and is closed under listing (`AfcTree!Below`), which the prover can reason
about.  Its proofs go by sets that are closed, not by depth.

Only model-checked: `RoundTrips` of the `device` run, and everything temporal beyond `[]` and
action properties (liveness depends on `ENABLED`, which the prover does not treat).  What
encoders, decoders and parsers compute is a matter of induction over their input, which the
installed provers cannot do, and most of them are RECURSIVE operators, so `RoundTrips` stays
with TLC.

## 5. What is not modelled

Durations: timers may fire whenever they are armed, so nothing is said about
which of two timeouts comes first.  Unhandled promise rejections, which end a
Node.js process by default.  Signal handlers and exit paths of the scripts.
Cryptography (SRP, ChaCha20, TLS): arithmetic on thousands of bits.  XML property
lists: text on top of an XML library.  The instruments that send one request and read
one answer, and the small request services: their concurrency is that of the
connections they use, which are modelled.  The records macOS tools print.  Types,
exports and constructors.  Zip64 archives, DNS name compression, the layout of M4A
files and the offer of a display capture: formats without state.

## 6. Plan

1. **Abstract specifications**: `RequestReply` (each call gets its own reply or
   an error, once), implemented by AfcConnection, CoreDeviceInvoke, Usbmux and
   Lockdown; `Registry` (an entry, a set of waiters), implemented by
   TunnelReadiness.
2. **Theorems**: of `RoundTrips`, the syslog parser and the codecs of keys and values,
   whose modules would have to give up folds and RECURSIVE operators first; the refinements
   of `RequestReply`, step by step.
3. **Compositions**: a capture of `Recording` over the datagrams of `MediaStream`;
   `TestManager` under `XcTest`; `Lockdown` over `Usbmux`, whose hand-over of a socket
   both describe.
4. **The rest of the parts**: the handshake of testmanagerd, SETTINGS of HTTP/2, the
   parsing of what the instruments sample.
