------------------------------- MODULE Lockdown -------------------------------
(* LockdownServiceFactory.createByUDID (lib/lockdown): a relay to the device over    *)
(* usbmux, a LockdownService on a connection to it, a session and its upgrade to TLS *)
(* in the background, requests over the one plist service or the other, and close(). *)
EXTENDS Naturals, Sequences

CONSTANTS
    Asker,     \* tasks of the user
    MaxAsks    \* bound: requests on one service object

VARIABLES
    relay,     \* RelayService: usbmuxClient, the server, and the connection through it
    stage,     \* createByUDID, and who made the service: the factory or a user
    upgrade,   \* tryUpgradeToTLS, isTLS, and whether a user wrote in clear during it
    plist,     \* PlistService, plain and over TLS: received messages, whether in order
    requests,  \* per task: its request
    lockdownd  \* the daemon: what it has yet to read, whether the session asked for TLS

ldVars == <<relay, stage, upgrade, plist, requests, lockdownd>>

Service == {"plain", "tls"}
Task == Asker \cup {"upgrade"}
NoAsk == [state |-> "idle", via |-> "plain", serial |-> 0, got |-> 0]
NewService == [queue |-> <<>>, disturbed |-> FALSE]

LdInit ==
    /\ relay = [usb |-> "none", server |-> "none", local |-> "none"]
    /\ stage \in {[at |-> "find", made |-> "factory"], [at |-> "connect", made |-> "user"]}
    /\ upgrade = [at |-> "none", isTLS |-> FALSE, crossed |-> FALSE]
    /\ plist = [v \in Service |-> NewService]
    /\ requests = [c \in Task |-> NoAsk]
    /\ lockdownd = [up |-> TRUE, todo |-> <<>>, serial |-> 0, ssl |-> "off",
                  confused |-> FALSE]

At(p) == stage.at = p
Goto(p) == stage' = [stage EXCEPT !.at = p]

-----------------------------------------------------------------------------
(* createByUDID and RelayService.                                               *)

\* findDeviceByUDID: an usbmux client of its own, closed whatever came of it.
FindDevice ==
    /\ At("find") /\ \E p \in {"usbmux", "failed"} : Goto(p)
    /\ UNCHANGED <<relay, upgrade, plist, requests, lockdownd>>

\* RelayService.start: the device first, then the server.
RelayDials ==
    /\ At("usbmux")
    /\ \/ relay' = [relay EXCEPT !.usb = "open"] /\ Goto("listen")
       \/ UNCHANGED relay /\ Goto("failed")
    /\ UNCHANGED <<upgrade, plist, requests, lockdownd>>

RelayListens ==
    /\ At("listen")
    /\ \/ relay' = [relay EXCEPT !.server = "listening"] /\ Goto("connect")
       \/ UNCHANGED relay /\ Goto("failed")
    /\ UNCHANGED <<upgrade, plist, requests, lockdownd>>

\* relay.connect: a failure stops the relay, whose server has no connection to wait for.
RelayConnects ==
    /\ At("connect")
    /\ \/ /\ relay' = IF stage.made = "user" THEN relay ELSE [relay EXCEPT !.local = "open"]
          /\ upgrade' = [upgrade EXCEPT !.at = "pair"]
          /\ Goto(IF stage.made = "user" THEN "ready" ELSE "securing")
       \/ /\ stage.made = "factory"
          /\ relay' = [relay EXCEPT !.server = "closed"]
          /\ UNCHANGED upgrade /\ Goto("failed")
    /\ UNCHANGED <<plist, requests, lockdownd>>

\* waitForTLSUpgrade: never rejects.
Secured ==
    /\ At("securing") /\ upgrade.at = "done" /\ Goto("ready")
    /\ UNCHANGED <<relay, upgrade, plist, requests, lockdownd>>

-----------------------------------------------------------------------------
(* PlistService.                                                                *)

Waiting(v) == {c \in Task : requests[c].state = "waiting" /\ requests[c].via = v}

\* Mutant: a message that was received stays in the queue.
Peeked(q) == q

\* this._messageQueue.shift().
Shifted(q) == Tail(q)

\* sendAndReceive: over TLS once isTLS. A message that is already there, of whatever
\* request, is taken at once.
Send(c, v) ==
    LET n == lockdownd.serial + 1
        q == plist[v].queue
    IN /\ requests[c].state # "waiting" /\ lockdownd.serial < MaxAsks
       /\ lockdownd' = [lockdownd EXCEPT !.serial = n,
              !.todo = IF lockdownd.up THEN Append(@, [serial |-> n, via |-> v, session |-> c = "upgrade"])
                       ELSE @]
       /\ requests' = [requests EXCEPT ![c] =
              IF q = <<>> THEN [state |-> "waiting", via |-> v, serial |-> n, got |-> 0]
              ELSE [state |-> "received", via |-> v, serial |-> n, got |-> Head(q)]]
       /\ plist' = [plist EXCEPT ![v].queue = IF q = <<>> THEN @ ELSE Shifted(@),
                                 ![v].disturbed = @ \/ Waiting(v) # {}]

\* Mutant: requests go out as they did before the upgrade.
PlainService == "plain"

Current == IF upgrade.isTLS THEN "tls" ELSE "plain"

\* getValue and its callers, of a user that has the service.
GetValue(c) ==
    /\ At("ready") /\ Send(c, Current)
    /\ upgrade' = [upgrade EXCEPT !.crossed = @ \/ upgrade.at \in {"session", "handshake"}]
    /\ UNCHANGED <<relay, stage>>

\* The interval of a receiver finds a message: whose interval is first is chance.
Polls(c) ==
    LET v == requests[c].via IN
    /\ requests[c].state = "waiting" /\ plist[v].queue # <<>>
    /\ requests' = [requests EXCEPT ![c].state = "received", ![c].got = Head(plist[v].queue)]
    /\ plist' = [plist EXCEPT ![v].queue = Shifted(@)]
    /\ UNCHANGED <<relay, stage, upgrade, lockdownd>>

\* A receive times out; its answer, if it comes, stays in the queue.
ReceiveTimesOut(c) ==
    /\ requests[c].state = "waiting"
    /\ requests' = [requests EXCEPT ![c].state = "timedOut"]
    /\ plist' = [plist EXCEPT ![requests[c].via].disturbed = TRUE]
    /\ UNCHANGED <<relay, stage, upgrade, lockdownd>>

\* What the client writes to begin a handshake.
Hello == [serial |-> 0, via |-> "hello", session |-> FALSE]

\* lockdownd reads in order, and answers. Once it has asked for TLS it reads nothing but the
\* beginning of a handshake, then TLS: its answers end the handshake of the client at once.
Answers ==
    /\ lockdownd.up /\ lockdownd.todo # <<>>
    /\ LET r == Head(lockdownd.todo) IN
       IF r.via = (CASE lockdownd.ssl = "off" -> "plain" [] lockdownd.ssl = "asked" -> "hello"
                     [] OTHER -> "tls")
       THEN /\ \E ssl \in IF r.session THEN {"asked", "off"}
                          ELSE IF r = Hello THEN {"on"} ELSE {lockdownd.ssl} :
               lockdownd' = [lockdownd EXCEPT !.todo = Tail(@), !.ssl = ssl]
            /\ plist' = IF r = Hello \/ At("closed") THEN plist
                        ELSE [plist EXCEPT ![r.via].queue = Append(@, r.serial)]
       ELSE lockdownd' = [lockdownd EXCEPT !.todo = <<>>, !.up = FALSE, !.confused = TRUE]
            /\ UNCHANGED plist
    /\ UNCHANGED <<relay, stage, upgrade, requests>>

-----------------------------------------------------------------------------
(* tryUpgradeToTLS.                                                             *)

\* A failure is swallowed: the service goes on in plaintext.
GivesUp == upgrade' = [upgrade EXCEPT !.at = "done"]

ReadPairRecord ==
    /\ upgrade.at = "pair"
    /\ \/ Send("upgrade", "plain") /\ upgrade' = [upgrade EXCEPT !.at = "session"]
       \/ GivesUp /\ UNCHANGED <<plist, requests, lockdownd>>
    /\ UNCHANGED <<relay, stage>>

\* startSession: anything but the answer to StartSession is an error. upgradeSocketToTLS then
\* begins the handshake, whatever users have written to the socket meanwhile, or write yet.
SessionStarted ==
    /\ upgrade.at = "session" /\ requests["upgrade"].state # "waiting"
    /\ IF /\ requests["upgrade"].state = "received"
          /\ requests["upgrade"].got = requests["upgrade"].serial
          /\ lockdownd.ssl = "asked"
       THEN /\ upgrade' = [upgrade EXCEPT !.at = "handshake"]
            /\ lockdownd' = [lockdownd EXCEPT !.todo = IF lockdownd.up THEN Append(@, Hello) ELSE @]
       ELSE GivesUp /\ UNCHANGED lockdownd
    /\ UNCHANGED <<relay, stage, plist, requests>>

\* The handshake is done for the client, or an error of either socket ends it.
Handshake ==
    /\ upgrade.at = "handshake"
    /\ \/ /\ lockdownd.ssl = "on"
          /\ plist' = [plist EXCEPT !["tls"] = NewService]
          /\ upgrade' = [upgrade EXCEPT !.at = "done", !.isTLS = TRUE]
       \/ GivesUp /\ UNCHANGED plist
    /\ UNCHANGED <<relay, stage, requests, lockdownd>>

-----------------------------------------------------------------------------
(* close(): the current plist service ends its socket, the relay server is closed. *)

Close ==
    /\ At("ready") /\ Goto("closed")
    /\ plist' = [plist EXCEPT ![Current].queue = <<>>]
    /\ relay' = [relay EXCEPT !.server = IF @ = "listening" THEN "closing" ELSE @]
    /\ UNCHANGED <<upgrade, requests, lockdownd>>

\* Mutant: the pipe leaves the usbmux socket open ("tunnel remains open").
KeepsUsb == relay.usb

\* localSocket.pipe(usbmuxClient) ends the destination with its source.
EndsUsb == "closed"

\* The end of the local connection passes through the relay, the device's end comes back.
RelayEnds ==
    /\ relay.local = "open" /\ (At("closed") \/ ~lockdownd.up)
    /\ relay' = [relay EXCEPT !.local = "closed", !.usb = EndsUsb]
    /\ lockdownd' = [lockdownd EXCEPT !.up = FALSE, !.todo = <<>>]
    /\ UNCHANGED <<stage, upgrade, plist, requests>>

\* server.close() is done when its connections are.
RelayStopped ==
    /\ relay.server = "closing" /\ relay.local # "open"
    /\ relay' = [relay EXCEPT !.server = "closed"]
    /\ UNCHANGED <<stage, upgrade, plist, requests, lockdownd>>

LdStep == FindDevice \/ RelayDials \/ RelayListens \/ RelayConnects \/ Secured
          \/ ReadPairRecord \/ SessionStarted \/ Handshake \/ RelayEnds \/ RelayStopped

LdNext == LdStep \/ Answers \/ Close \/ (\E c \in Asker : GetValue(c))
          \/ \E c \in Task : Polls(c) \/ ReceiveTimesOut(c)

-----------------------------------------------------------------------------
\* As long as no receive of a plist service overlapped another or timed out, each request
\* gets its own answer; what went wrong before the upgrade does not reach the TLS service.
AnswersInOrder ==
    \A c \in Task : requests[c].state = "received" /\ ~plist[requests[c].via].disturbed
                    => requests[c].got = requests[c].serial

\* A session that was upgraded is never sent what the device cannot read, plaintext after it
\* asked for TLS or TLS before it, unless a user wrote in clear while the upgrade was under way;
\* and the users of a service that createByUDID made cannot, who get it after the upgrade.
SecuredTalksTls == upgrade.isTLS /\ lockdownd.confused => upgrade.crossed /\ stage.made = "user"

\* close() leaves nothing behind: neither the relay's server nor its usbmux connection.
Released == relay.server # "listening" /\ relay.server # "closing" /\ relay.usb # "open"
CloseReleases == At("closed") ~> Released

\* "Clean up relay on error": a factory that failed holds no connection to the device.
FailureReleases == At("failed") => relay.usb # "open"
=============================================================================
