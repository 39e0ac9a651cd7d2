-------------------------------- MODULE AppleTv --------------------------------
(* The host's side of Apple TV remote pairing (lib/apple-tv): one connection of a    *)
(* NetworkClient carries either Pair-Setup (PairingProtocol) or, once per pair       *)
(* record until one works, Pair-Verify and the creation of a tunnel                  *)
(* (AppleTVTunnelService), while macOS' remoted is suspended.                         *)
EXTENDS Naturals, Sequences

CONSTANTS
    Attempts,   \* devices times pair records that startTunnel may try
    MaxCalls    \* bound: calls of startTunnel on one service

VARIABLES
    flow,     \* which of the two services, its stage, sequence numbers and result
    client,   \* NetworkClient: the socket, a pending receive and its timer
    tv,       \* the Apple TV: what it has seen on this connection and concluded
    remoted   \* the daemon and RemotedController.suspendedPid

tvVars == <<flow, client, tv, remoted>>

\* The requests that are answered, in order: PairVerificationProtocol.verify and a listener,
\* and executePairingFlow.
TunnelScript == <<"handshake", "state1", "state3", "listener">>
PairingScript == <<"handshake", "verify", "setup", "proof", "exchange">>
Script(kind) == IF kind = "tunnel" THEN TunnelScript ELSE PairingScript

NewClient == [socket |-> "none", receiving |-> FALSE, timer |-> FALSE, heard |-> "nothing"]
NewTv == [seen |-> 0, asked |-> "none", gap |-> FALSE, proof |-> "none", paired |-> FALSE]

TvInit ==
    /\ flow \in [kind : {"tunnel", "pairing"}, stage : {"idle"}, step : {1}, seq : {0},
                 attempt : {0}, calls : {0}, udid : BOOLEAN, result : {"none"}, leaked : {FALSE}]
    /\ client = NewClient /\ tv = NewTv
    /\ remoted = [stopped |-> FALSE, held |-> FALSE]

Stage(s) == flow.stage = s
StepName == Script(flow.kind)[flow.step]

\* cleanup(): the socket goes with its listeners, a pending receive keeps its own timer.
Cleanup == client' = [client EXCEPT !.socket = "none", !.timer = @ /\ client.receiving]

-----------------------------------------------------------------------------
(* startTunnel and pairWithDevice.                                              *)

\* remoted.suspend(): no-op if this service has suspended it, or if there is none to stop.
Suspends == remoted' = [stopped |-> TRUE, held |-> TRUE] \/ UNCHANGED remoted

Begin ==
    /\ Stage("idle") /\ flow.calls < MaxCalls
    /\ flow' = [flow EXCEPT !.stage = "next", !.calls = @ + 1, !.attempt = 0, !.result = "none"]
    /\ IF flow.kind = "pairing" THEN UNCHANGED remoted ELSE Suspends
    /\ UNCHANGED <<client, tv>>

\* Mutant: the numbering goes on from the attempt before.
KeepsNumber == flow.seq

\* this.sequenceNumber = 0: each connection numbers its packets from 0.
FirstNumber == 0

\* attemptDeviceConnection up to connect(); a record that cannot be loaded is skipped.
TryNext ==
    /\ Stage("next") /\ flow.attempt < (IF flow.kind = "tunnel" THEN Attempts ELSE 1)
    /\ \/ /\ flow' = [flow EXCEPT !.stage = "connecting", !.attempt = @ + 1, !.seq = FirstNumber]
          /\ client' = [NewClient EXCEPT !.socket = "connecting", !.timer = TRUE]
          /\ tv' = [NewTv EXCEPT !.paired = tv.paired]
       \/ /\ flow.kind = "tunnel" /\ flow' = [flow EXCEPT !.attempt = @ + 1]
          /\ UNCHANGED <<client, tv>>
    /\ UNCHANGED remoted

\* Mutant: remoted is resumed after a tunnel only.
ResumesOnSuccess(result) == IF result = "tunnel" THEN [stopped |-> FALSE, held |-> FALSE] ELSE remoted

\* remoted.resume() in the finally block: only what this service has suspended.
Resumes(result) == IF remoted.held THEN [stopped |-> FALSE, held |-> FALSE] ELSE remoted

Ends(result) ==
    /\ flow' = [flow EXCEPT !.stage = "idle", !.result = result]
    /\ remoted' = Resumes(result)

Exhausted ==
    /\ Stage("next") /\ flow.attempt >= (IF flow.kind = "tunnel" THEN Attempts ELSE 1)
    /\ Ends("error") /\ UNCHANGED <<client, tv>>

\* A step throws: the socket is destroyed, pairing ends, a tunnel tries the next record.
\* What the step was sent or received before is kept.
Fails == flow' = [flow EXCEPT !.stage = "next", !.step = 1]

Connected ==
    /\ Stage("connecting")
    /\ client.socket = "connecting"
    /\ \/ /\ client' = [client EXCEPT !.socket = "open", !.timer = FALSE]
          /\ flow' = [flow EXCEPT !.stage = "send", !.step = 1]
       \/ Fails /\ client' = NewClient
    /\ UNCHANGED <<tv, remoted>>

-----------------------------------------------------------------------------
(* One exchange: sendPacket, then receiveResponse.                              *)

\* Mutant: a receive waits as long as it takes.
Unarmed == FALSE

\* receiveResponse is guarded by a timer.
Armed == TRUE

\* The sequence number a packet carries, and what becomes of the counter: Pair-Verify and
\* the listener request count in objects of their own, which hand their count back.
Numbers(n) ==
    /\ tv' = [tv EXCEPT !.seen = n + 1, !.gap = @ \/ n # tv.seen, !.asked = StepName]
    /\ flow' = [flow EXCEPT !.stage = "receive", !.seq = n + 1]

Send ==
    /\ Stage("send")
    /\ IF client.socket \notin {"open", "lost"} THEN Fails /\ Cleanup /\ UNCHANGED tv
       ELSE \/ /\ client.socket = "open"
               /\ client' = [client EXCEPT !.receiving = TRUE, !.timer = Armed, !.heard = "nothing"]
               /\ Numbers(flow.seq)
            \/ /\ client.socket = "lost" /\ Fails /\ Cleanup /\ UNCHANGED tv
    /\ UNCHANGED remoted

\* promptForPIN, between M2 and M3.
PinFails ==
    /\ Stage("send") /\ StepName = "proof" /\ Fails /\ Cleanup /\ UNCHANGED <<tv, remoted>>

\* The Apple TV answers: as asked, with an error, or with neither, an answer that proves nothing
\* of whoever sent it. The listener hears one chunk, which settles the receive unless it is but a
\* part of the answer.
Answers(what, chunk) ==
    /\ client.socket = "open" /\ tv.asked # "none"
    /\ tv' = [tv EXCEPT !.asked = "none",
           !.proof = IF tv.asked \in {"proof", "state3"} THEN what ELSE @,
           !.paired = @ \/ (tv.asked = "exchange" /\ what = "ok")]
    /\ client' = IF ~client.receiving \/ client.heard = "part" THEN client
                 ELSE IF chunk = "part" THEN [client EXCEPT !.heard = "part"]
                 ELSE [client EXCEPT !.heard = what, !.receiving = FALSE, !.timer = FALSE]
    /\ UNCHANGED <<flow, remoted>>

\* Mutant: the answer to the proof is not looked at.
AnyProof(what) == TRUE

\* validateSRPProofResponse: M4 may lack its data; its PROOF is not looked at.
ProofAccepts(what) == StepName = "proof" => what # "error"

\* validateSRPResponse: M2.
SetupAccepts(what) == StepName = "setup" => what = "ok"

\* processState2Response wants a key, not the proof that comes with it, and
\* validateState4Response nothing but that there is no error.
VerifyAccepts(what) == StepName \in {"state1", "state3"} => what # "error"

\* createTcpListener: an encrypted answer with a port in it.
ListenerAccepts(what) == StepName = "listener" => what = "ok"

\* The answers to the handshake and to the verification that is meant to fail are not looked
\* at, an error in M6 is no error.
Accepts(what) == ProofAccepts(what) /\ SetupAccepts(what) /\ VerifyAccepts(what) /\ ListenerAccepts(what)

\* The task goes on with the answer. After the verification that is meant to fail,
\* pairVerifyFailed is sent, and nobody waits for an answer to it.
Received ==
    /\ Stage("receive") /\ client.heard \notin {"nothing", "part"}
    /\ LET last == flow.step = Len(Script(flow.kind)) IN
       IF ~Accepts(client.heard) THEN flow' = [flow EXCEPT !.stage = "failing"] /\ UNCHANGED tv
       ELSE IF last THEN flow' = [flow EXCEPT !.stage = "finish"] /\ UNCHANGED tv
       ELSE LET extra == IF StepName = "verify" THEN 1 ELSE 0 IN
            /\ flow' = [flow EXCEPT !.stage = "send", !.step = @ + 1, !.seq = @ + extra]
            /\ tv' = [tv EXCEPT !.seen = @ + extra]
    /\ UNCHANGED <<client, remoted>>

\* The timer of a receive that is still armed rejects it.
ReceiveTimesOut ==
    /\ Stage("receive") /\ client.receiving /\ client.timer
    /\ client' = [client EXCEPT !.receiving = FALSE, !.timer = FALSE]
    /\ flow' = [flow EXCEPT !.stage = "failing"]
    /\ UNCHANGED <<tv, remoted>>

\* catch: disconnect.
Disconnects ==
    /\ Stage("failing") /\ Fails /\ client' = NewClient /\ UNCHANGED <<tv, remoted>>

\* onClose clears the timer of a pending receive.
TimerAfterClose == FALSE

\* The Apple TV closes the connection: no error, so nothing settles a pending receive.
PeerCloses ==
    /\ client.socket = "open"
    /\ client' = [client EXCEPT !.socket = "lost", !.timer = TimerAfterClose]
    /\ UNCHANGED <<flow, tv, remoted>>

\* A reset is an error, which rejects a pending receive.
PeerResets ==
    /\ client.socket = "open"
    /\ IF client.receiving
       THEN /\ client' = [client EXCEPT !.socket = "lost", !.receiving = FALSE, !.timer = FALSE]
            /\ flow' = [flow EXCEPT !.stage = "failing"]
       ELSE /\ client' = [client EXCEPT !.socket = "lost", !.timer = TimerAfterClose]
            /\ UNCHANGED flow
    /\ UNCHANGED <<tv, remoted>>

-----------------------------------------------------------------------------
(* The last steps.                                                              *)

\* processM6Response: the identifier is in what could be decrypted.
IdentifierKnown == client.heard = "ok" /\ flow.udid

\* The credentials are stored under the identifier, or under a fallback of macOS.
StoresPairing ==
    /\ Stage("finish") /\ flow.kind = "pairing"
    /\ Ends("stored") \/ (~IdentifierKnown /\ Ends("error"))
    /\ client' = NewClient /\ UNCHANGED tv

\* The listener is dialled after disconnect; without an identifier for the tunnel the
\* socket is forgotten.
DialsTunnel ==
    /\ Stage("finish") /\ flow.kind = "tunnel"
    /\ client' = NewClient
    /\ \/ flow.udid /\ Ends("tunnel")
       \/ /\ ~flow.udid /\ flow' = [flow EXCEPT !.stage = "next", !.step = 1, !.leaked = TRUE]
          /\ UNCHANGED remoted
       \/ Fails /\ UNCHANGED remoted
    /\ UNCHANGED tv

\* disconnect() of the user at any time; remoted is resumed.
UserDisconnects ==
    /\ flow.kind = "tunnel" /\ ~Stage("idle") /\ client.socket # "none"
    /\ Cleanup
    /\ remoted' = Resumes("none")
    /\ UNCHANGED <<flow, tv>>

HostStep == Begin \/ TryNext \/ Exhausted \/ Connected \/ Send \/ PinFails \/ Received
            \/ ReceiveTimesOut \/ Disconnects \/ StoresPairing \/ DialsTunnel

TvNext ==
    \/ HostStep \/ PeerCloses \/ PeerResets \/ UserDisconnects
    \/ \E what \in {"ok", "unproved", "error"}, chunk \in {"whole", "part"} : Answers(what, chunk)

TvSpec == TvInit /\ [][TvNext]_tvVars /\ WF_tvVars(HostStep)

-----------------------------------------------------------------------------
\* On every connection the Apple TV sees the packets numbered 0, 1, 2, ..., whichever of the
\* three protocol objects sent them and however the attempt before ended.
Numbered == ~tv.gap

\* "Resumed in finally so the daemon never stays suspended after this method returns".
RemotedResumed == Stage("idle") => ~remoted.stopped

\* "Mutual Authentication: Both client and device prove their identities": the keys are
\* exchanged, and a tunnel is asked for, only with a peer that proved itself.
ProofFirst == tv.asked \in {"exchange", "listener"} => tv.proof = "ok"

\* They are only after the peer has answered the proof of the PIN, or of the pair record, on
\* this connection, and with anything but an error.
ErrorStops == tv.asked \in {"exchange", "listener"} => tv.proof \in {"ok", "unproved"}

\* A call that has returned has closed its sockets, but for the one to a listener that was
\* dialled before it was known that the tunnel would have no identifier.
SocketsClosed == Stage("idle") => client.socket = "none" /\ (flow.leaked => ~flow.udid)

\* A call ends: "APPLETV_TIMEOUT: Network operation timeout".
CallEnds == ~Stage("idle") ~> Stage("idle")

\* A receive whose peer closed the connection, or a connect() that the user's disconnect()
\* interrupted: nothing is left to settle it.
Hung ==
    \/ Stage("receive") /\ client.receiving /\ ~client.timer /\ client.socket \in {"lost", "none"}
    \/ Stage("connecting") /\ client.socket = "none"

CallEndsUnlessHung == ~Stage("idle") ~> (Stage("idle") \/ Hung)
=============================================================================
