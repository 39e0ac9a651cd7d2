-------------------------------- MODULE Usbmux --------------------------------
(* A Usbmux client (lib/usbmux/index.ts): requests carry tags and may be answered   *)
(* late, out of order or never; a Connect that succeeds turns the very socket the   *)
(* answers came on into the byte stream of a device port, which its caller owns.    *)
EXTENDS Naturals, Sequences

CONSTANTS
    Client,       \* tasks that share the client
    None,         \* no task
    MaxRequests,  \* bound: requests on one client
    HighWater,    \* chunks a stream nobody reads takes before it stalls its source
    MaxBytes      \* bound: what the device port sends

VARIABLES
    mux,      \* the client: next tag, callbacks by tag, who consumes the socket
    asks,     \* per task: its request and what it resolved with
    usbmuxd,  \* the daemon: requests to answer, and the device port once connected
    inbound   \* what the socket holds for the host

muxVars == <<mux, asks, usbmuxd, inbound>>

Kinds == {"list", "connect"}
Tags == 0 .. MaxRequests - 1

MuxInit ==
    /\ mux = [tag |-> 0, callbacks |-> [t \in Tags |-> None], attached |-> TRUE,
              unread |-> 0, owner |-> None, received |-> 0, swallowed |-> 0, open |-> TRUE]
    /\ asks = [c \in Client |-> [state |-> "idle", tag |-> 0, kind |-> "none", serial |-> 0,
                                 got |-> 0]]
    /\ usbmuxd = [requests |-> {}, serial |-> 0, connected |-> FALSE, sent |-> 0]
    /\ inbound = <<>>

\* Mutant: a tag is free again once its request has timed out.
FirstFreeTag == CHOOSE t \in Tags : mux.callbacks[t] = None

\* _receivePlistPromise: this._tag++.
NextTag == mux.tag

\* UsbmuxEncoder: the tag travels in the header of the message.
Encoded(tag, kind) == [tag |-> tag, kind |-> kind, serial |-> usbmuxd.serial]

\* readBUID, readPairRecord, listDevices ("list") and connect. What is sent once the
\* encoder is detached reaches nobody.
Request(c, kind) ==
    /\ asks[c].state # "waiting" /\ usbmuxd.serial < MaxRequests /\ mux.open
    /\ asks' = [asks EXCEPT ![c] = [state |-> "waiting", tag |-> NextTag, kind |-> kind,
                                    serial |-> usbmuxd.serial, got |-> 0]]
    /\ mux' = [mux EXCEPT !.tag = @ + 1, !.callbacks[NextTag] = c]
    /\ usbmuxd' = [usbmuxd EXCEPT
           !.serial = @ + 1,
           !.requests = IF mux.attached /\ ~usbmuxd.connected
                        THEN @ \cup {Encoded(NextTag, kind)}
                        ELSE @]
    /\ UNCHANGED inbound

Forget(m, tag) == [m EXCEPT !.callbacks[tag] = None]

\* The timer rejects the promise and the finally block deletes the callback.
TimesOut(c) ==
    /\ asks[c].state = "waiting"
    /\ asks' = [asks EXCEPT ![c].state = "timedOut"]
    /\ mux' = Forget(mux, asks[c].tag)
    /\ UNCHANGED <<usbmuxd, inbound>>

\* The daemon answers whichever request it is done with; a Connect that succeeds ends the
\* protocol on this socket.
Answers(r, ok) ==
    /\ mux.open /\ ~usbmuxd.connected
    /\ ok = "refused" => r.kind = "connect"
    /\ LET connects == r.kind = "connect" /\ ok = "ok" IN
       usbmuxd' = [usbmuxd EXCEPT !.requests = IF connects THEN {} ELSE @ \ {r},
                                  !.connected = connects]
    /\ inbound' = Append(inbound, [kind |-> r.kind, tag |-> r.tag, serial |-> r.serial, ok |-> ok])
    /\ UNCHANGED <<mux, asks>>

\* The port of the device speaks.
DeviceSends ==
    /\ usbmuxd.connected /\ mux.open /\ usbmuxd.sent < MaxBytes
    /\ usbmuxd' = [usbmuxd EXCEPT !.sent = @ + 1]
    /\ inbound' = Append(inbound, [kind |-> "data", n |-> usbmuxd.sent])
    /\ UNCHANGED <<mux, asks>>

\* Mutant: the splitter is left piped to the socket.
StaysAttached(m, c) == [m EXCEPT !.owner = c]

\* connect: the splitter, the decoder and the encoder are unpiped, in this order, before
\* the caller has the socket.
Detach(m, c) == [m EXCEPT !.owner = c, !.attached = FALSE]

\* _handleData: a callback by tag, or nobody. Bytes that follow the result of a Connect in
\* its chunk stay in the decoder.
HandleData(s, item) ==
    IF item.kind = "data" \/ ~s.mux.attached
    THEN [s EXCEPT !.mux.swallowed = @ + (IF item.kind = "data" THEN 1 ELSE 0)]
    ELSE LET c == s.mux.callbacks[item.tag] IN
         IF c = None THEN s
         ELSE [asks |-> [s.asks EXCEPT ![c].got = item.serial,
                                       ![c].state = IF item.ok = "ok" THEN "resolved" ELSE "rejected"],
               mux |-> LET m == Forget(s.mux, item.tag) IN
                       IF item.kind = "connect" /\ item.ok = "ok" THEN Detach(m, c) ELSE m]

\* The items of a chunk, one after the other.
HandleChunk(n) ==
    LET after[i \in 0 .. n] == IF i = 0 THEN [asks |-> asks, mux |-> mux]
                               ELSE HandleData(after[i - 1], inbound[i])
    IN after[n]

Stalled == mux.attached /\ mux.unread >= HighWater

\* A chunk reaches the decoder, and the splitter, whose output nobody reads: once that is
\* full, the socket is read no more.
ReadsChunk(n) ==
    /\ mux.open /\ mux.owner = None /\ ~Stalled /\ n \in 1 .. Len(inbound)
    /\ LET after == HandleChunk(n) IN
       asks' = after.asks /\ mux' = [after.mux EXCEPT !.unread = @ + 1]
    /\ inbound' = SubSeq(inbound, n + 1, Len(inbound))
    /\ UNCHANGED usbmuxd

\* The caller of connect reads the socket it was given; whatever is still attached to it
\* reads along.
OwnerReads ==
    /\ mux.open /\ mux.owner # None /\ ~Stalled /\ inbound # <<>>
    /\ mux' = [mux EXCEPT !.received = @ + 1, !.unread = IF mux.attached THEN @ + 1 ELSE @]
    /\ inbound' = Tail(inbound)
    /\ UNCHANGED <<asks, usbmuxd>>

\* close(): by a task whose request failed, or the owner of the stream.
Closes(c) ==
    /\ mux.open /\ asks[c].state \in {"timedOut", "rejected", "resolved"}
    /\ mux.owner \in {None, c}
    /\ mux' = [mux EXCEPT !.open = FALSE]
    /\ UNCHANGED <<asks, usbmuxd, inbound>>

MuxNext ==
    \/ DeviceSends \/ OwnerReads
    \/ \E n \in 1 .. Len(inbound) : ReadsChunk(n)
    \/ \E r \in usbmuxd.requests, ok \in {"ok", "refused"} : Answers(r, ok)
    \/ \E c \in Client : TimesOut(c) \/ Closes(c) \/ \E kind \in Kinds : Request(c, kind)

-----------------------------------------------------------------------------
\* A call resolves with the answer to its own request, however late answers come and
\* whatever was asked and given up before it.
AnswersMatch == \A c \in Client : asks[c].state \in {"resolved", "rejected"} => asks[c].got = asks[c].serial

\* "so the caller gets full byte-stream ownership": the owner of a connection gets all that
\* was not in the chunk of the answer, in any amount, and the socket never stalls on it.
OwnerHasStream ==
    mux.owner # None => /\ mux.received + mux.swallowed + Len(inbound) = usbmuxd.sent
                        /\ ~Stalled
=============================================================================
