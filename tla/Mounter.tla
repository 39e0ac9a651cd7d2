-------------------------------- MODULE Mounter --------------------------------
(* MobileImageMounterService (services/ios/mobile-image-mounter): mount(), unmountImage()   *)
(* and lookup() over one cached plist connection. A wait that is given up leaves its answer *)
(* to be read by the request after it; the bytes of an image are not a request, and belong  *)
(* on the wire only when the device has asked for them.                                     *)
EXTENDS Naturals, Sequences

CONSTANTS
    MaxCalls,       \* bound: calls
    MaxTimeouts     \* bound: waits that are given up

VARIABLES
    mounter,    \* the call, the answer it waits for, what it has done, what is left of the bounds
    plists,     \* the connection: requests under way, answers that were not read, its socket
    mounterd    \* the device: what is mounted, what it was sent, what it expects next

mounterVars == <<mounter, plists, mounterd>>

MounterInit ==
    /\ mounter = [call |-> "none", at |-> "idle", fresh |-> FALSE, uploaded |-> FALSE, calls |-> 0, timeouts |-> 0]
    /\ plists = [socket |-> "none", sent |-> <<>>, unread |-> <<>>]
    /\ mounterd \in [mounted : BOOLEAN, personal : BOOLEAN, staged : {FALSE}, receiving : {FALSE}, astray : {FALSE}]

\* isConnectionDestroyed, isNewConnection.
IsNew == plists.socket # "open"

\* connectToMobileImageMounterService and the request: on a new connection the StartService
\* greeting comes first.
Connected(rest, cmd) == IF IsNew THEN [socket |-> "open", sent |-> <<cmd>>, unread |-> <<"greeting">>]
                        ELSE [rest EXCEPT !.sent = Append(@, cmd)]
Requests(m, cmd, rest) ==
    /\ mounter' = [m EXCEPT !.at = cmd, !.fresh = IsNew]
    /\ plists' = Connected(rest, cmd)
    /\ mounterd' = IF IsNew THEN [mounterd EXCEPT !.receiving = FALSE, !.astray = FALSE] ELSE mounterd

Ends(m, outcome) == mounter' = [m EXCEPT !.at = outcome]

\* mount, unmountImage, lookup: a connection that cannot be made counts as a wait given up.
Calls(c) == /\ mounter.at \in {"idle", "ok", "failed"} /\ mounter.calls < MaxCalls
            /\ Requests([mounter EXCEPT !.call = c, !.calls = @ + 1, !.uploaded = FALSE],
                        IF c = "unmount" THEN "unmount" ELSE "lookup", plists)

\* cleanup, closeConnection.
CleansUp == /\ mounter.at \in {"idle", "ok", "failed"} /\ plists.socket # "none"
            /\ plists' = [socket |-> "none", sent |-> <<>>, unread |-> <<>>]
            /\ UNCHANGED <<mounter, mounterd>>

-----------------------------------------------------------------------------
\* What a request makes of an answer: the step after it.
\* lookup filters the signatures for buffers: an answer that has none is an empty list.
IsMounted(a) == a = "images"
\* queryPersonalizationManifest: whatever is not a manifest is MissingManifestError.
HasManifest(a) == a = "manifest"
\* checkIfError, and then the ids are not of use if they are not there.
Identifies(a) == a = "ids"
HasNonce(a) == a = "nonce"
\* Mutant: an answer without an error is taken for the acknowledgement.
AnyAnswer(a) == a # "error"
Acknowledged(a) == a = "ack"
Completed(a) == a = "complete"
\* Mutant: an error that is not one of the known ones is passed over.
Whatever(a) == TRUE
MountsImage(a) == a = "already" \/ Completed(a)
Unmounts(a) == a # "error"

\* The bytes of the image, and the answer to them, are of the connection there is now.
WritesImage(rest) == Requests([mounter EXCEPT !.uploaded = TRUE], "image", rest)

Fails(m, rest) == Ends(m, "failed") /\ plists' = rest /\ UNCHANGED mounterd

\* The files are read, and then the manifest is asked for.
AfterLookup(m, a, rest) ==
    IF m.call = "lookup" \/ IsMounted(a) THEN Ends(m, "ok") /\ plists' = rest /\ UNCHANGED mounterd
    ELSE Requests(m, "manifest", rest) \/ Fails(m, rest)      \* assertIsFile, readFile
Finishes(good, rest) == Ends(mounter, IF good THEN "ok" ELSE "failed") /\ plists' = rest /\ UNCHANGED mounterd

\* getOrRetrieveManifestFromTSS: the ticket of the device, or one of Apple's server for the
\* board and chip of the ids; the server may refuse it, or have no identity for them.
AfterManifest(m, a, rest) == Requests(m, IF HasManifest(a) THEN "bytes" ELSE "ids", rest)
AfterIds(a, rest) == (Identifies(a) /\ Requests(mounter, "nonce", rest)) \/ Fails(mounter, rest)
AfterNonce(a, rest) == (HasNonce(a) /\ Requests(mounter, "bytes", rest)) \/ Fails(mounter, rest)
AfterBytes(a, rest) == IF Acknowledged(a) THEN WritesImage(rest) ELSE Fails(mounter, rest)
AfterUpload(a, rest) == IF Completed(a) THEN Requests(mounter, "mount", rest) ELSE Fails(mounter, rest)

Handles(a, rest) ==
    \/ mounter.at = "lookup" /\ AfterLookup(mounter, a, rest)
    \/ mounter.at = "manifest" /\ AfterManifest(mounter, a, rest)
    \/ mounter.at = "ids" /\ AfterIds(a, rest)
    \/ mounter.at = "nonce" /\ AfterNonce(a, rest)
    \/ mounter.at = "bytes" /\ AfterBytes(a, rest)
    \/ mounter.at = "image" /\ AfterUpload(a, rest)
    \/ mounter.at = "mount" /\ Finishes(MountsImage(a), rest)
    \/ mounter.at = "unmount" /\ Finishes(Unmounts(a), rest)

\* sendRequest: of the first answer of a new connection only the greeting is passed over.
Greeted == mounter.fresh /\ mounter.at # "image" /\ Head(plists.unread) = "greeting"
Receives ==
    /\ plists.unread # <<>>
    /\ LET rest == [plists EXCEPT !.unread = Tail(@)]
       IN IF Greeted THEN mounter' = [mounter EXCEPT !.fresh = FALSE] /\ plists' = rest /\ UNCHANGED mounterd
          ELSE Handles(Head(plists.unread), rest)

\* The timeout of a receive; lookup and the manifest are done without.
GivesUp ==
    /\ mounter.at \notin {"idle", "ok", "failed"} /\ plists.unread = <<>> /\ mounter.timeouts < MaxTimeouts
    /\ LET m == [mounter EXCEPT !.timeouts = @ + 1]
       IN \/ mounter.at = "lookup" /\ mounter.call = "mount" /\ AfterLookup(m, "none", plists)
          \/ mounter.at = "manifest" /\ AfterManifest(m, "error", plists)
          \/ (mounter.at \notin {"lookup", "manifest"} \/ mounter.call = "lookup") /\ Fails(m, plists)

\* The socket is destroyed: the requests under way are lost.
Lost == /\ plists.socket = "open" /\ plists' = [plists EXCEPT !.socket = "destroyed", !.sent = <<>>]
        /\ UNCHANGED <<mounter, mounterd>>

-----------------------------------------------------------------------------
\* mobile_image_mounter of the device: one request after the other. While it receives an image
\* whatever comes is a part of it.
Says(d, a) == mounterd' = d /\ plists' = [plists EXCEPT !.sent = Tail(@), !.unread = Append(@, a)]
Answers ==
    /\ plists.sent # <<>> /\ UNCHANGED mounter
    /\ LET r == Head(plists.sent)
       IN \/ /\ mounterd.receiving /\ r # "image"
             /\ mounterd' = [mounterd EXCEPT !.astray = TRUE] /\ plists' = [plists EXCEPT !.sent = Tail(@)]
          \/ /\ ~mounterd.receiving
             /\ \/ r = "lookup" /\ Says(mounterd, IF mounterd.mounted THEN "images" ELSE "none")
                \/ r = "manifest" /\ Says(mounterd, IF mounterd.personal THEN "manifest" ELSE "error")
                \/ r \in {"ids", "nonce"} /\ Says(mounterd, r)
                \/ r = "bytes" /\ Says([mounterd EXCEPT !.receiving = TRUE], "ack")
                \/ r = "mount" /\ ~mounterd.mounted /\ mounterd.staged /\ Says([mounterd EXCEPT !.mounted = TRUE], "complete")
                \/ r = "mount" /\ mounterd.mounted /\ Says(mounterd, "already")
                \/ r = "unmount" /\ mounterd.mounted /\ Says([mounterd EXCEPT !.mounted = FALSE], "complete")
                \/ r # "image" /\ Says(mounterd, "error")
          \/ r = "image" /\ mounterd.receiving
             /\ Says([mounterd EXCEPT !.receiving = FALSE, !.staged = ~mounterd.astray, !.astray = FALSE], "complete")
          \* Bytes that nobody asked for.
          \/ r = "image" /\ ~mounterd.receiving /\ Says([mounterd EXCEPT !.astray = TRUE], "error")

MounterNext == (\E c \in {"mount", "unmount", "lookup"} : Calls(c)) \/ CleansUp \/ Receives \/ GivesUp \/ Lost \/ Answers
MounterSpec == MounterInit /\ [][MounterNext]_mounterVars

-----------------------------------------------------------------------------
\* The bytes of an image are sent to a device that has asked for them, whatever answers were
\* left by waits that were given up; unless the connection was made anew since.
ImageWhenAsked ==
    mounter.at = "image" /\ ~mounter.fresh =>
    \A i \in 1..Len(plists.sent) : plists.sent[i] = "image" => mounterd.receiving

\* And nothing else is taken for a part of the image: the bytes are next on the wire. It needs
\* that at most one wait was given up: after two, a request sent before the bytes can follow
\* the ReceiveBytes whose acknowledgement was late.
ImageAlone ==
    mounter.at = "image" /\ ~mounter.fresh =>
    ~mounterd.astray /\ \A i \in 1..Len(plists.sent) : plists.sent[i] = "image" => i = 1

\* A mount() that has sent an image and succeeded has mounted one: the answer it took for that
\* of the mount was not a late one of another request.
MountIsReal == mounter.at = "ok" /\ mounter.uploaded => mounterd.mounted

\* An unmountImage() that succeeded has left nothing mounted.
UnmountIsReal == mounter.at = "ok" /\ mounter.call = "unmount" => ~mounterd.mounted
=============================================================================
