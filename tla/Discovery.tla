------------------------------ MODULE Discovery ------------------------------
(* What discoverServices (tunnel-rsd-discovery.ts) promises the callers that   *)
(* ask for the services of one UDID, and what TunnelLifecycle assumes of it:    *)
(* calls coalesce into one discovery, all of its callers get the same outcome   *)
(* at the same moment, and once the catalog was read only the close of the      *)
(* connection separates them from success.                                     *)
CONSTANTS Caller

VARIABLES
    phase,    \* none, connecting or closing
    waiting,  \* callers awaiting the discovery
    outcome   \* of the last call of each caller: none, ok or failed

discoveryVars == <<phase, waiting, outcome>>

Init ==
    /\ phase = "none"
    /\ waiting = {}
    /\ outcome = [c \in Caller |-> "none"]

\* A call starts a discovery or joins the one in flight.
Join(c) ==
    /\ c \notin waiting
    /\ phase' = IF phase = "none" THEN "connecting" ELSE phase
    /\ waiting' = waiting \cup {c}
    /\ outcome' = [outcome EXCEPT ![c] = "none"]

CatalogRead ==
    /\ phase = "connecting"
    /\ phase' = "closing"
    /\ UNCHANGED <<waiting, outcome>>

End(result) ==
    /\ phase' = "none"
    /\ waiting' = {}
    /\ outcome' = [c \in Caller |-> IF c \in waiting THEN result ELSE outcome[c]]

Succeed == phase = "closing" /\ End("ok")

Fail == phase = "connecting" /\ End("failed")

Next == (\E c \in Caller : Join(c)) \/ CatalogRead \/ Succeed \/ Fail

Spec == Init /\ [][Next]_discoveryVars
=============================================================================
