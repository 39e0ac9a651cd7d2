--------------------------- MODULE InstallationProxy ---------------------------
(* InstallationProxyService (services/ios/installation-proxy): browse, lookup, install and  *)
(* its kind, one after the other on one cached connection. The answers of browse and        *)
(* install come in parts, and nothing in an answer says which request it is of.             *)
EXTENDS Naturals, Sequences, SequencesExt

CONSTANTS
    Parts,          \* the list of the device, as it is cut into answers
    MaxRequests     \* bound: calls

VARIABLES
    installer,  \* the call, where it is, what it collected; gaveUp: answers may be left over
    answered,   \* answers that were not read: <<request, kind, list>>
    proxied     \* the device: requests under way, the part each is at; what it installed

proxyVars == <<installer, answered, proxied>>
Op == {"browse", "lookup", "install"}

ProxyInit ==
    /\ installer = [op |-> "none", at |-> "idle", id |-> 0, result |-> <<>>, connected |-> FALSE, gaveUp |-> FALSE]
    /\ answered = <<>>
    /\ proxied = [owed |-> FALSE, requests |-> <<>>, part |-> 0, installed |-> {}]

Ended == installer.at \in {"idle", "ok", "failed"}
Request(op, id) == [op |-> op, id |-> id]

\* browse, lookup, install, uninstall, upgrade. The connection is kept before its greeting
\* is read.
Asks(op) ==
    /\ Ended /\ installer.id < MaxRequests
    /\ LET next == [installer EXCEPT !.op = op, !.id = @ + 1, !.result = <<>>, !.connected = TRUE]
       IN IF installer.connected
          THEN installer' = [next EXCEPT !.at = "answer"] /\ proxied' = [proxied EXCEPT !.requests = Append(@, Request(op, next.id))]
          ELSE installer' = [next EXCEPT !.at = "greeting"] /\ proxied' = [proxied EXCEPT !.owed = TRUE]
    /\ UNCHANGED answered

\* getConnection: then the request is sent.
Greeted == /\ installer.at = "greeting" /\ answered # <<>>
           /\ answered' = Tail(answered)
           /\ installer' = [installer EXCEPT !.at = "answer"]
           /\ proxied' = [proxied EXCEPT !.requests = Append(@, Request(installer.op, installer.id))]

Kind(m) == m[2]
\* checkForError.
IsError(m) == Kind(m) = "error"
Collected(m) == m[3]
\* Mutant: all of it is done at a hundred percent.
AtHundred(m) == Kind(m) \in {"complete", "hundred"}
IsComplete(m) == Kind(m) = "complete"

\* One answer: lookup takes the first, the others go on to Status Complete.
Reads ==
    /\ installer.at = "answer" /\ answered # <<>>
    /\ answered' = Tail(answered)
    /\ LET m == Head(answered)
           more == [installer EXCEPT !.result = IF installer.op = "browse" THEN @ \o Collected(m) ELSE @]
       IN \/ IsError(m) /\ installer' = [installer EXCEPT !.at = "failed"]
          \/ ~IsError(m) /\ installer.op = "lookup" /\ installer' = [installer EXCEPT !.at = "ok", !.result = m[3]]
          \/ ~IsError(m) /\ installer.op # "lookup" /\ installer' = [more EXCEPT !.at = IF IsComplete(m) THEN "ok" ELSE "answer"]
          \* progressCallback throws.
          \/ Kind(m) \in {"progress", "hundred"} /\ installer.op = "install"
             /\ installer' = [installer EXCEPT !.at = "failed", !.gaveUp = TRUE]
    /\ UNCHANGED proxied

\* The timeout of a receive, and the duration of an operation, looked at between two of them.
GivesUp == /\ installer.at \in {"greeting", "answer"}
           /\ answered = <<>> \/ (installer.at = "answer" /\ installer.op # "lookup")
           /\ installer' = [installer EXCEPT !.at = "failed", !.gaveUp = TRUE]
           /\ UNCHANGED <<answered, proxied>>

\* close; the next call starts the service anew.
Closes == /\ Ended /\ installer.connected
          /\ installer' = [installer EXCEPT !.at = "idle", !.connected = FALSE, !.gaveUp = FALSE]
          /\ answered' = <<>> /\ proxied' = [proxied EXCEPT !.owed = FALSE, !.requests = <<>>, !.part = 0]

-----------------------------------------------------------------------------
\* installation_proxy of the device greets, when the wait for it was given up too.
Greets == /\ proxied.owed /\ proxied' = [proxied EXCEPT !.owed = FALSE]
          /\ answered' = Append(answered, <<0, "greeting", <<>>>>) /\ UNCHANGED installer

\* One request after the other; its last answer is Complete,
\* or an error; the last of browse may have a list.
Served(m, more) == /\ answered' = Append(answered, m)
                   /\ proxied' = [more EXCEPT !.requests = IF Kind(m) \in {"complete", "error", "result"} THEN Tail(@) ELSE @,
                                              !.part = IF Kind(m) \in {"complete", "error", "result"} THEN 0 ELSE @ + 1]
                   /\ UNCHANGED installer
Serves ==
    /\ ~proxied.owed /\ proxied.requests # <<>>
    /\ LET r == Head(proxied.requests)  p == proxied.part
       IN \/ Served(<<r.id, "error", <<>>>>, proxied)
          \/ r.op = "lookup" /\ Served(<<r.id, "result", <<r.id>>>>, proxied)
          \/ r.op = "browse" /\ p < Len(Parts)
             /\ Served(<<r.id, IF p = Len(Parts) - 1 THEN "complete" ELSE "part", Parts[p + 1]>>, proxied)
          \/ r.op = "install" /\ p < 2 /\ Served(<<r.id, IF p = 0 THEN "progress" ELSE "hundred", <<>>>>, proxied)
          \/ r.op = "install" /\ p = 2
             /\ Served(<<r.id, "complete", <<>>>>, [proxied EXCEPT !.installed = @ \cup {r.id}])

ProxyNext == (\E op \in Op : Asks(op)) \/ Greets \/ Greeted \/ Reads \/ GivesUp \/ Closes \/ Serves
ProxySpec == ProxyInit /\ [][ProxyNext]_proxyVars

-----------------------------------------------------------------------------
\* Where no earlier wait on the connection was given up, a call gets the answers to its own
\* request, all of them: browse the whole list of the device, in order, lookup what was
\* looked up; and an install that has succeeded was carried out.
AnswersWhole ==
    installer.at = "ok" /\ ~installer.gaveUp =>
        /\ installer.op = "browse" => installer.result = FlattenSeq(Parts)
        /\ installer.op = "lookup" => installer.result = <<installer.id>>
        /\ installer.op = "install" => installer.id \in proxied.installed
=============================================================================
