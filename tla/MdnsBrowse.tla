------------------------------ MODULE MdnsBrowse ------------------------------
(* Discovery of devices by multicast DNS (discovery/mdns-browser, mdns-protocol, the        *)
(* discovery backend): one browse at a time, which all callers share, listens for a time    *)
(* to datagrams that come in any order, twice, cut short or not at all, and puts their      *)
(* records together in the end.                                                             *)
EXTENDS Naturals, Sequences, SequencesExt

CONSTANTS
    Packet,         \* the datagrams that can come: sequences of records
    Instance,       \* DNS-SD instances
    Host,           \* host names
    MaxCalls,       \* bound: calls
    MaxHeard        \* bound: datagrams that are heard, some of them twice

VARIABLES
    browser,    \* the phase and the maps of browseMdnsService
    heard,      \* the records of the datagrams that could be parsed
    discovery   \* who awaits the discovery in flight, and what the last ones got

mdnsVars == <<browser, heard, discovery>>
Caller == {"a", "b"}
Nothing == [ptr |-> {}, srv |-> [i \in Instance |-> <<>>], txt |-> [i \in Instance |-> "none"], addr |-> [h \in Host |-> <<>>]]

MdnsInit == /\ browser = [at |-> "idle", maps |-> Nothing, sockets |-> {}, count |-> 0]
            /\ heard = {}
            /\ discovery = [waiting |-> {}, got |-> [c \in Caller |-> {"none"}], calls |-> 0]

\* discoverDevices: a call while one is in flight awaits that one.
Discovers(c) == /\ c \notin discovery.waiting /\ discovery.calls < MaxCalls
                /\ discovery' = [discovery EXCEPT !.waiting = @ \cup {c}, !.calls = @ + 1]
                /\ browser' = IF discovery.waiting = {} THEN [browser EXCEPT !.at = "opening", !.maps = Nothing] ELSE browser
                /\ heard' = IF discovery.waiting = {} THEN {} ELSE heard

\* Everyone who waits gets the same, at the same moment.
Settles(result) == discovery' = [waiting |-> {}, calls |-> discovery.calls,
                                 got |-> [c \in Caller |-> IF c \in discovery.waiting THEN result ELSE discovery.got[c]]]

\* openMdnsSockets: either family will do; the query is sent by IPv4 only.
Opens == /\ browser.at = "opening"
         /\ \/ \E s \in SUBSET {"ipv4", "ipv6"} \ {{}} :
                 browser' = [browser EXCEPT !.at = "listening", !.sockets = s] /\ UNCHANGED discovery
            \/ browser' = [browser EXCEPT !.at = "idle"] /\ Settles({"failed"})
         /\ UNCHANGED heard

\* addSrvEntry, recordAddress: what is there already is not added.
Added(seq, x) == IF \E k \in 1..Len(seq) : seq[k] = x THEN seq ELSE Append(seq, x)

\* One record; answers, authorities and additional records are treated alike.
Entered(m, r) == CASE r.type = "PTR" -> [m EXCEPT !.ptr = @ \cup {r.of}]
                   [] r.type = "SRV" -> [m EXCEPT !.srv[r.of] = Added(@, r.val)]
                   [] r.type = "TXT" -> [m EXCEPT !.txt[r.of] = r.val]
                   [] r.type \in {"A", "AAAA"} -> [m EXCEPT !.addr[r.of] = Added(@, r.val)]
\* Mutant: what belongs to an instance that was not announced yet is passed over.
OnlyAnnounced(m, r) == IF r.type = "SRV" /\ r.of \notin m.ptr THEN m ELSE Entered(m, r)
Noted(m, r) == Entered(m, r)
NotedAll(m, rs) ==
    LET after[n \in 0..Len(rs)] == IF n = 0 THEN m ELSE Noted(after[n - 1], rs[n])
    IN after[Len(rs)]

\* A datagram is parsed as a whole before any of its records is noted: one with a record that
\* is cut short, or a name that cannot be decoded, has none.
Records(p, cut) == IF cut THEN <<>> ELSE p
Hears == /\ browser.at = "listening" /\ browser.count < MaxHeard
         /\ \E p \in Packet : \E cut \in BOOLEAN :
               /\ browser' = [browser EXCEPT !.count = @ + 1, !.maps = NotedAll(@, Records(p, cut))]
               /\ heard' = heard \cup ToSet(Records(p, cut))
         /\ UNCHANGED discovery

-----------------------------------------------------------------------------
\* instanceToDevice: IPv4 is preferred, the first of its kind; where none is known, the
\* resolver of the host has the say.
OfKind(as, kind) == {k \in DOMAIN as : as[k][1] = kind}
Preferred(as) == IF OfKind(as, "v4") # {} THEN as[CHOOSE k \in OfKind(as, "v4") : \A l \in OfKind(as, "v4") : k <= l]
                 ELSE IF as = <<>> THEN <<"lookup", "">> ELSE as[1]

Device(m, i, srv) == [id |-> IF m.txt[i] = "none" THEN i ELSE m.txt[i], host |-> srv[1], port |-> srv[2], ip |-> Preferred(m.addr[srv[1]])]

\* A service record whose target is the root, or whose port is 0, is of a service that is not
\* there: it is no device. Neither is an instance without a service record.
Root == "."
Usable(srv) == srv[1] # Root /\ srv[2] # 0

\* Of several with one identifier, host and port there is one in the list.
Devices(m) == UNION {{Device(m, i, m.srv[i][k]) : k \in {l \in DOMAIN m.srv[i] : Usable(m.srv[i][l])}} : i \in m.ptr}

\* The time of the browse is over; the sockets are closed.
Ends == /\ browser.at = "listening"
        /\ browser' = [browser EXCEPT !.at = "idle", !.sockets = {}]
        /\ Settles(Devices(browser.maps))
        /\ UNCHANGED heard

MdnsNext == (\E c \in Caller : Discovers(c)) \/ Opens \/ Hears \/ Ends
MdnsSpec == MdnsInit /\ [][MdnsNext]_mdnsVars

-----------------------------------------------------------------------------
Has(type, of, val) == [type |-> type, of |-> of, val |-> val] \in heard

\* Whatever order the datagrams came in, and how often, what a discovery returns has each
\* instance that was announced with every service record that was heard for it and names a host
\* and a port, under an IPv4 address if one was heard for that host; and nothing else.
DiscoveryExact ==
    browser.at = "listening" =>
        LET ds == Devices(browser.maps)
            known == {r \in heard : r.type = "SRV" /\ Usable(r.val) /\ Has("PTR", r.of, "")}
        IN /\ {<<d.host, d.port>> : d \in ds} = {r.val : r \in known}
           /\ \A d \in ds : d.ip \in IF \E r \in heard : r.type = "A" /\ r.of = d.host
                                     THEN {r.val : r \in {s \in heard : s.type = "A" /\ s.of = d.host}}
                                     ELSE {r.val : r \in {s \in heard : s.type = "AAAA" /\ s.of = d.host}} \cup {<<"lookup", "">>}
=============================================================================
