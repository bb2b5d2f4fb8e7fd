---------------------------- MODULE SnmpTopology ----------------------------
(***************************************************************************)
(* Which device hangs on which switch (backend/services/snmp.py,           *)
(* build_topology): from the neighbours the SNMP hosts announce (LLDP) and *)
(* from the MAC addresses their ports have seen (FDB).  One step is a      *)
(* reading of all the hosts, whatever they may answer; the next builds the *)
(* links from it.                                                          *)
(*                                                                         *)
(* A device is a number, in the order of its key and of its address; an    *)
(* announcement and a MAC stand for the device they resolve to, and those  *)
(* that resolve to none are left out.                                      *)
(***************************************************************************)
EXTENDS Integers, Sequences, FiniteSets

CONSTANTS
    TpDevices,  \* 1 .. n
    TpHosts,    \* those that answer SNMP
    TpPorts,    \* ports of a host, numbered
    TpLldp,     \* what a host may announce: sequences of [dev, port]
    TpUnseen    \* no port

ASSUME TpDevicesNumbered == IsFiniteSet(TpDevices) /\ TpDevices = 1 .. Cardinality(TpDevices)
ASSUME TpHostsAreDevices == TpHosts \subseteq TpDevices
ASSUME TpNeighbours == TpLldp \subseteq Seq([dev : TpDevices, port : TpPorts])

VARIABLES
    tpLldp,   \* of each host, the neighbours it announces
    tpFdb,    \* of each host, the port on which it has seen each device
    tpAt,     \* "unread", "read" or "built"
    tpLinks   \* snapshot["topology"]

tpVars == <<tpLldp, tpFdb, tpAt, tpLinks>>

-----------------------------------------------------------------------------
Link(dev, via, port, source) ==
    [device |-> dev, via |-> via, port |-> port, source |-> source]

\* The announcements: of each host, the places of its list that are about another.
Announcements ==
    {p \in UNION {{h} \X DOMAIN tpLldp[h] : h \in TpHosts} : tpLldp[p[1]][p[2]].dev # p[1]}

Announced(p) == Link(tpLldp[p[1]][p[2]].dev, p[1], tpLldp[p[1]][p[2]].port, "lldp")

\* In the order of the hosts, and of each host's list.
Earlier(p, q) == p[1] < q[1] \/ (p[1] = q[1] /\ p[2] < q[2])

\* The first that announces each device is its link.
LldpLinks ==
    {Announced(p) : p \in {p \in Announcements :
        \A q \in Announcements :
            Announced(q).device = Announced(p).device => ~ Earlier(q, p)}}

\* A port towards another host of ours sees all that is beyond it.
Uplink(h, port) ==
    \E i \in DOMAIN tpLldp[h] :
        /\ tpLldp[h][i].port = port
        /\ tpLldp[h][i].dev \in TpHosts \ {h}

\* conta: how many devices the port has seen.
Crowd(h, port) == Cardinality({d \in TpDevices : tpFdb[h][d] = port})

Sees(h, dev) ==
    /\ tpFdb[h][dev] # TpUnseen
    /\ dev # h
    /\ ~ Uplink(h, tpFdb[h][dev])

\* Among the hosts that see a device, that on whose port fewest are seen is the nearest;
\* of equals the first.
Nearest(h, dev) ==
    /\ Sees(h, dev)
    /\ \A other \in TpHosts : Sees(other, dev) =>
        LET here == Crowd(h, tpFdb[h][dev])
            there == Crowd(other, tpFdb[other][dev]) IN
        here < there \/ (here = there /\ h <= other)

FdbLinks ==
    LET placed == {l.device : l \in LldpLinks}
        seen == {p \in (TpDevices \ placed) \X TpHosts : Nearest(p[2], p[1])} IN
    {Link(p[1], p[2], tpFdb[p[2]][p[1]], "fdb") : p \in seen}

\* padre: what a device hangs on.
Parent(kept, d) == {l.via : l \in {l \in kept : l.device = d}}

\* Slip: only the next device up is looked at.
RingsNext(kept, link) == Parent(kept, link.via) = {link.device}

\* A link that would close a ring: going up from `via`, the device itself is met.
Rings(kept, link) ==
    \A met \in SUBSET TpDevices :
        /\ link.via \in met
        /\ \A d \in met : Parent(kept, d) \subseteq met
        => link.device \in met

\* LLDP first, then by device.
Turn(k) ==
    LET n == Cardinality(TpDevices) IN
    IF k <= n THEN {l \in LldpLinks : l.device = k} ELSE {l \in FdbLinks : l.device = k - n}

\* Each link is kept unless it closes a ring with those kept.
BuildTopology ==
    LET Kept[k \in 0 .. 2 * Cardinality(TpDevices)] ==
            IF k = 0 THEN {}
            ELSE Kept[k - 1] \cup {l \in Turn(k) : ~ Rings(Kept[k - 1], l)}
    IN  Kept[2 * Cardinality(TpDevices)]

-----------------------------------------------------------------------------
TpInit ==
    /\ tpLldp = [h \in TpHosts |-> <<>>]
    /\ tpFdb = [h \in TpHosts |-> [d \in TpDevices |-> TpUnseen]]
    /\ tpAt = "unread"
    /\ tpLinks = {}

\* read_topology of every host, in the discovery; a host leaves its own MAC out.
ReadTopology ==
    /\ tpAt = "unread"
    /\ tpAt' = "read"
    /\ tpLldp' \in [TpHosts -> TpLldp]
    /\ tpFdb' \in [TpHosts -> [TpDevices -> TpPorts \cup {TpUnseen}]]
    /\ \A h \in TpHosts : tpFdb'[h][h] = TpUnseen
    /\ UNCHANGED tpLinks

\* The collector builds the links from what has been read last.
BuildLinks ==
    /\ tpAt = "read"
    /\ tpAt' = "built"
    /\ tpLinks' = BuildTopology
    /\ UNCHANGED <<tpLldp, tpFdb>>

TpNext == ReadTopology \/ BuildLinks

TpSpec == TpInit /\ [][TpNext]_tpVars

-----------------------------------------------------------------------------
\* No set of devices hang all on one another.
Forest(links) ==
    \A ds \in (SUBSET TpDevices) \ {{}} :
        \E d \in ds : \A l \in links : l.device = d => l.via \notin ds

TpTypeOK ==
    /\ tpFdb \in [TpHosts -> [TpDevices -> TpPorts \cup {TpUnseen}]]
    /\ tpAt \in {"unread", "read", "built"}
    /\ tpLinks \subseteq [device : TpDevices, via : TpHosts, port : TpPorts,
                          source : {"lldp", "fdb"}]

\* Whatever the hosts announce and have seen, contradictions included, the links make a
\* forest: a device hangs on one other at most and never, however far up, on itself; one
\* that announces itself is never placed by where its MAC was seen; and a device that was
\* seen is left out only where its link would have closed a ring.  (build_topology:
\* "nessun ciclo", "LLDP vince sull'FDB".)
TopologyForest ==
    tpAt = "built" =>
        /\ Forest(tpLinks)
        /\ \A a, b \in tpLinks : a.device = b.device => a = b
        /\ \A a \in tpLinks, b \in LldpLinks : a.device = b.device => a.source = "lldp"
        /\ \A a \in (LldpLinks \cup FdbLinks) \ tpLinks : ~ Forest(tpLinks \cup {a})
=============================================================================
