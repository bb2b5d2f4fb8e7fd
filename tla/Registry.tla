------------------------------- MODULE Registry -------------------------------
(***************************************************************************)
(* What a scan makes of the devices it finds: the registry                 *)
(* (backend/services/registry.py), the catalogue laid over it, what is     *)
(* carried over from the scan before (backend/services/scanner.py) and     *)
(* what each provider writes (backend/services/discovery.py).              *)
(*                                                                         *)
(* A datum is the address it is about: the host name read at an address,   *)
(* the ports open there, the SNMP summary it gave; the name the catalogue  *)
(* gives is the identity of its entry.  A network card may answer for two  *)
(* addresses, so two observations may have the same MAC.                   *)
(*                                                                         *)
(* DeviceScan says when a registry is put in place and shown; here is what *)
(* is in it.                                                               *)
(***************************************************************************)
EXTENDS Naturals, Sequences, FiniteSets

CONSTANTS
    RgIps,          \* addresses
    RgMacs,         \* MAC addresses on the wire
    RgNone,         \* no address, no datum
    RgCatalogues,   \* the contents devices.yaml may have: sequences of [ip, mac]
    RgMuted         \* addresses that never answer SNMP: always excluded, or without an agent

ASSUME RgKeysApart == RgNone \notin RgIps \cup RgMacs /\ RgIps \cap RgMacs = {}
ASSUME RgIpsFinite == IsFiniteSet(RgIps)

\* An entry of the catalogue has an address, or a MAC, or both.
RgEntry == {e \in [ip : RgIps \cup {RgNone}, mac : RgMacs \cup {RgNone}] :
                e.ip # RgNone \/ e.mac # RgNone}

ASSUME RgCataloguesOfEntries == RgCatalogues \subseteq Seq(RgEntry)

VARIABLES
    rgCatalogue,    \* the entries of the device store, in order
    rgPhase,        \* what _scan is doing; "idle" when none runs
    rgNew,          \* the registry of the scan, until it is put in place
    rgCache,        \* _registry
    rgOnline,       \* the addresses that have answered the ping of this scan
    rgAnswered      \* history: who answered SNMP the last time the provider went through

rgVars == <<rgCatalogue, rgPhase, rgNew, rgCache, rgOnline, rgAnswered>>

\* A registry: the devices in order of arrival, _by_ip and _by_mac (0: not there).
EmptyRegistry == [devs |-> <<>>, ip |-> [a \in RgIps |-> 0], mac |-> [m \in RgMacs |-> 0]]

-----------------------------------------------------------------------------
(***************************************************************************)
(* Device and DeviceRegistry.                                              *)
(***************************************************************************)

Unknown(m) == [mac |-> m, ips |-> {}, host |-> RgNone, name |-> RgNone,
               ports |-> {}, snmp |-> RgNone]

\* The key of the device: its address, the MAC of one without an address.
Keys(d) == IF d.ips # {} THEN d.ips ELSE {d.mac}

\* What an observation leaves on the device at place k, a new one past the end.
Settled(r, k, m, a, h) ==
    LET old == IF k > Len(r.devs) THEN Unknown(m) ELSE r.devs[k]
        dev == [old EXCEPT !.mac = IF @ = RgNone THEN m ELSE @,
                           !.ips = @ \cup ({a} \ {RgNone}),
                           !.host = IF @ = RgNone THEN h ELSE @] IN
    [devs |-> IF k > Len(r.devs) THEN Append(r.devs, dev) ELSE [r.devs EXCEPT ![k] = dev],
     ip |-> [x \in RgIps |-> IF x = a THEN k ELSE r.ip[x]],
     mac |-> [x \in RgMacs |-> IF x = m /\ r.mac[x] = 0 THEN k ELSE r.mac[x]]]

PlaceOr(k, r) == IF k # 0 THEN k ELSE Len(r.devs) + 1

\* Slip: an address never seen goes to the device that has its MAC already.
UpsertByMac(r, m, a, h) ==
    LET byIp == IF a # RgNone THEN r.ip[a] ELSE 0
        byMac == IF m # RgNone THEN r.mac[m] ELSE 0 IN
    Settled(r, PlaceOr(IF byIp # 0 THEN byIp ELSE byMac, r), m, a, h)

\* upsert: by the address alone; by the MAC only what has no address.
Upsert(r, m, a, h) ==
    Settled(r, PlaceOr(IF a # RgNone THEN r.ip[a] ELSE r.mac[m], r), m, a, h)

\* find_by_ip, or a new device.
At(r, a) == Upsert(r, RgNone, a, RgNone)

\* The device at the address a, changed by what is written on it.
OnAddress(r, a, F(_)) == [At(r, a) EXCEPT !.devs[At(r, a).ip[a]] = F(@)]

-----------------------------------------------------------------------------
(***************************************************************************)
(* The catalogue over a registry.                                          *)
(***************************************************************************)

\* _seed_catalog.
Seeded(r, c) ==
    LET S[k \in 0..Len(c)] ==
            IF k = 0 THEN r ELSE Upsert(S[k - 1], c[k].mac, c[k].ip, RgNone) IN
    S[Len(c)]

EntryKey(e) == IF e.ip # RgNone THEN e.ip ELSE e.mac

\* Slip: the MAC tells who the device is also when it has an address.
EntriesOfByMac(d, c) ==
    {EntryKey(c[k]) : k \in {k \in DOMAIN c : c[k].ip \in d.ips \/ c[k].mac = d.mac}}

\* The catalogue entry of a device: by its address; by its MAC when neither the device
\* nor the entry has an address.
EntriesOf(d, c) ==
    {EntryKey(c[k]) : k \in {k \in DOMAIN c :
        \/ c[k].ip \in d.ips
        \/ d.ips = {} /\ c[k].ip = RgNone /\ c[k].mac = d.mac}}

\* _apply_catalog: the entry's fields over the device's; no entry leaves them.
Named(r, c) ==
    [r EXCEPT !.devs = [k \in DOMAIN @ |->
        LET mine == EntriesOf(@[k], c) IN
        IF mine = {} THEN @[k] ELSE [@[k] EXCEPT !.name = CHOOSE e \in mine : TRUE]]]

\* _carry_over: what the scan before knew of the address and this one does not.
Carried(d, old) ==
    LET known == {a \in d.ips : old.ip[a] # 0} IN
    IF known = {} THEN d
    ELSE LET before == old.devs[old.ip[CHOOSE a \in known : TRUE]] IN
         [d EXCEPT !.host = IF @ = RgNone THEN before.host ELSE @,
                   !.ports = IF @ = {} THEN before.ports ELSE @,
                   !.snmp = IF @ = RgNone THEN before.snmp ELSE @]

CarriedOver(r, old) == [r EXCEPT !.devs = [k \in DOMAIN @ |-> Carried(@[k], old)]]

-----------------------------------------------------------------------------
RgInit ==
    /\ rgCatalogue \in RgCatalogues
    /\ rgPhase = "idle"
    /\ rgNew = EmptyRegistry /\ rgCache = EmptyRegistry
    /\ rgOnline = {} /\ rgAnswered = {}

\* A scan begins with an empty registry and the catalogue in it.
RgBegin ==
    /\ rgPhase = "idle"
    /\ rgPhase' = "fast"
    /\ rgNew' = Seeded(EmptyRegistry, rgCatalogue)
    /\ rgOnline' = {}
    /\ UNCHANGED <<rgCatalogue, rgCache, rgAnswered>>

\* The fast sources run together and their observations come in any order: a lease of
\* the DHCP server, a row of the ARP table, an answer to the sweep.
Observed(m, a, h) ==
    /\ rgPhase = "fast"
    /\ rgNew' = Upsert(rgNew, m, a, h)
    /\ UNCHANGED <<rgCatalogue, rgPhase, rgCache, rgAnswered>>

Lease(m, a) == Observed(m, a, a) /\ UNCHANGED rgOnline

ArpRow(m, a) == Observed(m, a, RgNone) /\ UNCHANGED rgOnline

SweepAnswer(a) == Observed(RgNone, a, RgNone) /\ rgOnline' = rgOnline \cup {a}

\* The sources have answered: what was known is carried over, the catalogue applied.
FastDone ==
    /\ rgPhase = "fast"
    /\ rgPhase' = "ping"
    /\ rgNew' = Named(CarriedOver(rgNew, rgCache), rgCatalogue)
    /\ UNCHANGED <<rgCatalogue, rgCache, rgOnline, rgAnswered>>

\* The devices the sweep has not seen are pinged; then the registry goes in place.
PingedAll ==
    /\ rgPhase = "ping"
    /\ rgPhase' = "nmap"
    /\ \E up \in SUBSET {a \in RgIps : rgNew.ip[a] # 0} : rgOnline' = rgOnline \cup up
    /\ rgCache' = rgNew
    /\ rgNew' = EmptyRegistry
    /\ UNCHANGED <<rgCatalogue, rgAnswered>>

\* A provider of the slow stage writes on the registry in place.
Enrich(phase, r) ==
    /\ rgPhase = phase
    /\ rgCache' = r
    /\ UNCHANGED <<rgCatalogue, rgPhase, rgNew, rgOnline, rgAnswered>>

\* A host in the output of nmap, its MAC known or not, with its open ports or with none:
\* which addresses are kept out of the port scan and only pinged is read at each run
\* (the configuration, and the addresses the router declares at that moment), and what
\* an earlier run found open stays.
NmapHost(m, a) ==
    \E open \in SUBSET {a} :
        LET Ports(d) == [d EXCEPT !.ports = @ \cup open] IN
        Enrich("nmap", OnAddress(Upsert(rgCache, m, a, RgNone), a, Ports))

\* The name of the address in the reverse DNS: also over the name it has.
ReverseName(a) ==
    LET Hostname(d) == [d EXCEPT !.host = a] IN
    rgCache.ip[a] # 0 /\ Enrich("rdns", OnAddress(rgCache, a, Hostname))

\* A configured host: added to the registry; if it is up it may answer with its facts.
SshHost(a) ==
    LET Facts(d) == [d EXCEPT !.host = IF @ = RgNone THEN a ELSE @] IN
    \/ Enrich("ssh", At(rgCache, a))
    \/ a \in rgOnline /\ Enrich("ssh", OnAddress(rgCache, a, Facts))

\* One provider after the other; one that raises has written what it has written
\* (_run_provider).
NextProvider ==
    LET after == [nmap |-> "rdns", rdns |-> "ssh", ssh |-> "snmp"] IN
    /\ rgPhase \in DOMAIN after
    /\ rgPhase' = after[rgPhase]
    /\ UNCHANGED <<rgCatalogue, rgNew, rgCache, rgOnline, rgAnswered>>

\* The summary on every device that has answered.
SnmpAnswer(r, a) ==
    LET Summary(d) == [d EXCEPT !.snmp = a, !.host = IF @ = RgNone THEN a ELSE @] IN
    OnAddress(r, a, Summary)

Summarised(r, answers) ==
    LET S[left \in SUBSET answers] ==
            IF left = {} THEN r
            ELSE LET a == CHOOSE x \in left : TRUE IN SnmpAnswer(S[left \ {a}], a) IN
    S[answers]

\* And off every device that has not.
SnmpSummaries(r, answers) ==
    [Summarised(r, answers) EXCEPT !.devs = [k \in DOMAIN @ |->
        IF @[k].ips \cap answers = {} THEN [@[k] EXCEPT !.snmp = RgNone] ELSE @[k]]]

\* SNMP: the hosts written in the configuration and those found up are asked, those that
\* discovery.snmp.exclude names at that moment apart; any of them may answer.  Then the
\* catalogue is applied again and the scan ends.
SnmpDone ==
    /\ rgPhase = "snmp"
    /\ rgPhase' = "idle"
    /\ \E answers \in SUBSET (RgIps \ RgMuted) :
          /\ rgCache' = Named(SnmpSummaries(rgCache, answers), rgCatalogue)
          /\ rgAnswered' = answers
    /\ UNCHANGED <<rgCatalogue, rgNew, rgOnline>>

\* SNMP that writes nothing: switched off, without snmpget, or an error before the
\* answers are written, which _run_provider swallows.  The summaries carried over from
\* the scan before stay.
SnmpSkipped ==
    /\ rgPhase = "snmp"
    /\ rgPhase' = "idle"
    /\ rgCache' = Named(rgCache, rgCatalogue)
    /\ UNCHANGED <<rgCatalogue, rgNew, rgOnline, rgAnswered>>

\* An edit of the catalogue, and refresh_catalog on the registry in place.
EditCatalogue(c) ==
    /\ rgCatalogue' = c
    /\ rgCache' = Named(Seeded(rgCache, c), c)
    /\ UNCHANGED <<rgPhase, rgNew, rgOnline, rgAnswered>>

RgNext ==
    \/ RgBegin \/ FastDone \/ PingedAll \/ NextProvider \/ SnmpDone \/ SnmpSkipped
    \/ \E a \in RgIps : SweepAnswer(a) \/ ReverseName(a) \/ SshHost(a)
    \/ \E a \in RgIps, m \in RgMacs : Lease(m, a) \/ ArpRow(m, a)
    \/ \E a \in RgIps, m \in RgMacs \cup {RgNone} : NmapHost(m, a)
    \/ \E c \in RgCatalogues : EditCatalogue(c)

RgSpec == RgInit /\ [][RgNext]_rgVars

-----------------------------------------------------------------------------
RgDevices == [mac : RgMacs \cup {RgNone}, ips : SUBSET RgIps, host : RgIps \cup {RgNone},
              name : RgIps \cup RgMacs \cup {RgNone}, ports : SUBSET RgIps,
              snmp : RgIps \cup {RgNone}]

RgTypeOK ==
    /\ rgCatalogue \in RgCatalogues
    /\ rgPhase \in {"idle", "fast", "ping", "nmap", "rdns", "ssh", "snmp"}
    /\ \A r \in {rgNew, rgCache} :
          /\ r.devs \in Seq(RgDevices)
          /\ r.ip \in [RgIps -> 0..Len(r.devs)] /\ r.mac \in [RgMacs -> 0..Len(r.devs)]
    /\ rgOnline \subseteq RgIps /\ rgAnswered \subseteq RgIps

\* A row of the device list is one device: it has one address at most, no two rows have
\* the same address, or the same MAC and no address, and the row of an address is where
\* the index says, whatever order the sources answer in and however many addresses a
\* card answers for (registry.py:126: "un IP nuovo non deve mai atterrare sul Device che
\* quel MAC ha gia'").
DevicesApart ==
    \A r \in {rgNew, rgCache} :
        /\ \A j, k \in DOMAIN r.devs : j # k => Keys(r.devs[j]) \cap Keys(r.devs[k]) = {}
        /\ \A k \in DOMAIN r.devs : \A a, b \in r.devs[k].ips : a = b
        /\ \A a \in RgIps : r.ip[a] # 0 => r.devs[r.ip[a]].ips = {a}
        /\ \A k \in DOMAIN r.devs : \A a \in r.devs[k].ips : r.ip[a] = k

\* No device shows what is about another: name, ports, host name and SNMP summary are
\* those of its own address or entry, also after they are carried from scan to scan;
\* and an SNMP summary is only shown of who answered the last time the SNMP provider
\* went through, however many scans it was skipped or failed since (discovery.py:694:
\* "un device che ha smesso di rispondere lo perde qui").  An address that is taken out
\* of the port scan keeps the ports it had.
NothingInherited ==
    \A r \in {rgNew, rgCache} : \A k \in DOMAIN r.devs :
        LET d == r.devs[k] IN
        /\ d.name \in Keys(d) \cup {RgNone}
        /\ {d.host, d.snmp} \subseteq d.ips \cup {RgNone}
        /\ d.ports \subseteq d.ips
        /\ d.snmp \in rgAnswered \cup {RgNone}

\* The device list keeps its devices apart, and what is known of each with it.
DevicesExact == DevicesApart /\ NothingInherited
=============================================================================
