---------------------------- MODULE FindingsProofs ----------------------------
(***************************************************************************)
(* Proofs about what the backend makes of what it reads: Registry (the     *)
(* devices of a scan) and Alerts (what is wrong, and since when).          *)
(***************************************************************************)
EXTENDS Registry, Alerts, ListProofs

-----------------------------------------------------------------------------
(***************************************************************************)
(* A registry in which no row is another.  A device has the one address    *)
(* the index gives it, for good; one without an address is the first with  *)
(* its MAC, which is why a second with that MAC and no address is it.      *)
(***************************************************************************)

\* What device d at place k of the registry r may show: what is of its own address, and
\* an SNMP summary only where the addresses `told` have given one.
DeviceRight(r, k, d, told) ==
    /\ \A a \in d.ips : r.ip[a] = k /\ d.ips = {a}
    /\ d.ips = {} => d.mac \in RgMacs /\ r.mac[d.mac] = k
    /\ d.name \in Keys(d) \cup {RgNone}
    /\ d.host \in d.ips \cup {RgNone}
    /\ d.snmp \in d.ips \cup {RgNone} /\ d.snmp \in told \cup {RgNone}
    /\ d.ports \subseteq d.ips

RegistryShape(r) ==
    /\ r \in [devs : Seq(RgDevices), ip : [RgIps -> Nat], mac : [RgMacs -> Nat]]
    /\ \A a \in RgIps : r.ip[a] \in 0 .. Len(r.devs)
    /\ \A m \in RgMacs : r.mac[m] \in 0 .. Len(r.devs)

RegistryRight(r, told) ==
    /\ RegistryShape(r)
    /\ \A k \in 1 .. Len(r.devs) : DeviceRight(r, k, r.devs[k], told)
    /\ \A a \in RgIps : r.ip[a] # 0 => r.devs[r.ip[a]].ips = {a}

RgInv ==
    /\ rgCatalogue \in RgCatalogues
    /\ rgPhase \in {"idle", "fast", "ping", "nmap", "rdns", "ssh", "snmp"}
    /\ rgOnline \subseteq RgIps /\ rgAnswered \subseteq RgIps
    /\ RegistryRight(rgNew, rgAnswered)
    /\ RegistryRight(rgCache, rgAnswered)
    /\ rgPhase \notin {"fast", "ping"} => rgNew = EmptyRegistry

LEMMA EmptyRight == RegistryRight(EmptyRegistry, {})
<1>1. Len(EmptyRegistry.devs) = 0 /\ EmptyRegistry.devs = <<>>
  BY DEF EmptyRegistry
<1> QED
  BY <1>1 DEF EmptyRegistry, RegistryRight, RegistryShape

\* Right with fewer that have answered, right with more.
LEMMA ToldMore ==
    ASSUME NEW r, NEW told, NEW more, told \subseteq more, RegistryRight(r, told)
    PROVE  RegistryRight(r, more)
BY DEF RegistryRight, DeviceRight

\* In a registry that is right no device is another, and each shows what is its own.
LEMMA RightIsExact ==
    ASSUME NEW r, NEW told, RegistryRight(r, told)
    PROVE  /\ \A j, k \in DOMAIN r.devs : j # k => Keys(r.devs[j]) \cap Keys(r.devs[k]) = {}
           /\ \A k \in DOMAIN r.devs : \A a, b \in r.devs[k].ips : a = b
           /\ \A a \in RgIps : r.ip[a] # 0 => r.devs[r.ip[a]].ips = {a}
           /\ \A k \in DOMAIN r.devs : \A a \in r.devs[k].ips : r.ip[a] = k
           /\ \A k \in DOMAIN r.devs :
                 LET d == r.devs[k] IN
                 /\ d.name \in Keys(d) \cup {RgNone}
                 /\ {d.host, d.snmp} \subseteq d.ips \cup {RgNone}
                 /\ d.ports \subseteq d.ips
                 /\ d.snmp \in told \cup {RgNone}
<1>1. /\ r.devs \in Seq(RgDevices) /\ DOMAIN r.devs = 1 .. Len(r.devs)
      /\ \A k \in DOMAIN r.devs : r.devs[k] \in RgDevices /\ DeviceRight(r, k, r.devs[k], told)
  <2>1. r.devs \in Seq(RgDevices) /\ DOMAIN r.devs = 1 .. Len(r.devs)
    BY DEF RegistryRight, RegistryShape
  <2>2. \A k \in DOMAIN r.devs : r.devs[k] \in RgDevices
    BY <2>1
  <2>3. \A k \in DOMAIN r.devs : DeviceRight(r, k, r.devs[k], told)
    BY <2>1 DEF RegistryRight
  <2> QED
    BY <2>1, <2>2, <2>3
<1>2. ASSUME NEW j \in DOMAIN r.devs, NEW k \in DOMAIN r.devs, j # k
      PROVE  Keys(r.devs[j]) \cap Keys(r.devs[k]) = {}
  <2>1. /\ r.devs[j].ips \subseteq RgIps /\ r.devs[k].ips \subseteq RgIps
        /\ DeviceRight(r, j, r.devs[j], told) /\ DeviceRight(r, k, r.devs[k], told)
    BY <1>1 DEF RgDevices
  <2>2. r.devs[j].ips \cap r.devs[k].ips = {}
    BY <1>2, <2>1 DEF DeviceRight
  <2>3. r.devs[j].ips = {} => r.devs[j].mac \in RgMacs /\ r.mac[r.devs[j].mac] = j
    BY <2>1 DEF DeviceRight
  <2>4. r.devs[k].ips = {} => r.devs[k].mac \in RgMacs /\ r.mac[r.devs[k].mac] = k
    BY <2>1 DEF DeviceRight
  <2> QED
    BY <1>2, <2>1, <2>2, <2>3, <2>4, RgKeysApart DEF Keys
<1>3. \A k \in DOMAIN r.devs : \A a \in r.devs[k].ips : r.ip[a] = k /\ r.devs[k].ips = {a}
  BY <1>1 DEF DeviceRight
<1>4. \A a \in RgIps : r.ip[a] # 0 => r.devs[r.ip[a]].ips = {a}
  BY DEF RegistryRight
<1>5. ASSUME NEW k \in DOMAIN r.devs
      PROVE  LET d == r.devs[k] IN
             /\ d.name \in Keys(d) \cup {RgNone}
             /\ {d.host, d.snmp} \subseteq d.ips \cup {RgNone}
             /\ d.ports \subseteq d.ips
             /\ d.snmp \in told \cup {RgNone}
  <2>1. DeviceRight(r, k, r.devs[k], told)
    BY <1>1
  <2> QED
    BY <2>1 DEF DeviceRight
<1> QED
  BY <1>2, <1>3, <1>4, <1>5

\* A device is written on: what it is stays, what it shows is its own.
LEMMA WriteOne ==
    ASSUME NEW r, NEW told, RegistryRight(r, told), NEW k \in 1 .. Len(r.devs),
           NEW d \in RgDevices, d.ips = r.devs[k].ips, d.mac = r.devs[k].mac,
           d.name \in Keys(d) \cup {RgNone}, d.host \in d.ips \cup {RgNone},
           d.snmp \in d.ips \cup {RgNone}, d.snmp \in told \cup {RgNone},
           d.ports \subseteq d.ips
    PROVE  RegistryRight([r EXCEPT !.devs[k] = d], told)
<1> DEFINE s == [r EXCEPT !.devs[k] = d]
<1>1. r \in [devs : Seq(RgDevices), ip : [RgIps -> Nat], mac : [RgMacs -> Nat]]
  BY DEF RegistryRight, RegistryShape
<1>2. /\ s \in [devs : Seq(RgDevices), ip : [RgIps -> Nat], mac : [RgMacs -> Nat]]
      /\ s.ip = r.ip /\ s.mac = r.mac /\ Len(s.devs) = Len(r.devs)
      /\ s.devs = [r.devs EXCEPT ![k] = d]
  <2>1. r.devs \in Seq(RgDevices) /\ [r.devs EXCEPT ![k] = d] \in Seq(RgDevices)
    BY <1>1
  <2>2. s = [r EXCEPT !.devs = [r.devs EXCEPT ![k] = d]]
    BY <1>1
  <2>3. /\ s.ip = r.ip /\ s.mac = r.mac /\ s.devs = [r.devs EXCEPT ![k] = d]
        /\ s \in [devs : Seq(RgDevices), ip : [RgIps -> Nat], mac : [RgMacs -> Nat]]
    BY <1>1, <2>1, <2>2
  <2>4. Len([r.devs EXCEPT ![k] = d]) = Len(r.devs)
    BY <1>1
  <2> QED
    BY <2>3, <2>4
<1>3. s.devs[k] = d /\ \A j \in 1 .. Len(r.devs) : j # k => s.devs[j] = r.devs[j]
  BY <1>1, <1>2
<1> HIDE DEF s
<1>4. RegistryShape(s)
  BY <1>2 DEF RegistryRight, RegistryShape
<1>5. ASSUME NEW j \in 1 .. Len(s.devs)
      PROVE  DeviceRight(s, j, s.devs[j], told)
  <2>1. DeviceRight(r, j, r.devs[j], told)
    BY <1>2, <1>5 DEF RegistryRight
  <2>2. CASE j = k
    BY <1>2, <1>3, <2>1, <2>2 DEF DeviceRight
  <2>3. CASE j # k
    BY <1>2, <1>3, <1>5, <2>1, <2>3 DEF DeviceRight
  <2> QED
    BY <2>2, <2>3
<1>6. ASSUME NEW a \in RgIps, s.ip[a] # 0
      PROVE  s.devs[s.ip[a]].ips = {a}
  <2>1. r.ip[a] \in 1 .. Len(r.devs) /\ r.devs[r.ip[a]].ips = {a}
    BY <1>1, <1>2, <1>6 DEF RegistryRight, RegistryShape
  <2> QED
    BY <1>2, <1>3, <2>1
<1> QED
  BY <1>4, <1>5, <1>6 DEF RegistryRight, s

\* The same of all the devices at once.
LEMMA WriteAll ==
    ASSUME NEW r, NEW told, NEW more, RegistryRight(r, told), NEW devs \in Seq(RgDevices),
           Len(devs) = Len(r.devs),
           \A k \in 1 .. Len(r.devs) :
              LET d == devs[k] IN
              /\ d.ips = r.devs[k].ips /\ d.mac = r.devs[k].mac
              /\ d.name \in Keys(d) \cup {RgNone} /\ d.host \in d.ips \cup {RgNone}
              /\ d.snmp \in d.ips \cup {RgNone} /\ d.snmp \in more \cup {RgNone}
              /\ d.ports \subseteq d.ips
    PROVE  RegistryRight([r EXCEPT !.devs = devs], more)
<1> DEFINE s == [r EXCEPT !.devs = devs]
<1>1. /\ s \in [devs : Seq(RgDevices), ip : [RgIps -> Nat], mac : [RgMacs -> Nat]]
      /\ s.ip = r.ip /\ s.mac = r.mac /\ s.devs = devs
  BY DEF RegistryRight, RegistryShape
<1> HIDE DEF s
<1>2. RegistryShape(s)
  BY <1>1 DEF RegistryRight, RegistryShape
<1>3. ASSUME NEW k \in 1 .. Len(s.devs)
      PROVE  DeviceRight(s, k, s.devs[k], more)
  <2>1. DeviceRight(r, k, r.devs[k], told)
    BY <1>1, <1>3 DEF RegistryRight
  <2> QED
    BY <1>1, <1>3, <2>1 DEF DeviceRight
<1>4. ASSUME NEW a \in RgIps, s.ip[a] # 0
      PROVE  s.devs[s.ip[a]].ips = {a}
  <2>1. r.ip[a] \in 1 .. Len(r.devs) /\ r.devs[r.ip[a]].ips = {a}
    BY <1>1, <1>4 DEF RegistryRight, RegistryShape
  <2> QED
    BY <1>1, <2>1
<1> QED
  BY <1>2, <1>3, <1>4 DEF RegistryRight, s

\* An observation: of an address that is known, of a MAC that is known and has no
\* address told with it, of a new device.
LEMMA UpsertRight ==
    ASSUME NEW r, NEW told, RegistryRight(r, told),
           NEW m \in RgMacs \cup {RgNone}, NEW a \in RgIps \cup {RgNone},
           NEW h \in {a, RgNone}, a # RgNone \/ m # RgNone
    PROVE  /\ RegistryRight(Upsert(r, m, a, h), told)
           /\ a # RgNone => Upsert(r, m, a, h).ip[a] \in 1 .. Len(Upsert(r, m, a, h).devs)
<1> DEFINE n == Len(r.devs)
           known == IF a # RgNone THEN r.ip[a] ELSE r.mac[m]
           k == PlaceOr(known, r)
           old == IF k > n THEN Unknown(m) ELSE r.devs[k]
           dev == [old EXCEPT !.mac = IF @ = RgNone THEN m ELSE @,
                              !.ips = @ \cup ({a} \ {RgNone}),
                              !.host = IF @ = RgNone THEN h ELSE @]
           s == Upsert(r, m, a, h)
<1>1. /\ r \in [devs : Seq(RgDevices), ip : [RgIps -> Nat], mac : [RgMacs -> Nat]]
      /\ r.devs \in Seq(RgDevices) /\ n \in Nat
      /\ \A x \in RgIps : r.ip[x] \in 0 .. n
      /\ \A x \in RgMacs : r.mac[x] \in 0 .. n
      /\ \A j \in 1 .. n : DeviceRight(r, j, r.devs[j], told) /\ r.devs[j] \in RgDevices
      /\ \A x \in RgIps : r.ip[x] # 0 => r.devs[r.ip[x]].ips = {x}
  BY DEF RegistryRight, RegistryShape
<1>2. a # RgNone => a \in RgIps
  OBVIOUS
<1>3. m # RgNone => m \in RgMacs
  OBVIOUS
<1>4. known \in 0 .. n
  BY <1>1, <1>2, <1>3
<1>5. k \in 1 .. n + 1 /\ (k <= n => k = known) /\ (k > n => k = n + 1 /\ known = 0)
  BY <1>1, <1>4 DEF PlaceOr
<1>6. /\ s.devs = IF k > n THEN Append(r.devs, dev) ELSE [r.devs EXCEPT ![k] = dev]
      /\ s.ip = [x \in RgIps |-> IF x = a THEN k ELSE r.ip[x]]
      /\ s.mac = [x \in RgMacs |-> IF x = m /\ r.mac[x] = 0 THEN k ELSE r.mac[x]]
      /\ s = [devs |-> s.devs, ip |-> s.ip, mac |-> s.mac]
  BY DEF Upsert, Settled
<1> HIDE DEF s
<1>7. /\ old \in RgDevices
      /\ old.ips = {} \/ old.ips = {a} \/ (a = RgNone /\ k <= n)
      /\ k <= n => old = r.devs[k] /\ DeviceRight(r, k, old, told)
      /\ k > n => old = Unknown(m)
  <2>1. CASE k > n
    <3>1. old = Unknown(m) /\ ~ (k <= n)
      BY <1>1, <1>5, <2>1
    <3>2. Unknown(m) \in RgDevices /\ Unknown(m).ips = {}
      BY <1>3 DEF Unknown, RgDevices
    <3> HIDE DEF k, old
    <3> QED
      BY <3>1, <3>2
  <2>2. CASE k <= n
    <3>1. old = r.devs[k] /\ k \in 1 .. n /\ k = known /\ ~ (k > n)
      BY <1>1, <1>5, <2>2
    <3>2. a # RgNone => r.devs[k].ips = {a}
      <4>1. a # RgNone => a \in RgIps /\ r.ip[a] = k /\ k # 0
        BY <1>2, <3>1
      <4> QED
        BY <1>1, <4>1
    <3>3. old \in RgDevices /\ DeviceRight(r, k, old, told)
      BY <1>1, <3>1
    <3> HIDE DEF k, known, old
    <3> QED
      BY <2>2, <3>1, <3>2, <3>3
  <2> QED
    BY <1>1, <1>5, <2>1, <2>2
<1> HIDE DEF old
<1>8. /\ dev \in RgDevices
      /\ dev.ips = old.ips \cup ({a} \ {RgNone})
      /\ dev.mac = IF old.mac = RgNone THEN m ELSE old.mac
      /\ dev.host = IF old.host = RgNone THEN h ELSE old.host
      /\ dev.name = old.name /\ dev.ports = old.ports /\ dev.snmp = old.snmp
  BY <1>2, <1>3, <1>7 DEF RgDevices
<1> HIDE DEF dev
<1>9. /\ s.devs \in Seq(RgDevices)
      /\ Len(s.devs) = IF k > n THEN n + 1 ELSE n
      /\ s.devs[k] = dev /\ k \in 1 .. Len(s.devs)
      /\ \A j \in 1 .. Len(s.devs) : j # k => j \in 1 .. n /\ s.devs[j] = r.devs[j]
  <2>1. CASE k > n
    <3>1. s.devs = Append(r.devs, dev) /\ k = n + 1
      BY <1>1, <1>5, <1>6, <2>1
    <3> QED
      BY <1>1, <1>8, <2>1, <3>1
  <2>2. CASE ~ (k > n)
    <3>1. s.devs = [r.devs EXCEPT ![k] = dev] /\ k \in 1 .. n
      BY <1>1, <1>5, <1>6, <2>2
    <3> QED
      BY <1>1, <1>8, <2>2, <3>1
  <2> QED
    BY <2>1, <2>2
<1> HIDE DEF k, known
<1>10. RegistryShape(s)
  <2>1. /\ \A x \in RgIps : s.ip[x] \in 0 .. Len(s.devs) /\ s.ip[x] \in Nat
        /\ \A x \in RgMacs : s.mac[x] \in 0 .. Len(s.devs) /\ s.mac[x] \in Nat
    BY <1>1, <1>6, <1>9
  <2>2. s.ip \in [RgIps -> Nat] /\ s.mac \in [RgMacs -> Nat]
    BY <1>1, <1>6, <2>1
  <2> QED
    BY <1>6, <1>9, <2>1, <2>2 DEF RegistryShape
<1>11. /\ \A x \in RgIps : x # a => s.ip[x] = r.ip[x]
       /\ a # RgNone => s.ip[a] = k
       /\ \A x \in RgMacs : r.mac[x] # 0 => s.mac[x] = r.mac[x]
  BY <1>2, <1>6
<1>12. ASSUME NEW j \in 1 .. Len(s.devs), j # k
       PROVE  DeviceRight(s, j, s.devs[j], told)
  <2> DEFINE d == s.devs[j]
  <2>1. j \in 1 .. n /\ d = r.devs[j] /\ DeviceRight(r, j, d, told) /\ d \in RgDevices
    BY <1>1, <1>9, <1>12
  <2> HIDE DEF d
  <2>2. ASSUME NEW x \in d.ips
        PROVE  s.ip[x] = j /\ d.ips = {x}
    <3>1. x \in RgIps /\ r.ip[x] = j /\ d.ips = {x}
      BY <2>1 DEF DeviceRight, RgDevices
    <3>2. x # a
      <4> SUFFICES ASSUME x = a PROVE FALSE
        OBVIOUS
      <4>1. known = j /\ known # 0
        BY <1>1, <2>1, <3>1, RgKeysApart DEF known
      <4> QED
        BY <1>1, <1>5, <1>12, <4>1 DEF k, PlaceOr
    <3> QED
      BY <1>11, <3>1, <3>2
  <2>3. d.ips = {} => d.mac \in RgMacs /\ s.mac[d.mac] = j
    <3>1. d.ips = {} => d.mac \in RgMacs /\ r.mac[d.mac] = j /\ j # 0
      BY <2>1 DEF DeviceRight
    <3> QED
      BY <1>11, <3>1
  <2> QED
    BY <2>1, <2>2, <2>3 DEF DeviceRight, d
<1>13. DeviceRight(s, k, dev, told)
  <2>1. CASE a # RgNone
    <3>1. dev.ips = {a} /\ s.ip[a] = k
      BY <1>7, <1>8, <1>11, <2>1
    <3>2. CASE k > n
      BY <1>7, <1>8, <3>1, <3>2 DEF Unknown, DeviceRight, Keys
    <3>3. CASE k <= n
      <4>1. DeviceRight(r, k, old, told) /\ old.ips = {a}
        <5>1. k = known /\ k \in 1 .. n
          BY <1>1, <1>4, <1>9, <3>3 DEF k, PlaceOr
        <5>2. r.devs[k].ips = {a}
          BY <1>1, <1>2, <2>1, <5>1 DEF known
        <5> QED
          BY <1>7, <3>3, <5>2
      <4> QED
        BY <1>8, <3>1, <4>1 DEF DeviceRight, Keys
    <3> QED
      BY <1>1, <1>9, <3>2, <3>3
  <2>2. CASE a = RgNone
    <3>1. dev.ips = old.ips /\ m \in RgMacs /\ h = RgNone
      BY <1>3, <1>8, <2>2
    <3>2. CASE k > n
      <4>1. r.mac[m] = 0 /\ s.mac[m] = k
        <5>1. known = 0
          BY <1>1, <1>4, <3>2 DEF k, PlaceOr
        <5> QED
          BY <1>6, <2>2, <3>1, <5>1 DEF known
      <4>2. old.ips = {} /\ dev.mac = m /\ dev.host = RgNone /\ dev.snmp = RgNone
            /\ dev.name = RgNone /\ dev.ports = {}
        BY <1>7, <1>8, <3>1, <3>2 DEF Unknown
      <4> QED
        BY <3>1, <4>1, <4>2 DEF DeviceRight
    <3>3. CASE k <= n
      <4>1. DeviceRight(r, k, old, told) /\ old \in RgDevices
        BY <1>7, <3>3
      <4>2. old.host = dev.host
        BY <1>8, <3>1
      <4>3. \A x \in old.ips : x \in RgIps /\ x # a
        BY <2>2, <4>1, RgKeysApart DEF RgDevices
      <4>4. old.ips = {} => dev.mac = old.mac /\ s.mac[old.mac] = k
        <5> SUFFICES ASSUME old.ips = {} PROVE dev.mac = old.mac /\ s.mac[old.mac] = k
          OBVIOUS
        <5>1. old.mac \in RgMacs /\ r.mac[old.mac] = k /\ k # 0
          BY <1>9, <4>1 DEF DeviceRight
        <5> QED
          BY <1>8, <1>11, <5>1, RgKeysApart
      <4>5. Keys(dev) = Keys(old)
        BY <3>1, <4>4 DEF Keys
      <4> QED
        BY <1>8, <1>11, <3>1, <4>1, <4>2, <4>3, <4>4, <4>5 DEF DeviceRight
    <3> QED
      BY <1>1, <1>9, <3>2, <3>3
  <2> QED
    BY <2>1, <2>2
<1>14. ASSUME NEW x \in RgIps, s.ip[x] # 0
       PROVE  s.devs[s.ip[x]].ips = {x}
  <2>1. CASE x = a
    <3>1. s.ip[x] = k /\ a # RgNone
      BY <1>11, <2>1, RgKeysApart
    <3>2. a \in dev.ips
      BY <1>8, <3>1
    <3> QED
      BY <1>9, <1>13, <2>1, <3>1, <3>2 DEF DeviceRight
  <2>2. CASE x # a
    <3>1. s.ip[x] = r.ip[x] /\ r.ip[x] \in 1 .. n /\ r.devs[r.ip[x]].ips = {x}
      BY <1>1, <1>11, <1>14, <2>2
    <3>2. CASE r.ip[x] = k
      <4>1. old.ips = {x}
        BY <1>1, <1>7, <3>1, <3>2
      <4>2. x \in dev.ips
        BY <1>8, <4>1
      <4>3. dev.ips = {x}
        BY <1>13, <4>2 DEF DeviceRight
      <4> QED
        BY <1>9, <3>1, <3>2, <4>3
    <3>3. CASE r.ip[x] # k
      <4>1. r.ip[x] \in 1 .. Len(s.devs)
        BY <1>9, <3>1
      <4> QED
        BY <1>9, <3>1, <3>3, <4>1
    <3> QED
      BY <3>2, <3>3
  <2> QED
    BY <2>1, <2>2
<1>15. RegistryRight(s, told)
  BY <1>9, <1>10, <1>12, <1>13, <1>14 DEF RegistryRight
<1> QED
  BY <1>9, <1>11, <1>15 DEF s

\* The catalogue is put into a registry, one entry after the other.
LEMMA SeededRight ==
    ASSUME NEW r, NEW told, RegistryRight(r, told), NEW c \in Seq(RgEntry)
    PROVE  RegistryRight(Seeded(r, c), told)
<1> DEFINE Up(s, k) == Upsert(s, c[k].mac, c[k].ip, RgNone)
           Runs(f, n) == f = [k \in 0 .. n |-> IF k = 0 THEN r ELSE Up(f[k - 1], k)]
           claim(n) == \E f : Runs(f, n)
           wrong == {n \in 0 .. Len(c) : ~ claim(n)}
<1>0. Len(c) \in Nat
  OBVIOUS
<1>1. claim(0)
  <2> DEFINE f == [k \in 0 .. 0 |-> r]
  <2>1. Runs(f, 0)
    OBVIOUS
  <2> HIDE DEF f
  <2> QED
    BY <2>1, Zenon
<1>2. ASSUME NEW n \in 1 .. Len(c), claim(n - 1)
      PROVE  claim(n)
  <2>1. PICK f : Runs(f, n - 1)
    BY <1>2
  <2> DEFINE g == [k \in 0 .. n |-> IF k = n THEN Up(f[n - 1], n) ELSE f[k]]
  <2>2. n - 1 \in 0 .. n - 1 /\ n \in 0 .. n /\ n # 0 /\ n \in Nat
    BY <1>0
  <2>4. \A k \in 0 .. n - 1 : f[k] = IF k = 0 THEN r ELSE Up(f[k - 1], k)
    <3> HIDE DEF Up
    <3> QED
      BY <2>1
  <2> HIDE DEF Up
  <2>5. \A k \in 0 .. n : g[k] = IF k = 0 THEN r ELSE Up(g[k - 1], k)
    <3> SUFFICES ASSUME NEW k \in 0 .. n
                 PROVE  g[k] = IF k = 0 THEN r ELSE Up(g[k - 1], k)
      OBVIOUS
    <3>1. CASE k = n
      <4>1. n - 1 \in 0 .. n /\ n - 1 # n
        BY <2>2
      <4>2. g[n - 1] = f[n - 1] /\ g[n] = Up(f[n - 1], n)
        BY <2>2, <4>1
      <4> QED
        BY <2>2, <3>1, <4>2
    <3>2. CASE k # n
      <4>1. k \in 0 .. n - 1 /\ (k # 0 => k - 1 \in 0 .. n /\ k - 1 # n)
        BY <2>2, <3>2
      <4>2. g[k] = f[k] /\ (k # 0 => g[k - 1] = f[k - 1])
        BY <3>2, <4>1
      <4> QED
        BY <2>4, <4>1, <4>2
    <3> QED
      BY <3>1, <3>2
  <2>6. Runs(g, n)
    <3>1. g = [k \in 0 .. n |-> g[k]]
      OBVIOUS
    <3> HIDE DEF g
    <3> QED
      BY <2>5, <3>1
  <2> HIDE DEF g
  <2> QED
    BY <2>6
<1> HIDE DEF claim
<1>3. wrong = {}
  <2> SUFFICES ASSUME wrong # {} PROVE FALSE
    OBVIOUS
  <2>0. wrong \subseteq Nat
    BY <1>0
  <2>1. PICK n \in wrong : \A x \in wrong : n <= x
    BY <2>0, LeastNatural
  <2>2. n \in 1 .. Len(c) /\ n - 1 \in 0 .. Len(c) /\ n - 1 \notin wrong
    BY <1>0, <1>1, <2>1
  <2> QED
    BY <1>2, <2>1, <2>2
<1>4. claim(Len(c))
  BY <1>0, <1>3
<1>5. PICK f : Runs(f, Len(c))
  BY <1>4 DEF claim
<1> DEFINE steps == CHOOSE S : S = [k \in 0 .. Len(c) |->
                       IF k = 0 THEN r ELSE Upsert(S[k - 1], c[k].mac, c[k].ip, RgNone)]
<1>6. Seeded(r, c) = steps[Len(c)]
  BY Zenon DEF Seeded
<1>7. Runs(steps, Len(c))
  BY <1>5, Zenon
<1> HIDE DEF steps
<1>8. \A k \in 0 .. Len(c) : RegistryRight(steps[k], told)
  <2> DEFINE bad == {k \in 0 .. Len(c) : ~ RegistryRight(steps[k], told)}
  <2>1. \A k \in 0 .. Len(c) : steps[k] = IF k = 0 THEN r ELSE Up(steps[k - 1], k)
    <3> HIDE DEF Up
    <3> QED
      BY <1>7
  <2>2. ASSUME bad # {} PROVE FALSE
    <3>0. bad \subseteq Nat
      BY <1>0
    <3>1. PICK n \in bad : \A x \in bad : n <= x
      BY <2>2, <3>0, LeastNatural
    <3>2. 0 \in 0 .. Len(c) /\ steps[0] = r
      BY <1>0, <2>1
    <3>3. n # 0
      BY <3>1, <3>2
    <3>4. n \in 1 .. Len(c) /\ n - 1 \in 0 .. Len(c) /\ n - 1 \notin bad
      BY <1>0, <3>1, <3>3
    <3>5. /\ c[n] \in RgEntry /\ c[n].mac \in RgMacs \cup {RgNone}
          /\ c[n].ip \in RgIps \cup {RgNone}
          /\ c[n].ip # RgNone \/ c[n].mac # RgNone
      <4>1. c[n] \in RgEntry
        BY <3>4
      <4> QED
        BY <4>1 DEF RgEntry
    <3>6. steps[n] = Up(steps[n - 1], n)
      BY <2>1, <3>1, <3>3
    <3>7. RegistryRight(steps[n - 1], told)
      BY <3>4
    <3>8. RegistryRight(Up(steps[n - 1], n), told)
      BY <3>5, <3>7, UpsertRight
    <3> QED
      BY <3>1, <3>6, <3>8
  <2> QED
    BY <2>2
<1> QED
  BY <1>0, <1>6, <1>8

\* The name a device gets is that of an entry with its address, or with its MAC alone.
LEMMA NamedRight ==
    ASSUME NEW r, NEW told, RegistryRight(r, told), NEW c \in Seq(RgEntry)
    PROVE  RegistryRight(Named(r, c), told)
<1> DEFINE mine(k) == EntriesOf(r.devs[k], c)
           new(k) == IF mine(k) = {} THEN r.devs[k]
                     ELSE [r.devs[k] EXCEPT !.name = CHOOSE e \in mine(k) : TRUE]
           devs == [k \in DOMAIN r.devs |-> new(k)]
<1>1. /\ r \in [devs : Seq(RgDevices), ip : [RgIps -> Nat], mac : [RgMacs -> Nat]]
      /\ Len(r.devs) \in Nat /\ DOMAIN r.devs = 1 .. Len(r.devs)
      /\ \A k \in 1 .. Len(r.devs) : r.devs[k] \in RgDevices /\ DeviceRight(r, k, r.devs[k], told)
  BY DEF RegistryRight, RegistryShape
<1>2. Named(r, c) = [r EXCEPT !.devs = devs]
  BY DEF Named
<1>3. ASSUME NEW k \in 1 .. Len(r.devs)
      PROVE  /\ new(k) \in RgDevices
             /\ new(k).ips = r.devs[k].ips /\ new(k).mac = r.devs[k].mac
             /\ new(k).name \in Keys(new(k)) \cup {RgNone}
             /\ new(k).host \in new(k).ips \cup {RgNone}
             /\ new(k).snmp \in new(k).ips \cup {RgNone}
             /\ new(k).snmp \in told \cup {RgNone}
             /\ new(k).ports \subseteq new(k).ips
  <2> DEFINE d == r.devs[k]
  <2>1. d \in RgDevices /\ DeviceRight(r, k, d, told)
    BY <1>1
  <2> HIDE DEF d
  <2>2. CASE mine(k) = {}
    BY <2>1, <2>2 DEF DeviceRight, d
  <2>3. CASE mine(k) # {}
    <3> DEFINE e == CHOOSE e \in mine(k) : TRUE
    <3>1. e \in mine(k)
      BY <2>3
    <3>2. PICK i \in DOMAIN c :
              /\ e = EntryKey(c[i])
              /\ c[i].ip \in d.ips \/ (d.ips = {} /\ c[i].ip = RgNone /\ c[i].mac = d.mac)
      BY <3>1 DEF EntriesOf, d
    <3>3. d.ips \subseteq RgIps /\ (d.ips = {} => d.mac \in RgMacs)
      BY <2>1 DEF RgDevices, DeviceRight
    <3>4. e \in Keys(d) /\ e \in RgIps \cup RgMacs
      <4>1. CASE c[i].ip \in d.ips
        <5>1. c[i].ip \in RgIps /\ c[i].ip # RgNone
          BY <3>3, <4>1, RgKeysApart
        <5>2. e = c[i].ip
          BY <3>2, <5>1 DEF EntryKey
        <5> HIDE DEF e
        <5> QED
          BY <4>1, <5>1, <5>2 DEF Keys
      <4>2. CASE d.ips = {} /\ c[i].ip = RgNone /\ c[i].mac = d.mac
        <5>1. e = c[i].mac /\ d.mac \in RgMacs /\ d.mac = c[i].mac
          BY <3>2, <3>3, <4>2 DEF EntryKey
        <5> HIDE DEF e
        <5> QED
          BY <4>2, <5>1 DEF Keys
      <4> QED
        BY <3>2, <4>1, <4>2
    <3>5. new(k) = [d EXCEPT !.name = e]
      BY <2>3 DEF d
    <3> HIDE DEF e, mine, new
    <3>6. /\ new(k) \in RgDevices /\ new(k).name = e /\ new(k).ips = d.ips /\ new(k).mac = d.mac
          /\ new(k).host = d.host /\ new(k).snmp = d.snmp /\ new(k).ports = d.ports
      BY <2>1, <3>4, <3>5 DEF RgDevices
    <3>7. Keys(new(k)) = Keys(d)
      BY <3>6 DEF Keys
    <3> QED
      BY <2>1, <3>4, <3>6, <3>7 DEF DeviceRight, d
  <2> QED
    BY <2>2, <2>3
<1> HIDE DEF new
<1>4. devs \in Seq(RgDevices) /\ Len(devs) = Len(r.devs)
  BY <1>1, <1>3
<1>5. \A k \in 1 .. Len(r.devs) : devs[k] = new(k)
  BY <1>1
<1> HIDE DEF devs
<1>6. RegistryRight([r EXCEPT !.devs = devs], told)
  BY <1>3, <1>4, <1>5, WriteAll
<1> QED
  BY <1>2, <1>6

\* What is carried over was known of the same address.
LEMMA CarriedRight ==
    ASSUME NEW r, NEW old, NEW told, RegistryRight(r, told), RegistryRight(old, told)
    PROVE  RegistryRight(CarriedOver(r, old), told)
<1> DEFINE new(k) == Carried(r.devs[k], old)
           devs == [k \in DOMAIN r.devs |-> new(k)]
<1>1. /\ r \in [devs : Seq(RgDevices), ip : [RgIps -> Nat], mac : [RgMacs -> Nat]]
      /\ Len(r.devs) \in Nat /\ DOMAIN r.devs = 1 .. Len(r.devs)
      /\ \A k \in 1 .. Len(r.devs) : r.devs[k] \in RgDevices /\ DeviceRight(r, k, r.devs[k], told)
  BY DEF RegistryRight, RegistryShape
<1>2. CarriedOver(r, old) = [r EXCEPT !.devs = devs]
  BY DEF CarriedOver
<1>3. ASSUME NEW k \in 1 .. Len(r.devs)
      PROVE  /\ new(k) \in RgDevices
             /\ new(k).ips = r.devs[k].ips /\ new(k).mac = r.devs[k].mac
             /\ new(k).name \in Keys(new(k)) \cup {RgNone}
             /\ new(k).host \in new(k).ips \cup {RgNone}
             /\ new(k).snmp \in new(k).ips \cup {RgNone}
             /\ new(k).snmp \in told \cup {RgNone}
             /\ new(k).ports \subseteq new(k).ips
  <2> DEFINE d == r.devs[k]
             known == {a \in d.ips : old.ip[a] # 0}
             b == old.devs[old.ip[CHOOSE a \in known : TRUE]]
  <2>1. d \in RgDevices /\ DeviceRight(r, k, d, told)
    BY <1>1
  <2> HIDE DEF d
  <2>2. CASE known = {}
    <3>1. new(k) = d
      BY <2>2 DEF Carried, d
    <3> QED
      BY <2>1, <3>1 DEF DeviceRight, d
  <2>3. CASE known # {}
    <3>1. PICK a \in known : b = old.devs[old.ip[a]]
      BY <2>3
    <3>2. a \in d.ips /\ a \in RgIps /\ old.ip[a] # 0 /\ d.ips = {a}
      BY <2>1, <3>1 DEF d, DeviceRight, RgDevices
    <3>3. old.ip[a] \in 1 .. Len(old.devs) /\ b.ips = {a} /\ b \in RgDevices
      BY <3>1, <3>2 DEF RegistryRight, RegistryShape
    <3>4. DeviceRight(old, old.ip[a], b, told)
      BY <3>1, <3>3 DEF RegistryRight
    <3>5. /\ b.host \in {a, RgNone} /\ b.snmp \in {a, RgNone} /\ b.ports \subseteq {a}
          /\ b.snmp \in told \cup {RgNone}
      BY <3>3, <3>4 DEF DeviceRight
    <3>6. new(k) = [d EXCEPT
                      !.host = IF @ = RgNone THEN b.host ELSE @,
                      !.ports = IF @ = {} THEN b.ports ELSE @,
                      !.snmp = IF @ = RgNone THEN b.snmp ELSE @]
      BY <2>3 DEF d, Carried
    <3> HIDE DEF b, known, new
    <3>7. /\ new(k) \in RgDevices /\ new(k).name = d.name /\ new(k).ips = d.ips
          /\ new(k).mac = d.mac
          /\ new(k).host = IF d.host = RgNone THEN b.host ELSE d.host
          /\ new(k).snmp = IF d.snmp = RgNone THEN b.snmp ELSE d.snmp
          /\ new(k).ports = IF d.ports = {} THEN b.ports ELSE d.ports
      BY <2>1, <3>3, <3>6 DEF RgDevices
    <3>8. Keys(new(k)) = Keys(d)
      BY <3>7 DEF Keys
    <3>9. /\ d.name \in Keys(d) \cup {RgNone} /\ d.host \in d.ips \cup {RgNone}
          /\ d.snmp \in d.ips \cup {RgNone} /\ d.snmp \in told \cup {RgNone}
          /\ d.ports \subseteq d.ips
      BY <2>1 DEF DeviceRight
    <3> QED
      BY <3>2, <3>5, <3>7, <3>8, <3>9 DEF d
  <2> QED
    BY <2>2, <2>3
<1> HIDE DEF new
<1>4. devs \in Seq(RgDevices) /\ Len(devs) = Len(r.devs)
  BY <1>1, <1>3
<1>5. \A k \in 1 .. Len(r.devs) : devs[k] = new(k)
  BY <1>1
<1> HIDE DEF devs
<1> QED
  BY <1>2, <1>3, <1>4, <1>5, WriteAll

\* The device at an address is there, or is made, and is of that address alone.
LEMMA AtRight ==
    ASSUME NEW r, NEW told, RegistryRight(r, told), NEW a \in RgIps
    PROVE  /\ RegistryRight(At(r, a), told)
           /\ At(r, a).ip[a] \in 1 .. Len(At(r, a).devs)
           /\ At(r, a).devs[At(r, a).ip[a]] \in RgDevices
           /\ At(r, a).devs[At(r, a).ip[a]].ips = {a}
           /\ DeviceRight(At(r, a), At(r, a).ip[a], At(r, a).devs[At(r, a).ip[a]], told)
<1> DEFINE s == At(r, a)
<1>1. RegistryRight(s, told) /\ s.ip[a] \in 1 .. Len(s.devs)
  <2>1. a # RgNone
    BY RgKeysApart
  <2> QED
    BY <2>1, UpsertRight DEF At
<1> HIDE DEF s
<1>2. s.devs[s.ip[a]] \in RgDevices /\ s.ip[a] # 0
  BY <1>1 DEF RegistryRight, RegistryShape
<1>3. s.devs[s.ip[a]].ips = {a} /\ DeviceRight(s, s.ip[a], s.devs[s.ip[a]], told)
  BY <1>1, <1>2 DEF RegistryRight
<1> QED
  BY <1>1, <1>2, <1>3 DEF s

\* What a provider writes at an address, when it is of that address.
LEMMA AddressWritten ==
    ASSUME NEW r, NEW told, RegistryRight(r, told), NEW a \in RgIps,
           NEW d, d \in RgDevices,
           LET old == At(r, a).devs[At(r, a).ip[a]] IN
              /\ d.ips = old.ips /\ d.mac = old.mac /\ d.name = old.name
              /\ d.host \in {old.host, a, RgNone}
              /\ d.snmp = old.snmp \/ (d.snmp = a /\ a \in told)
              /\ d.ports \subseteq old.ports \cup {a}
    PROVE  RegistryRight([At(r, a) EXCEPT !.devs[At(r, a).ip[a]] = d], told)
<1> DEFINE s == At(r, a)
           old == s.devs[s.ip[a]]
<1>1. /\ RegistryRight(s, told) /\ s.ip[a] \in 1 .. Len(s.devs) /\ old \in RgDevices
      /\ old.ips = {a} /\ DeviceRight(s, s.ip[a], old, told)
  BY AtRight
<1>2. /\ d.ips = old.ips /\ d.mac = old.mac /\ d.name = old.name
      /\ d.host \in {old.host, a, RgNone}
      /\ d.snmp = old.snmp \/ (d.snmp = a /\ a \in told)
      /\ d.ports \subseteq old.ports \cup {a}
  OBVIOUS
<1> HIDE DEF s, old
<1>3. Keys(d) = Keys(old)
  BY <1>2 DEF Keys
<1>4. /\ d.name \in Keys(d) \cup {RgNone} /\ d.host \in d.ips \cup {RgNone}
      /\ d.snmp \in d.ips \cup {RgNone} /\ d.snmp \in told \cup {RgNone}
      /\ d.ports \subseteq d.ips
  BY <1>1, <1>2, <1>3 DEF DeviceRight
<1>5. old = s.devs[s.ip[a]]
  BY DEF old
<1> QED
  BY <1>1, <1>2, <1>4, <1>5, WriteOne DEF s

\* An answer to SNMP, a host found by nmap, a name of the reverse DNS, a host that gives
\* its facts: each is written on the device at its address.
LEMMA AnswerWritten ==
    ASSUME NEW r, NEW told, RegistryRight(r, told), NEW a \in RgIps, a \in told
    PROVE  RegistryRight(SnmpAnswer(r, a), told)
<1> DEFINE old == At(r, a).devs[At(r, a).ip[a]]
           new == [old EXCEPT !.snmp = a, !.host = IF @ = RgNone THEN a ELSE @]
<1>1. old \in RgDevices
  BY AtRight
<1>2. SnmpAnswer(r, a) = [At(r, a) EXCEPT !.devs[At(r, a).ip[a]] = new]
  BY DEF SnmpAnswer, OnAddress
<1>3. /\ new \in RgDevices /\ new.ips = old.ips /\ new.mac = old.mac /\ new.name = old.name
      /\ new.host \in {old.host, a} /\ new.snmp = a /\ new.ports = old.ports
  BY <1>1 DEF RgDevices
<1>4. /\ new.host \in {old.host, a, RgNone} /\ new.snmp = a /\ a \in told
      /\ new.ports \subseteq old.ports \cup {a}
  BY <1>3
<1> HIDE DEF new
<1>5. RegistryRight([At(r, a) EXCEPT !.devs[At(r, a).ip[a]] = new], told)
  BY <1>3, <1>4, AddressWritten
<1> QED
  BY <1>2, <1>5

\* The answers to SNMP are written one after the other.
LEMMA SummarisedRight ==
    ASSUME NEW r, NEW told, RegistryRight(r, told), NEW answers \in SUBSET RgIps,
           answers \subseteq told
    PROVE  RegistryRight(Summarised(r, answers), told)
<1> DEFINE Next1(left) == CHOOSE x \in left : TRUE
           Up(f, left) == IF left = {} THEN r
                          ELSE SnmpAnswer(f[left \ {Next1(left)}], Next1(left))
           small(n) == {X \in SUBSET answers : Cardinality(X) <= n}
           Runs(f, n) == f = [left \in small(n) |-> Up(f, left)]
           claim(n) == \E f : Runs(f, n)
           wrong == {n \in 0 .. Cardinality(answers) : ~ claim(n)}
<1>0. IsFiniteSet(answers) /\ Cardinality(answers) \in Nat
  BY RgIpsFinite, FS_Subset, FS_CardinalityType
<1>1. ASSUME NEW X \in SUBSET answers
      PROVE  /\ Cardinality(X) \in 0 .. Cardinality(answers)
             /\ Cardinality(X) = 0 => X = {}
             /\ X # {} => /\ Next1(X) \in X /\ X \ {Next1(X)} \in SUBSET answers
                          /\ Cardinality(X) > 0
                          /\ Cardinality(X \ {Next1(X)}) = Cardinality(X) - 1
  <2>1. IsFiniteSet(X) /\ Cardinality(X) \in Nat /\ Cardinality(X) <= Cardinality(answers)
    BY <1>0, FS_Subset, FS_CardinalityType
  <2>2. Cardinality(X) = 0 <=> X = {}
    BY <2>1, FS_EmptySet
  <2>3. X # {} => Next1(X) \in X
    OBVIOUS
  <2> HIDE DEF Next1
  <2>4. X # {} => Cardinality(X \ {Next1(X)}) = Cardinality(X) - 1
    BY <2>1, <2>3, FS_RemoveElement
  <2> QED
    BY <1>0, <2>1, <2>2, <2>3, <2>4
<1> HIDE DEF Next1
<1>2. claim(0)
  <2> DEFINE f == [left \in small(0) |-> r]
  <2>1. ASSUME NEW left \in small(0) PROVE left = {}
    <3>1. left \in SUBSET answers /\ Cardinality(left) <= 0
      OBVIOUS
    <3>2. Cardinality(left) \in 0 .. Cardinality(answers)
      BY <1>1, <3>1
    <3>3. Cardinality(left) = 0
      BY <1>0, <3>1, <3>2
    <3> QED
      BY <1>1, <3>1, <3>3
  <2>2. Runs(f, 0)
    <3> HIDE DEF small
    <3> QED
      BY <2>1
  <2> HIDE DEF f, Runs
  <2> QED
    BY <2>2
<1>3. ASSUME NEW n \in 1 .. Cardinality(answers), claim(n - 1)
      PROVE  claim(n)
  <2>1. PICK f : Runs(f, n - 1)
    BY <1>3
  <2> DEFINE g == [left \in small(n) |-> IF Cardinality(left) = n THEN Up(f, left) ELSE f[left]]
  <2>2. \A left \in small(n - 1) : f[left] = Up(f, left)
    <3> HIDE DEF small, Up
    <3> QED
      BY <2>1
  <2>3. ASSUME NEW left \in small(n)
        PROVE  /\ Up(g, left) = Up(f, left)
               /\ Cardinality(left) # n => left \in small(n - 1)
    <3>1. left # {} => /\ left \ {Next1(left)} \in small(n)
                       /\ Cardinality(left \ {Next1(left)}) # n
      BY <1>0, <1>1
    <3>2. left # {} => g[left \ {Next1(left)}] = f[left \ {Next1(left)}]
      <4> HIDE DEF small, Up
      <4> QED
        BY <3>1
    <3>3. Cardinality(left) # n => left \in small(n - 1)
      <4>1. left \in SUBSET answers /\ Cardinality(left) <= n
        OBVIOUS
      <4>2. Cardinality(left) \in 0 .. Cardinality(answers)
        BY <1>1, <4>1
      <4> QED
        BY <1>0, <4>1, <4>2
    <3> HIDE DEF small, g
    <3> QED
      BY <3>2, <3>3
  <2>4. \A left \in small(n) : g[left] = Up(g, left)
    <3> SUFFICES ASSUME NEW left \in small(n) PROVE g[left] = Up(g, left)
      OBVIOUS
    <3>1. g[left] = IF Cardinality(left) = n THEN Up(f, left) ELSE f[left]
      <4> HIDE DEF small, Up
      <4> QED
        OBVIOUS
    <3> HIDE DEF small, Up, g
    <3> QED
      BY <2>2, <2>3, <3>1
  <2>5. Runs(g, n)
    <3>1. g = [left \in small(n) |-> g[left]]
      <4> HIDE DEF small, Up
      <4> QED
        OBVIOUS
    <3> HIDE DEF small, Up, g
    <3> QED
      BY <2>4, <3>1
  <2> HIDE DEF g, Runs
  <2> QED
    BY <2>5
<1> HIDE DEF claim
<1>4. wrong = {}
  <2> SUFFICES ASSUME wrong # {} PROVE FALSE
    OBVIOUS
  <2>0. wrong \subseteq Nat
    BY <1>0
  <2>1. PICK n \in wrong : \A x \in wrong : n <= x
    BY <2>0, LeastNatural
  <2>2. n \in 1 .. Cardinality(answers) /\ n - 1 \in 0 .. Cardinality(answers) /\ n - 1 \notin wrong
    BY <1>0, <1>2, <2>1
  <2> QED
    BY <1>3, <2>1, <2>2
<1>5. PICK f : Runs(f, Cardinality(answers))
  <2>1. claim(Cardinality(answers))
    BY <1>0, <1>4
  <2> QED
    BY <2>1 DEF claim
<1>6. small(Cardinality(answers)) = SUBSET answers
  <2>1. ASSUME NEW X \in SUBSET answers PROVE Cardinality(X) <= Cardinality(answers)
    <3>1. Cardinality(X) \in 0 .. Cardinality(answers)
      BY <1>1
    <3> QED
      BY <1>0, <3>1
  <2> QED
    BY <2>1
<1> DEFINE steps == CHOOSE S : S = [left \in SUBSET answers |->
                       IF left = {} THEN r
                       ELSE SnmpAnswer(S[left \ {CHOOSE x \in left : TRUE}],
                                       CHOOSE x \in left : TRUE)]
<1>7. Summarised(r, answers) = steps[answers]
  BY Zenon DEF Summarised
<1>8. steps = [left \in SUBSET answers |-> Up(steps, left)]
  <2>1. f = [left \in SUBSET answers |-> Up(f, left)]
    BY <1>5, <1>6, Zenon
  <2> QED
    BY <2>1, Zenon DEF Next1
<1> HIDE DEF steps, Up, Runs, small
<1>9. \A left \in SUBSET answers : steps[left] = Up(steps, left)
  BY <1>8, Zenon
<1>10. ASSUME NEW s, RegistryRight(s, told), NEW a \in answers
       PROVE  RegistryRight(SnmpAnswer(s, a), told)
  BY <1>10, AnswerWritten
<1> DEFINE right(left) == RegistryRight(steps[left], told)
           bad == {n \in 0 .. Cardinality(answers) :
                     \E left \in SUBSET answers : Cardinality(left) = n /\ ~ right(left)}
<1>11. bad = {}
  <2> SUFFICES ASSUME bad # {} PROVE FALSE
    OBVIOUS
  <2>0. bad \subseteq Nat
    BY <1>0
  <2>1. PICK n \in bad : \A x \in bad : n <= x
    BY <2>0, LeastNatural
  <2>2. PICK left \in SUBSET answers : Cardinality(left) = n /\ ~ right(left)
    BY <2>1
  <2>3. left # {}
    <3>1. steps[{}] = r
      BY <1>9 DEF Up
    <3> QED
      BY <2>2, <3>1
  <2> DEFINE a == Next1(left)
             before == left \ {a}
  <2>4. a \in answers /\ before \in SUBSET answers /\ Cardinality(before) = n - 1 /\ n > 0
    BY <1>1, <2>2, <2>3
  <2>5. right(before)
    <3>1. n - 1 \in 0 .. Cardinality(answers) /\ n - 1 \notin bad
      BY <1>0, <2>0, <2>1, <2>4
    <3> QED
      BY <2>4, <3>1
  <2>6. steps[left] = SnmpAnswer(steps[before], a)
    BY <1>9, <2>3 DEF Up
  <2> QED
    BY <1>10, <2>2, <2>4, <2>5, <2>6
<1> QED
  <2>1. right(answers)
    BY <1>0, <1>11
  <2> QED
    BY <1>7, <2>1

\* After the answers, who has given none shows no summary.
LEMMA SnmpSummariesRight ==
    ASSUME NEW r, RegistryRight(r, RgIps), NEW answers \in SUBSET RgIps
    PROVE  RegistryRight(SnmpSummaries(r, answers), answers)
<1> DEFINE s == Summarised(r, answers)
           new(k) == IF s.devs[k].ips \cap answers = {} THEN [s.devs[k] EXCEPT !.snmp = RgNone]
                     ELSE s.devs[k]
           devs == [k \in DOMAIN s.devs |-> new(k)]
<1>1. RegistryRight(s, RgIps)
  BY SummarisedRight
<1>2. SnmpSummaries(r, answers) = [s EXCEPT !.devs = devs]
  BY DEF SnmpSummaries
<1> HIDE DEF s
<1>3. /\ Len(s.devs) \in Nat /\ DOMAIN s.devs = 1 .. Len(s.devs)
      /\ \A k \in 1 .. Len(s.devs) : s.devs[k] \in RgDevices /\ DeviceRight(s, k, s.devs[k], RgIps)
  BY <1>1 DEF RegistryRight, RegistryShape
<1>4. ASSUME NEW k \in 1 .. Len(s.devs)
      PROVE  /\ new(k) \in RgDevices
             /\ new(k).ips = s.devs[k].ips /\ new(k).mac = s.devs[k].mac
             /\ new(k).name \in Keys(new(k)) \cup {RgNone}
             /\ new(k).host \in new(k).ips \cup {RgNone}
             /\ new(k).snmp \in new(k).ips \cup {RgNone}
             /\ new(k).snmp \in answers \cup {RgNone}
             /\ new(k).ports \subseteq new(k).ips
  <2> DEFINE d == s.devs[k]
  <2>1. d \in RgDevices /\ DeviceRight(s, k, d, RgIps)
    BY <1>3
  <2>2. CASE d.ips \cap answers = {}
    <3>1. /\ new(k) \in RgDevices /\ new(k).ips = d.ips /\ new(k).mac = d.mac
          /\ new(k).name = d.name /\ new(k).host = d.host /\ new(k).snmp = RgNone
          /\ new(k).ports = d.ports
      BY <2>1, <2>2 DEF RgDevices
    <3>2. Keys(new(k)) = Keys(d)
      BY <3>1 DEF Keys
    <3> HIDE DEF new
    <3> QED
      BY <2>1, <3>1, <3>2 DEF DeviceRight
  <2>3. CASE d.ips \cap answers # {}
    <3>1. new(k) = d
      BY <2>3
    <3>2. d.snmp \in answers \cup {RgNone}
      BY <2>1, <2>3 DEF DeviceRight
    <3> HIDE DEF new
    <3> QED
      BY <2>1, <3>1, <3>2 DEF DeviceRight
  <2> QED
    BY <2>2, <2>3
<1> HIDE DEF new
<1>5. devs \in Seq(RgDevices) /\ Len(devs) = Len(s.devs)
  BY <1>3, <1>4
<1>6. \A k \in 1 .. Len(s.devs) : devs[k] = new(k)
  BY <1>3
<1> HIDE DEF devs
<1> QED
  BY <1>1, <1>2, <1>4, <1>5, <1>6, WriteAll

-----------------------------------------------------------------------------
\* The scan begins with nothing known.
LEMMA RgInitInv == RgInit => RgInv
<1> SUFFICES ASSUME RgInit PROVE RgInv
  OBVIOUS
<1>1. RegistryRight(EmptyRegistry, {}) /\ RegistryRight(EmptyRegistry, RgIps)
  BY EmptyRight, ToldMore
<1> QED
  BY <1>1, ToldMore DEF RgInit, RgInv

\* A step that only changes the registry in place keeps the invariant when that is right.
LEMMA EnrichKeeps ==
    ASSUME NEW phase, phase # "idle", NEW r, RgInv, Enrich(phase, r),
           phase \notin {"fast", "ping"}, RegistryRight(r, rgAnswered)
    PROVE  RgInv'
BY DEF RgInv, Enrich

\* The stages of a scan, the first one.
LEMMA ObservedKeeps ==
    ASSUME RgInv, NEW m \in RgMacs \cup {RgNone}, NEW a \in RgIps, NEW h \in {a, RgNone},
           Observed(m, a, h), rgOnline' \in SUBSET RgIps
    PROVE  RgInv'
<1>1. a # RgNone
  BY RgKeysApart
<1>2. RegistryRight(Upsert(rgNew, m, a, h), rgAnswered)
  BY <1>1, UpsertRight DEF RgInv
<1> QED
  BY <1>2 DEF RgInv, Observed

\* What the providers of the slow stage find is written where it belongs.
LEMMA NmapHostKeeps ==
    ASSUME RgInv, NEW a \in RgIps, NEW m \in RgMacs \cup {RgNone}, NmapHost(m, a)
    PROVE  RgInv'
<1>0. PICK open \in SUBSET {a} :
          LET Ports(d) == [d EXCEPT !.ports = @ \cup open] IN
          Enrich("nmap", OnAddress(Upsert(rgCache, m, a, RgNone), a, Ports))
  BY DEF NmapHost
<1> DEFINE r == Upsert(rgCache, m, a, RgNone)
           old == At(r, a).devs[At(r, a).ip[a]]
           new == [old EXCEPT !.ports = @ \cup open]
<1>1. RegistryRight(r, rgAnswered)
  <2>1. a # RgNone
    BY RgKeysApart
  <2> QED
    BY <2>1, UpsertRight DEF RgInv
<1>2. Enrich("nmap", [At(r, a) EXCEPT !.devs[At(r, a).ip[a]] = new])
  BY <1>0 DEF OnAddress
<1> HIDE DEF r
<1>3. old \in RgDevices
  BY <1>1, AtRight
<1>4. /\ new \in RgDevices /\ new.ips = old.ips /\ new.mac = old.mac /\ new.name = old.name
      /\ new.host = old.host /\ new.snmp = old.snmp
      /\ new.ports = old.ports \cup open /\ new.ports \subseteq old.ports \cup {a}
  BY <1>3 DEF RgDevices
<1> HIDE DEF new
<1>5. RegistryRight([At(r, a) EXCEPT !.devs[At(r, a).ip[a]] = new], rgAnswered)
  BY <1>1, <1>4, AddressWritten
<1> QED
  BY <1>2, <1>5, EnrichKeeps

LEMMA ReverseNameKeeps ==
    ASSUME RgInv, NEW a \in RgIps, ReverseName(a)
    PROVE  RgInv'
<1> DEFINE r == rgCache
           old == At(r, a).devs[At(r, a).ip[a]]
           new == [old EXCEPT !.host = a]
<1>1. RegistryRight(r, rgAnswered)
  BY DEF RgInv
<1>2. Enrich("rdns", [At(r, a) EXCEPT !.devs[At(r, a).ip[a]] = new])
  BY DEF ReverseName, OnAddress
<1>3. old \in RgDevices
  BY <1>1, AtRight
<1>4. /\ new \in RgDevices /\ new.ips = old.ips /\ new.mac = old.mac /\ new.name = old.name
      /\ new.host = a /\ new.snmp = old.snmp /\ new.ports = old.ports
  BY <1>3 DEF RgDevices
<1> HIDE DEF new
<1>5. RegistryRight([At(r, a) EXCEPT !.devs[At(r, a).ip[a]] = new], rgAnswered)
  BY <1>1, <1>4, AddressWritten
<1> QED
  BY <1>2, <1>5, EnrichKeeps

LEMMA SshHostKeeps ==
    ASSUME RgInv, NEW a \in RgIps, SshHost(a)
    PROVE  RgInv'
<1> DEFINE r == rgCache
           old == At(r, a).devs[At(r, a).ip[a]]
           new == [old EXCEPT !.host = IF @ = RgNone THEN a ELSE @]
<1>1. RegistryRight(r, rgAnswered)
  BY DEF RgInv
<1>2. \/ Enrich("ssh", At(r, a))
      \/ Enrich("ssh", [At(r, a) EXCEPT !.devs[At(r, a).ip[a]] = new])
  BY DEF SshHost, OnAddress
<1>3. old \in RgDevices
  BY <1>1, AtRight
<1>4. /\ new \in RgDevices /\ new.ips = old.ips /\ new.mac = old.mac /\ new.name = old.name
      /\ new.host \in {old.host, a} /\ new.snmp = old.snmp
      /\ new.ports \subseteq old.ports \cup {a}
  BY <1>3 DEF RgDevices
<1> HIDE DEF new
<1>5. RegistryRight([At(r, a) EXCEPT !.devs[At(r, a).ip[a]] = new], rgAnswered)
  BY <1>1, <1>4, AddressWritten
<1>6. RegistryRight(At(r, a), rgAnswered)
  BY <1>1, AtRight
<1> QED
  BY <1>2, <1>5, <1>6, EnrichKeeps

LEMMA RgStepInv == RgInv /\ [RgNext]_rgVars => RgInv'
<1> SUFFICES ASSUME RgInv, [RgNext]_rgVars PROVE RgInv'
  OBVIOUS
<1>0. /\ rgCatalogue \in Seq(RgEntry) /\ rgAnswered \subseteq RgIps
      /\ RegistryRight(rgNew, rgAnswered) /\ RegistryRight(rgCache, rgAnswered)
      /\ \A told : RegistryRight(EmptyRegistry, told)
  BY RgCataloguesOfEntries, EmptyRight, ToldMore DEF RgInv
<1>1. CASE RgBegin
  <2>1. RegistryRight(Seeded(EmptyRegistry, rgCatalogue), rgAnswered)
    BY <1>0, SeededRight
  <2> QED
    BY <1>1, <2>1 DEF RgInv, RgBegin
<1>2. CASE FastDone
  <2>1. RegistryRight(Named(CarriedOver(rgNew, rgCache), rgCatalogue), rgAnswered)
    BY <1>0, CarriedRight, NamedRight
  <2> QED
    BY <1>2, <2>1 DEF RgInv, FastDone
<1>3. CASE PingedAll
  BY <1>0, <1>3 DEF RgInv, PingedAll
<1>4. CASE NextProvider
  BY <1>4 DEF RgInv, NextProvider
<1>5. CASE SnmpDone
  <2>1. PICK answers \in SUBSET (RgIps \ RgMuted) :
            /\ rgCache' = Named(SnmpSummaries(rgCache, answers), rgCatalogue)
            /\ rgAnswered' = answers
    BY <1>5 DEF SnmpDone
  <2>2. answers \in SUBSET RgIps
    OBVIOUS
  <2>3. RegistryRight(rgCache', answers)
    <3>1. RegistryRight(rgCache, RgIps)
      BY <1>0, ToldMore
    <3>2. RegistryRight(SnmpSummaries(rgCache, answers), answers)
      BY <2>2, <3>1, SnmpSummariesRight
    <3> QED
      BY <1>0, <2>1, <3>2, NamedRight
  <2>4. rgNew' = EmptyRegistry /\ RegistryRight(rgNew', answers)
    BY <1>0, <1>5 DEF RgInv, SnmpDone
  <2> QED
    BY <1>5, <2>1, <2>2, <2>3, <2>4 DEF RgInv, SnmpDone
<1>11. CASE SnmpSkipped
  <2>1. RegistryRight(Named(rgCache, rgCatalogue), rgAnswered)
    BY <1>0, NamedRight
  <2> QED
    BY <1>11, <2>1 DEF RgInv, SnmpSkipped
<1>6. ASSUME NEW a \in RgIps, SweepAnswer(a) PROVE RgInv'
  <2>1. Observed(RgNone, a, RgNone) /\ rgOnline' \in SUBSET RgIps
    BY <1>6 DEF SweepAnswer, RgInv
  <2> QED
    BY <2>1, ObservedKeeps
<1>7. ASSUME NEW a \in RgIps, NEW m \in RgMacs, Lease(m, a) PROVE RgInv'
  <2>1. Observed(m, a, a) /\ rgOnline' \in SUBSET RgIps
    BY <1>7 DEF Lease, RgInv
  <2> QED
    BY <2>1, ObservedKeeps
<1>8. ASSUME NEW a \in RgIps, NEW m \in RgMacs, ArpRow(m, a) PROVE RgInv'
  <2>1. Observed(m, a, RgNone) /\ rgOnline' \in SUBSET RgIps
    BY <1>8 DEF ArpRow, RgInv
  <2> QED
    BY <2>1, ObservedKeeps
<1>9. ASSUME NEW c \in RgCatalogues, EditCatalogue(c) PROVE RgInv'
  <2>1. c \in Seq(RgEntry)
    BY RgCataloguesOfEntries
  <2>2. RegistryRight(Named(Seeded(rgCache, c), c), rgAnswered)
    BY <1>0, <2>1, SeededRight, NamedRight
  <2> QED
    BY <1>9, <2>2 DEF RgInv, EditCatalogue
<1>10. CASE UNCHANGED rgVars
  BY <1>10 DEF RgInv, rgVars
<1> QED
  BY <1>1, <1>2, <1>3, <1>4, <1>5, <1>6, <1>7, <1>8, <1>9, <1>10, <1>11,
     NmapHostKeeps, ReverseNameKeeps, SshHostKeeps DEF RgNext

LEMMA RgInvExact == RgInv => DevicesExact
<1> SUFFICES ASSUME RgInv PROVE DevicesExact
  OBVIOUS
<1>1. RegistryRight(rgNew, rgAnswered) /\ RegistryRight(rgCache, rgAnswered)
  BY DEF RgInv
<1>2. DevicesApart
  <2>1. \A r \in {rgNew, rgCache} :
           /\ \A j, k \in DOMAIN r.devs : j # k => Keys(r.devs[j]) \cap Keys(r.devs[k]) = {}
           /\ \A k \in DOMAIN r.devs : \A a, b \in r.devs[k].ips : a = b
           /\ \A a \in RgIps : r.ip[a] # 0 => r.devs[r.ip[a]].ips = {a}
           /\ \A k \in DOMAIN r.devs : \A a \in r.devs[k].ips : r.ip[a] = k
    <3> TAKE r \in {rgNew, rgCache}
    <3>1. RegistryRight(r, rgAnswered)
      BY <1>1
    <3> QED
      BY <3>1, RightIsExact
  <2> QED
    BY <2>1 DEF DevicesApart
<1>3. \A r \in {rgNew, rgCache} : \A k \in DOMAIN r.devs :
        LET d == r.devs[k] IN
        /\ d.name \in Keys(d) \cup {RgNone}
        /\ {d.host, d.snmp} \subseteq d.ips \cup {RgNone}
        /\ d.ports \subseteq d.ips
        /\ d.snmp \in rgAnswered \cup {RgNone}
  BY <1>1, RightIsExact
<1> QED
  BY <1>2, <1>3 DEF DevicesExact, NothingInherited

\* However the sources of a scan answer, whatever the catalogue says and however the
\* scans follow one another, no device of the list is another and none shows what is
\* about another; only who answered SNMP the last time its provider went through shows a
\* summary (registry.py, discovery.py, scanner.py).
THEOREM RegistryExact == RgSpec => []DevicesExact
<1>1. RgSpec => []RgInv
  BY RgInitInv, RgStepInv, PTL DEF RgSpec
<1> QED
  BY <1>1, RgInvExact, PTL

-----------------------------------------------------------------------------
(***************************************************************************)
(* The alerts of a round: what the rules make carries the name of the rule *)
(* that made it, and only two rules say since when.                        *)
(***************************************************************************)

\* What a rule makes: an alert of its own, without a beginning.
OwnAlert(a, key) ==
    /\ a = [rule |-> key, subject |-> a.subject, level |-> a.level, since |-> a.since]
    /\ key \notin {"wireguard.relay_giu", "collector.sorgente_giu"} => a.since = 0

LEMMA OneOrNone ==
    ASSUME NEW a, NEW s, s = <<a>> \/ s = <<>>, NEW i \in DOMAIN s
    PROVE  i \in Int /\ s[i] = a
OBVIOUS

LEMMA AlertIsOwn ==
    ASSUME NEW key, NEW subject
    PROVE  OwnAlert(Alert(key, subject), key)
BY DEF Alert, OwnAlert

LEMMA RulesMakeTheirOwn ==
    ASSUME NEW snap, NEW now, NEW n \in DOMAIN CATALOGO,
           NEW i \in DOMAIN Prodotti(CATALOGO[n].key, snap, now)
    PROVE  i \in Int /\ OwnAlert(Prodotti(CATALOGO[n].key, snap, now)[i], CATALOGO[n].key)
<1>0. n \in 1 .. 15
  BY DEF CATALOGO
<1>1. CASE n = 1
  <2>1. CATALOGO[n].key = "docker.restart_loop"
    BY <1>1 DEF CATALOGO, Regola
  <2>2. Prodotti("docker.restart_loop", snap, now) = DockerRestartLoop(snap)
    BY DEF Prodotti
  <2>3. ASSUME NEW k \in DOMAIN DockerRestartLoop(snap)
        PROVE  k \in Int /\ \E x : DockerRestartLoop(snap)[k] = Alert("docker.restart_loop", x)
    <3>1. k \in Int
      <4>1. \E n1 : DOMAIN DockerRestartLoop(snap) = 1 .. n1
        BY DEF DockerRestartLoop, Fired, Picked
      <4> QED
        BY <2>3, <4>1
    <3> QED
      BY <2>3, <3>1 DEF DockerRestartLoop, Fired
  <2> QED
    BY <2>1, <2>2, <2>3, AlertIsOwn
<1>2. CASE n = 2
  <2>1. CATALOGO[n].key = "docker.host_giu"
    BY <1>2 DEF CATALOGO, Regola
  <2>2. Prodotti("docker.host_giu", snap, now) = DockerHostGiu(snap)
    BY DEF Prodotti
  <2>3. ASSUME NEW k \in DOMAIN DockerHostGiu(snap)
        PROVE  k \in Int /\ \E x : DockerHostGiu(snap)[k] = Alert("docker.host_giu", x)
    <3>1. k \in Int
      <4>1. \E n1 : DOMAIN DockerHostGiu(snap) = 1 .. n1
        BY DEF DockerHostGiu, Fired, Picked
      <4> QED
        BY <2>3, <4>1
    <3> QED
      BY <2>3, <3>1 DEF DockerHostGiu, Fired
  <2> QED
    BY <2>1, <2>2, <2>3, AlertIsOwn
<1>3. CASE n = 3
  <2>1. CATALOGO[n].key = "services.systemd_giu"
    BY <1>3 DEF CATALOGO, Regola
  <2>2. Prodotti("services.systemd_giu", snap, now) = SystemdGiu(snap)
    BY DEF Prodotti
  <2>3. ASSUME NEW k \in DOMAIN SystemdGiu(snap)
        PROVE  k \in Int /\ \E x : SystemdGiu(snap)[k] = Alert("services.systemd_giu", x)
    <3>1. k \in Int
      <4>1. \E n1 : DOMAIN SystemdGiu(snap) = 1 .. n1
        BY DEF SystemdGiu, Fired, Picked
      <4> QED
        BY <2>3, <4>1
    <3> QED
      BY <2>3, <3>1 DEF SystemdGiu, Fired
  <2> QED
    BY <2>1, <2>2, <2>3, AlertIsOwn
<1>4. CASE n = 4
  <2>1. CATALOGO[n].key = "services.windows_giu"
    BY <1>4 DEF CATALOGO, Regola
  <2>2. Prodotti("services.windows_giu", snap, now) = WindowsGiu(snap)
    BY DEF Prodotti
  <2>3. ASSUME NEW k \in DOMAIN WindowsGiu(snap)
        PROVE  k \in Int /\ \E x : WindowsGiu(snap)[k] = Alert("services.windows_giu", x)
    <3>1. k \in Int
      <4>1. \E n1 : DOMAIN WindowsGiu(snap) = 1 .. n1
        BY DEF WindowsGiu, Fired, Picked
      <4> QED
        BY <2>3, <4>1
    <3> QED
      BY <2>3, <3>1 DEF WindowsGiu, Fired
  <2> QED
    BY <2>1, <2>2, <2>3, AlertIsOwn
<1>5. CASE n = 5
  <2>1. CATALOGO[n].key = "services.healthcheck_giu"
    BY <1>5 DEF CATALOGO, Regola
  <2>2. Prodotti("services.healthcheck_giu", snap, now) = HealthcheckGiu(snap)
    BY DEF Prodotti
  <2>3. ASSUME NEW k \in DOMAIN HealthcheckGiu(snap)
        PROVE  k \in Int /\ \E x : HealthcheckGiu(snap)[k] = Alert("services.healthcheck_giu", x)
    <3>1. k \in Int
      <4>1. \E n1 : DOMAIN HealthcheckGiu(snap) = 1 .. n1
        BY DEF HealthcheckGiu, Fired, Picked
      <4> QED
        BY <2>3, <4>1
    <3> QED
      BY <2>3, <3>1 DEF HealthcheckGiu, Fired
  <2> QED
    BY <2>1, <2>2, <2>3, AlertIsOwn
<1>6. CASE n = 6
  <2>1. CATALOGO[n].key = "collector.sorgente_giu"
    BY <1>6 DEF CATALOGO, Regola
  <2>2. Prodotti("collector.sorgente_giu", snap, now) = SorgenteGiu(snap)
    BY DEF Prodotti
  <2>3. ASSUME NEW k \in DOMAIN SorgenteGiu(snap)
        PROVE  k \in Int /\ OwnAlert(SorgenteGiu(snap)[k], "collector.sorgente_giu")
    <3>1. k \in Int
      <4>1. \E n1 : DOMAIN SorgenteGiu(snap) = 1 .. n1
        BY DEF SorgenteGiu, Fired, Picked
      <4> QED
        BY <2>3, <4>1
    <3> QED
      BY <2>3, <3>1 DEF SorgenteGiu, Fired, OwnAlert
  <2> QED
    BY <2>1, <2>2, <2>3
<1>7. CASE n = 7
  <2>1. CATALOGO[n].key = "security.api_aperta"
    BY <1>7 DEF CATALOGO, Regola
  <2>2. Prodotti("security.api_aperta", snap, now) = ApiAperta(snap)
    BY DEF Prodotti
  <2>3. ASSUME NEW k \in DOMAIN ApiAperta(snap)
        PROVE  k \in Int /\ \E x : ApiAperta(snap)[k] = Alert("security.api_aperta", x)
    <3>1. k \in Int
      <4>1. \E n1 : DOMAIN ApiAperta(snap) = 1 .. n1
        BY DEF ApiAperta, Fired, Picked
      <4> QED
        BY <2>3, <4>1
    <3> QED
      BY <2>3, <3>1 DEF ApiAperta, Fired
  <2> QED
    BY <2>1, <2>2, <2>3, AlertIsOwn
<1>8. CASE n = 8
  <2>1. CATALOGO[n].key = "resources.nessun_host"
    BY <1>8 DEF CATALOGO, Regola
  <2>2. Prodotti("resources.nessun_host", snap, now) = NessunHost(snap)
    BY DEF Prodotti
  <2>3. ASSUME NEW k \in DOMAIN NessunHost(snap)
        PROVE  k \in Int /\ NessunHost(snap)[k] = Alert("resources.nessun_host", "")
    <3>1. \/ NessunHost(snap) = <<Alert("resources.nessun_host", "")>>
          \/ NessunHost(snap) = <<>>
      BY DEF NessunHost, Once
    <3> QED
      BY <2>3, <3>1, OneOrNone
  <2> QED
    BY <2>1, <2>2, <2>3, AlertIsOwn
<1>9. CASE n = 9
  <2>1. CATALOGO[n].key = "resources.host_ssh_giu"
    BY <1>9 DEF CATALOGO, Regola
  <2>2. Prodotti("resources.host_ssh_giu", snap, now) = HostSshGiu(snap)
    BY DEF Prodotti
  <2>3. ASSUME NEW k \in DOMAIN HostSshGiu(snap)
        PROVE  k \in Int /\ \E x : HostSshGiu(snap)[k] = Alert("resources.host_ssh_giu", x)
    <3>1. k \in Int
      <4>1. \E n1 : DOMAIN HostSshGiu(snap) = 1 .. n1
        BY DEF HostSshGiu, Fired, Picked
      <4> QED
        BY <2>3, <4>1
    <3> QED
      BY <2>3, <3>1 DEF HostSshGiu, Fired
  <2> QED
    BY <2>1, <2>2, <2>3, AlertIsOwn
<1>10. CASE n = 10
  <2>1. CATALOGO[n].key = "host.subnet_duplicata"
    BY <1>10 DEF CATALOGO, Regola
  <2>2. Prodotti("host.subnet_duplicata", snap, now) = SubnetDuplicata(snap)
    BY DEF Prodotti
  <2>3. ASSUME NEW k \in DOMAIN SubnetDuplicata(snap)
        PROVE  k \in Int /\ \E x : SubnetDuplicata(snap)[k] = Alert("host.subnet_duplicata", x)
    <3>1. k \in Int
      <4>1. \E n1 : DOMAIN SubnetDuplicata(snap) = 1 .. n1
        BY DEF SubnetDuplicata, Fired, Picked
      <4> QED
        BY <2>3, <4>1
    <3> QED
      BY <2>3, <3>1 DEF SubnetDuplicata, Fired
  <2> QED
    BY <2>1, <2>2, <2>3, AlertIsOwn
<1>11. CASE n = 11
  <2>1. CATALOGO[n].key = "host.default_route_multipla"
    BY <1>11 DEF CATALOGO, Regola
  <2>2. Prodotti("host.default_route_multipla", snap, now) = DefaultRouteMultipla(snap)
    BY DEF Prodotti
  <2>3. ASSUME NEW k \in DOMAIN DefaultRouteMultipla(snap)
        PROVE  k \in Int /\ DefaultRouteMultipla(snap)[k] = Alert("host.default_route_multipla", "")
    <3>1. \/ DefaultRouteMultipla(snap) = <<Alert("host.default_route_multipla", "")>>
          \/ DefaultRouteMultipla(snap) = <<>>
      BY DEF DefaultRouteMultipla, Once
    <3> QED
      BY <2>3, <3>1, OneOrNone
  <2> QED
    BY <2>1, <2>2, <2>3, AlertIsOwn
<1>12. CASE n = 12
  <2>1. CATALOGO[n].key = "host.link_giu_con_ip"
    BY <1>12 DEF CATALOGO, Regola
  <2>2. Prodotti("host.link_giu_con_ip", snap, now) = LinkGiuConIp(snap)
    BY DEF Prodotti
  <2>3. ASSUME NEW k \in DOMAIN LinkGiuConIp(snap)
        PROVE  k \in Int /\ \E x : LinkGiuConIp(snap)[k] = Alert("host.link_giu_con_ip", x)
    <3>1. k \in Int
      <4>1. \E n1 : DOMAIN LinkGiuConIp(snap) = 1 .. n1
        BY DEF LinkGiuConIp, Fired, Picked
      <4> QED
        BY <2>3, <4>1
    <3> QED
      BY <2>3, <3>1 DEF LinkGiuConIp, Fired
  <2> QED
    BY <2>1, <2>2, <2>3, AlertIsOwn
<1>13. CASE n = 13
  <2>1. CATALOGO[n].key = "wireguard.relay_giu"
    BY <1>13 DEF CATALOGO, Regola
  <2>2. Prodotti("wireguard.relay_giu", snap, now) = RelayGiu(snap, now)
    BY DEF Prodotti
  <2>3. ASSUME NEW k \in DOMAIN RelayGiu(snap, now)
        PROVE  k \in Int /\ OwnAlert(RelayGiu(snap, now)[k], "wireguard.relay_giu")
    <3>1. snap.relay # ""
      <4>1. ASSUME snap.relay = "" PROVE FALSE
        <5>1. RelayGiu(snap, now) = <<>>
          BY <4>1 DEF RelayGiu
        <5> QED
          BY <2>3, <5>1, OneOrNone
      <4> QED
        BY <4>1
    <3>3. k \in Int
      <4>1. \E n1 : DOMAIN RelayGiu(snap, now) = 1 .. n1
        BY <3>1 DEF RelayGiu, Fired, Picked
      <4> QED
        BY <2>3, <4>1
    <3>2. \E x, t : RelayGiu(snap, now)[k] = [Alert("wireguard.relay_giu", x) EXCEPT !.since = t]
      BY <2>3, <3>1 DEF RelayGiu, Fired
    <3> QED
      BY <3>2, <3>3 DEF OwnAlert, Alert
  <2> QED
    BY <2>1, <2>2, <2>3
<1>14. CASE n = 14
  <2>1. CATALOGO[n].key = "wireguard.relay_non_trovato"
    BY <1>14 DEF CATALOGO, Regola
  <2>2. Prodotti("wireguard.relay_non_trovato", snap, now) = RelayNonTrovato(snap)
    BY DEF Prodotti
  <2>3. ASSUME NEW k \in DOMAIN RelayNonTrovato(snap)
        PROVE  k \in Int /\ RelayNonTrovato(snap)[k] = Alert("wireguard.relay_non_trovato", snap.relay)
    <3>1. \/ RelayNonTrovato(snap) = <<Alert("wireguard.relay_non_trovato", snap.relay)>>
          \/ RelayNonTrovato(snap) = <<>>
      BY DEF RelayNonTrovato
    <3> QED
      BY <2>3, <3>1, OneOrNone
  <2> QED
    BY <2>1, <2>2, <2>3, AlertIsOwn
<1>15. CASE n = 15
  <2>1. CATALOGO[n].key = "wireguard.peer_mai_connesso"
    BY <1>15 DEF CATALOGO, Regola
  <2>2. Prodotti("wireguard.peer_mai_connesso", snap, now) = PeerMaiConnesso(snap)
    BY DEF Prodotti
  <2>3. ASSUME NEW k \in DOMAIN PeerMaiConnesso(snap)
        PROVE  k \in Int /\ \E x : PeerMaiConnesso(snap)[k] = Alert("wireguard.peer_mai_connesso", x)
    <3>1. k \in Int
      <4>1. \E n1 : DOMAIN PeerMaiConnesso(snap) = 1 .. n1
        BY DEF PeerMaiConnesso, Fired, Picked
      <4> QED
        BY <2>3, <4>1
    <3> QED
      BY <2>3, <3>1 DEF PeerMaiConnesso, Fired
  <2> QED
    BY <2>1, <2>2, <2>3, AlertIsOwn
<1> QED
  BY <1>0, <1>1, <1>2, <1>3, <1>4, <1>5, <1>6, <1>7, <1>8, <1>9, <1>10, <1>11, <1>12, <1>13, <1>14, <1>15
\* The name of a rule tells the rule.
LEMMA RuleOfKey ==
    ASSUME NEW n \in DOMAIN CATALOGO
    PROVE  /\ Rule(CATALOGO[n].key) = CATALOGO[n]
           /\ CATALOGO[n].min \in {"0", "60", "120", "300"}
<1>1. n \in 1 .. 15 /\ DOMAIN CATALOGO = 1 .. 15
  BY DEF CATALOGO
<1>2. \A m \in 1 .. 15 : CATALOGO[m].key = CATALOGO[n].key => m = n
  BY <1>1 DEF CATALOGO, Regola
<1>3. CATALOGO[n].min \in {"0", "60", "120", "300"}
  BY <1>1 DEF CATALOGO, Regola
<1>4. Rule(CATALOGO[n].key) = CATALOGO[n]
  <2> DEFINE all == {CATALOGO[i] : i \in DOMAIN CATALOGO}
  <2>1. CATALOGO[n] \in all /\ \A r \in all : r.key = CATALOGO[n].key => r = CATALOGO[n]
    BY <1>1, <1>2
  <2> HIDE DEF all
  <2>2. (CHOOSE r \in all : r.key = CATALOGO[n].key) = CATALOGO[n]
    BY <2>1
  <2> QED
    BY <2>2 DEF Rule, all
<1> QED
  BY <1>3, <1>4

\* The rule about the source says since when it has been down.
LEMMA SourceAlert ==
    ASSUME NEW snap, NEW source, snap.sources = <<source>>, NEW i \in DOMAIN SorgenteGiu(snap)
    PROVE  SorgenteGiu(snap)[i].since = source.since /\ ~ source.ok
<1> DEFINE places == {k \in DOMAIN snap.sources : ~ snap.sources[k].ok}
           hits == Picked(snap.sources, places)
<1>1. DOMAIN snap.sources = 1 .. 1 /\ snap.sources[1] = source
  OBVIOUS
<1>2. places \in SUBSET (1 .. 1) /\ \A k \in places : k = 1 /\ ~ source.ok
  BY <1>1
<1> HIDE DEF places
<1>3. i \in DOMAIN hits /\ SorgenteGiu(snap)[i].since = hits[i].since
  BY DEF SorgenteGiu, Fired, places
<1>4. i \in 1 .. Cardinality(places) /\ hits[i] = snap.sources[Nth(places, i)]
  BY <1>3 DEF Picked
<1>5. Nth(places, i) \in places
  BY <1>2, <1>4, PickedPlaces
<1> QED
  BY <1>1, <1>2, <1>3, <1>4, <1>5

\* What is seen in a round: alerts of rules that are on, one for each identity.
LEMMA SeenFacts ==
    ASSUME NEW cfg, NEW snap, NEW broken
    PROVE  /\ \A a \in Visti(cfg, snap, broken) :
                 \E n \in DOMAIN CATALOGO :
                    /\ OwnAlert(a, CATALOGO[n].key) /\ Abilitata(cfg, CATALOGO[n])
                    /\ \E i \in DOMAIN Prodotti(CATALOGO[n].key, snap, alNow) :
                          a = Prodotti(CATALOGO[n].key, snap, alNow)[i]
           /\ \A a, b \in Visti(cfg, snap, broken) : IdOf(a) = IdOf(b) => a = b
<1> DEFINE made == [i \in DOMAIN CATALOGO |->
              IF Abilitata(cfg, CATALOGO[i]) /\ CATALOGO[i].key \notin broken
              THEN Prodotti(CATALOGO[i].key, snap, alNow)
              ELSE <<>>]
           places == UNION {{i} \X DOMAIN made[i] : i \in DOMAIN made}
           Before(p, q) == p[1] < q[1] \/ (p[1] = q[1] /\ p[2] < q[2])
           Made(p) == made[p[1]][p[2]]
           firsts == {q \in places : \A e \in places : Before(e, q) => IdOf(Made(e)) # IdOf(Made(q))}
<1>1. Visti(cfg, snap, broken) = {Made(p) : p \in firsts}
  BY DEF Visti
<1>2. \A i \in DOMAIN made : i \in DOMAIN CATALOGO
  OBVIOUS
<1>3. ASSUME NEW i \in DOMAIN CATALOGO, NEW k \in DOMAIN made[i]
      PROVE  /\ Abilitata(cfg, CATALOGO[i]) /\ k \in DOMAIN Prodotti(CATALOGO[i].key, snap, alNow)
             /\ made[i][k] = Prodotti(CATALOGO[i].key, snap, alNow)[k]
             /\ OwnAlert(made[i][k], CATALOGO[i].key) /\ k \in Int
  <2>1. Abilitata(cfg, CATALOGO[i]) /\ CATALOGO[i].key \notin broken
    <3> SUFFICES ASSUME ~ (Abilitata(cfg, CATALOGO[i]) /\ CATALOGO[i].key \notin broken)
                 PROVE  FALSE
      OBVIOUS
    <3>1. made[i] = <<>>
      OBVIOUS
    <3> HIDE DEF made
    <3> QED
      BY <1>3, <3>1, OneOrNone
  <2>2. made[i] = Prodotti(CATALOGO[i].key, snap, alNow)
    BY <2>1
  <2> HIDE DEF made
  <2> QED
    BY <1>3, <2>1, <2>2, RulesMakeTheirOwn
<1>4. \A p \in places : p[1] \in DOMAIN CATALOGO /\ p[2] \in DOMAIN made[p[1]] /\ p = <<p[1], p[2]>>
  <2> HIDE DEF made
  <2> QED
    BY <1>2
<1> HIDE DEF made, places
<1>5. ASSUME NEW a \in Visti(cfg, snap, broken)
      PROVE  \E n \in DOMAIN CATALOGO :
                    /\ OwnAlert(a, CATALOGO[n].key) /\ Abilitata(cfg, CATALOGO[n])
                    /\ \E i \in DOMAIN Prodotti(CATALOGO[n].key, snap, alNow) :
                          a = Prodotti(CATALOGO[n].key, snap, alNow)[i]
  <2>1. PICK p \in places : a = made[p[1]][p[2]]
    BY <1>1, <1>5
  <2>2. p[1] \in DOMAIN CATALOGO /\ p[2] \in DOMAIN made[p[1]]
    BY <1>4
  <2> QED
    BY <1>3, <2>1, <2>2

<1>6. ASSUME NEW a \in Visti(cfg, snap, broken), NEW b \in Visti(cfg, snap, broken),
             IdOf(a) = IdOf(b)
      PROVE  a = b
  <2>1. PICK p \in firsts : a = Made(p)
    BY <1>1, <1>6
  <2>2. PICK q \in firsts : b = Made(q)
    BY <1>1, <1>6
  <2>3. /\ p \in places /\ p[1] \in Int /\ p[2] \in Int /\ p = <<p[1], p[2]>>
        /\ q \in places /\ q[1] \in Int /\ q[2] \in Int /\ q = <<q[1], q[2]>>
    <3>1. DOMAIN CATALOGO \subseteq Int
      BY DEF CATALOGO
    <3> QED
      BY <1>3, <1>4, <3>1
  <2>4. ~ Before(p, q) /\ ~ Before(q, p)
    <3> HIDE DEF Before, Made
    <3> QED
      BY <1>6, <2>1, <2>2, <2>3
  <2>5. p[1] = q[1] /\ p[2] = q[2]
    BY <2>3, <2>4
  <2>6. p = q
    BY <2>3, <2>5
  <2> QED
    BY <2>1, <2>2, <2>6
<1> QED
  BY <1>5, <1>6

-----------------------------------------------------------------------------
(***************************************************************************)
(* What the registry of the alerts remembers is the episodes of the run.   *)
(***************************************************************************)

AlRequestStates ==
    [at : {"idle"}] \cup [at : {"saving"}, what : AlSilences, list : SUBSET AlSilences]

AlTyped ==
    /\ alWorld \in DOMAIN AlWorlds
    /\ alNow \in Nat /\ alNow > 0
    /\ alSource \in [name : {"docker"}, ok : BOOLEAN, ts : Nat, since : Nat, fails : Nat]
    /\ alFile \in [cfg : AlConfigs, mtime : Nat, readable : BOOLEAN]
    /\ alGen \in Nat /\ alBoot \in AlConfigs
    /\ alCache \in [mtime : Nat, gen : Int, cfg : AlConfigs]
    /\ alRequest \in [AlRequests -> AlRequestStates]

\* A cache that seems fresh is: an edit moves the mtime, a save the count of the saves.
CacheRight ==
    /\ alCache.gen <= alGen /\ alCache.mtime <= alFile.mtime /\ alFile.mtime <= alNow
    /\ CacheFresh => alCache.cfg = alFile.cfg

\* The rounds of the run follow one another in time.
RunInOrder ==
    /\ \E S : alRounds \in Seq(S)
    /\ \A k \in 1 .. Len(alRounds) :
          /\ alRounds[k].t \in Nat /\ 0 < alRounds[k].t /\ alRounds[k].t <= alNow
          /\ alRounds[k].on \in BOOLEAN /\ alRounds[k].down \in BOOLEAN
          /\ ~ alRounds[k].on => alRounds[k].seen = {}
          /\ alRounds[k].file \in AlConfigs
    /\ \A j, k \in 1 .. Len(alRounds) : j < k => alRounds[j].t < alRounds[k].t

\* The episode that is on began in round b.
EpisodeFrom(id, b) ==
    /\ b \in Sightings(id)
    /\ \A j \in b .. Len(alRounds) : ~ Broken(id, j)
    /\ \A i \in Sightings(id) : i < b => \E j \in i .. b : Broken(id, j)

\* What is remembered is the episodes that are on: when each began, when its alert was
\* last there; an alert that is forgotten has had its last episode broken.
Remembers ==
    /\ DOMAIN alPrimo = DOMAIN alVisto
    /\ \A id \in DOMAIN alVisto :
          /\ \E k \in Sightings(id) :
                alVisto[id] = alRounds[k].t /\ \A j \in Sightings(id) : j <= k
          /\ \E b : EpisodeFrom(id, b) /\ alPrimo[id] = alRounds[b].t
    /\ \A id : id \notin DOMAIN alVisto =>
          \A i \in Sightings(id) : \E j \in i .. Len(alRounds) : Broken(id, j)

\* The rounds since time t, and none before them, found the source down.
DownSince(t) ==
    \E k \in 1 .. Len(alRounds) :
        /\ t = alRounds[k].t
        /\ \A j \in k .. Len(alRounds) : alRounds[j].down
        /\ k > 1 => ~ alRounds[k - 1].down

SourceRight ==
    /\ alSource.ok =>
          alSource.since = 0 /\ (Len(alRounds) > 0 => ~ alRounds[Len(alRounds)].down)
    /\ ~ alSource.ok => alSource.since # 0 /\ DownSince(alSource.since)

\* The beginning of an alert of the list is that of its episode.
ListTold ==
    /\ Len(alRounds) = 0 => alList = {}
    /\ \A a \in alList :
          \/ a.rule = "wireguard.relay_giu"
          \/ a.rule = "collector.sorgente_giu" /\ DownSince(a.since)
          \/ \E b : EpisodeFrom(IdOf(a), b) /\ a.since = alRounds[b].t

AlInv ==
    AlTyped /\ CacheRight /\ RunInOrder /\ Remembers /\ SourceRight /\ ListTold /\ ListedRight

\* An episode that is on has one beginning.
LEMMA OneEpisode ==
    ASSUME RunInOrder, NEW id, NEW b, EpisodeFrom(id, b)
    PROVE  Began(id) = b
<1>1. b \in Nat /\ b <= Len(alRounds) /\ Len(alRounds) \in Nat /\ DOMAIN alRounds = 1 .. Len(alRounds)
  BY DEF RunInOrder, EpisodeFrom, Sightings
<1>2. ASSUME NEW c, EpisodeFrom(id, c) PROVE c = b
  <2>1. c \in Nat /\ c <= Len(alRounds) /\ b \in Sightings(id) /\ c \in Sightings(id)
    BY <1>1, <1>2 DEF EpisodeFrom, Sightings
  <2>2. ~ (c < b)
    <3> SUFFICES ASSUME c < b PROVE FALSE
      OBVIOUS
    <3>1. PICK j \in c .. b : Broken(id, j)
      BY <2>1 DEF EpisodeFrom
    <3>2. j \in c .. Len(alRounds)
      BY <1>1, <2>1
    <3> QED
      BY <1>2, <3>1, <3>2 DEF EpisodeFrom
  <2>3. ~ (b < c)
    <3> SUFFICES ASSUME b < c PROVE FALSE
      OBVIOUS
    <3>1. PICK j \in b .. c : Broken(id, j)
      BY <1>2, <2>1 DEF EpisodeFrom
    <3>2. j \in b .. Len(alRounds)
      BY <1>1, <2>1
    <3> QED
      BY <3>1, <3>2 DEF EpisodeFrom
  <2> QED
    BY <1>1, <2>1, <2>2, <2>3
<1> DEFINE Right(k) == /\ \A j \in k .. Len(alRounds) : ~ Broken(id, j)
                       /\ \A i \in Sightings(id) : i < k => \E j \in i .. k : Broken(id, j)
<1>3. Began(id) = CHOOSE k \in Sightings(id) : Right(k)
  BY DEF Began
<1>4. \A k \in Sightings(id) : Right(k) <=> EpisodeFrom(id, k)
  BY DEF EpisodeFrom
<1>5. b \in Sightings(id) /\ Right(b)
  BY <1>4 DEF EpisodeFrom
<1> HIDE DEF Right
<1> QED
  BY <1>2, <1>3, <1>4, <1>5

LEMMA AlInvTold == AlInv => SinceIsEpisode
<1> SUFFICES ASSUME AlInv, NEW a \in alList
             PROVE  \/ a.rule = "wireguard.relay_giu"
                    \/ /\ a.rule = "collector.sorgente_giu"
                       /\ \E k \in DOMAIN alRounds :
                            /\ a.since = alRounds[k].t
                            /\ \A j \in k .. Len(alRounds) : alRounds[j].down
                            /\ k > 1 => ~ alRounds[k - 1].down
                    \/ a.since = alRounds[Began(IdOf(a))].t
  BY DEF SinceIsEpisode
<1>1. DOMAIN alRounds = 1 .. Len(alRounds) /\ RunInOrder
  BY DEF AlInv, RunInOrder
<1>2. \/ a.rule = "wireguard.relay_giu"
      \/ a.rule = "collector.sorgente_giu" /\ DownSince(a.since)
      \/ \E b : EpisodeFrom(IdOf(a), b) /\ a.since = alRounds[b].t
  BY DEF AlInv, ListTold
<1>3. CASE a.rule = "collector.sorgente_giu" /\ DownSince(a.since)
  BY <1>1, <1>3 DEF DownSince
<1>4. CASE \E b : EpisodeFrom(IdOf(a), b) /\ a.since = alRounds[b].t
  BY <1>1, <1>4, OneEpisode
<1> QED
  BY <1>2, <1>3, <1>4

LEMMA AlInitInv == AlInit => AlInv
<1> SUFFICES ASSUME AlInit PROVE AlInv
  OBVIOUS
<1>1. alRounds = <<>> /\ Len(alRounds) = 0 /\ DOMAIN alRounds = {} /\ alRounds \in Seq({})
  BY DEF AlInit
<1>2. NoConfig \in AlConfigs
  BY DEF NoConfig, AlConfigs
<1>3. AlTyped
  BY <1>2 DEF AlInit, AlTyped, AlRequestStates, SourceUp, NoCache
<1>4. CacheRight
  BY DEF AlInit, CacheRight, CacheFresh, NoCache
<1>5. RunInOrder
  BY <1>1 DEF RunInOrder
<1>6. Remembers
  <2>1. DOMAIN alPrimo = {} /\ DOMAIN alVisto = {}
    BY DEF AlInit
  <2> QED
    BY <1>1, <2>1 DEF Remembers, Sightings
<1>7. SourceRight /\ ListTold /\ ListedRight
  BY <1>1 DEF AlInit, SourceRight, SourceUp, ListTold, ListedRight
<1> QED
  BY <1>3, <1>4, <1>5, <1>6, <1>7 DEF AlInv

\* Outside the rounds nothing moves but the clock, the file and the requests.
LEMMA QuietKeeps ==
    ASSUME AlInv, UNCHANGED <<alSource, alRegistry, alRounds>>, AlTyped', CacheRight',
           alNow <= alNow'
    PROVE  AlInv'
<1>1. /\ alSource' = alSource /\ alRounds' = alRounds
      /\ alPrimo' = alPrimo /\ alVisto' = alVisto /\ alList' = alList
  BY DEF alRegistry
<1>2. RunInOrder'
  <2>1. alNow \in Nat /\ alNow' \in Nat
    BY DEF AlInv, AlTyped
  <2> QED
    BY <1>1, <2>1 DEF AlInv, RunInOrder
<1>3. \A id : Sightings(id)' = Sightings(id)
  BY <1>1 DEF Sightings, SeenAt
<1>4. \A id, j : Broken(id, j)' <=> Broken(id, j)
  BY <1>1, <1>3 DEF Broken, SeenAt
<1>5. \A id, b : EpisodeFrom(id, b)' <=> EpisodeFrom(id, b)
  BY <1>1, <1>3, <1>4 DEF EpisodeFrom
<1>6. Remembers'
  BY <1>1, <1>3, <1>4, <1>5 DEF AlInv, Remembers
<1>7. SourceRight' /\ ListTold'
  BY <1>1, <1>5 DEF AlInv, SourceRight, ListTold, DownSince
<1>8. ListedRight'
  BY <1>1, <1>3 DEF AlInv, ListedRight, LastRound
<1> QED
  BY <1>2, <1>6, <1>7, <1>8 DEF AlInv

LEMMA EditFileKeeps == ASSUME AlInv, EditFile PROVE AlInv'
<1>1. PICK cfg \in AlEdits \cup {alFile.cfg}, readable \in BOOLEAN :
          /\ alFile.mtime < alNow
          /\ alFile' = [cfg |-> cfg, mtime |-> alNow, readable |-> readable]
  BY DEF EditFile
<1>2. UNCHANGED <<alWorld, alNow, alSource, alGen, alBoot, alCache, alRegistry, alRequest, alRounds>>
  BY DEF EditFile
<1>3. AlTyped'
  <2>1. cfg \in AlConfigs /\ alNow \in Nat
    BY <1>1, AlEditsOfConfigs DEF AlInv, AlTyped
  <2> QED
    BY <1>1, <1>2, <2>1 DEF AlInv, AlTyped
<1>4. CacheRight'
  <2>1. alCache.mtime \in Nat /\ alFile.mtime \in Nat /\ alNow \in Nat /\ alFile'.mtime = alNow
    BY <1>1 DEF AlInv, AlTyped
  <2> QED
    BY <1>1, <1>2, <2>1 DEF AlInv, CacheRight, CacheFresh
<1> QED
  BY <1>2, <1>3, <1>4, QuietKeeps DEF AlInv, AlTyped

LEMMA SilenceReadKeeps == ASSUME AlInv, NEW r \in AlRequests, SilenceRead(r) PROVE AlInv'
<1>1. UNCHANGED <<alWorld, alNow, alSource, alConfig, alCache, alRegistry, alRounds>>
  BY DEF SilenceRead
<1>2. alRequest' \in [AlRequests -> AlRequestStates]
  <2>1. PICK s \in AlSilences :
            \/ UNCHANGED alRequest
            \/ alRequest' = [alRequest EXCEPT ![r] =
                  [at |-> "saving", what |-> s, list |-> alFile.cfg.silenced \cup {s}]]
    BY DEF SilenceRead
  <2>2. alFile.cfg.silenced \in SUBSET AlSilences
    BY DEF AlInv, AlTyped, AlConfigs
  <2>3. [at |-> "saving", what |-> s, list |-> alFile.cfg.silenced \cup {s}] \in AlRequestStates
    BY <2>2 DEF AlRequestStates
  <2> QED
    BY <2>1, <2>3 DEF AlInv, AlTyped
<1>3. AlTyped' /\ CacheRight'
  BY <1>1, <1>2 DEF AlInv, AlTyped, CacheRight, CacheFresh, alConfig
<1> QED
  BY <1>1, <1>3, QuietKeeps DEF AlInv, AlTyped

LEMMA SilenceSaveKeeps == ASSUME AlInv, NEW r \in AlRequests, SilenceSave(r) PROVE AlInv'
<1>1. /\ UNCHANGED <<alWorld, alNow, alSource, alBoot, alCache, alRegistry, alRounds>>
      /\ alRequest' = [alRequest EXCEPT ![r] = [at |-> "idle"]]
      /\ alRequest[r].at = "saving"
  BY DEF SilenceSave
<1>2. alRequest' \in [AlRequests -> AlRequestStates]
  <2>1. [at |-> "idle"] \in AlRequestStates
    BY DEF AlRequestStates
  <2> QED
    BY <1>1, <2>1 DEF AlInv, AlTyped
<1>3. CASE UNCHANGED <<alFile, alGen>>
  <2>1. AlTyped' /\ CacheRight'
    BY <1>1, <1>2, <1>3 DEF AlInv, AlTyped, CacheRight, CacheFresh
  <2> QED
    BY <1>1, <2>1, QuietKeeps DEF AlInv, AlTyped
<1>4. CASE /\ alFile' = [alFile EXCEPT !.cfg.silenced = alRequest[r].list, !.mtime = alNow]
           /\ alGen' = alGen + 1
  <2> DEFINE list == alRequest[r].list
             cfg == [alFile.cfg EXCEPT !.silenced = list]
  <2>1. list \in SUBSET AlSilences
    <3>1. alRequest[r] \in AlRequestStates
      BY DEF AlInv, AlTyped
    <3> QED
      BY <1>1, <3>1 DEF AlRequestStates
  <2>2. alFile \in [cfg : AlConfigs, mtime : Nat, readable : BOOLEAN] /\ alNow \in Nat
    BY DEF AlInv, AlTyped
  <2>3. cfg \in AlConfigs
    BY <2>1, <2>2 DEF AlConfigs
  <2>4. alFile' = [cfg |-> cfg, mtime |-> alNow, readable |-> alFile.readable]
    BY <1>4, <2>2
  <2> HIDE DEF cfg
  <2>5. AlTyped'
    BY <1>1, <1>2, <1>4, <2>2, <2>3, <2>4 DEF AlInv, AlTyped
  <2>6. CacheRight'
    <3>1. /\ alCache.gen \in Int /\ alGen \in Nat /\ alCache.mtime \in Nat /\ alFile.mtime \in Nat
          /\ alFile'.mtime = alNow
      BY <2>4 DEF AlInv, AlTyped
    <3> QED
      BY <1>1, <1>4, <2>2, <3>1 DEF AlInv, CacheRight, CacheFresh
  <2> QED
    BY <1>1, <2>5, <2>6, QuietKeeps DEF AlInv, AlTyped
<1> QED
  BY <1>3, <1>4 DEF SilenceSave

LEMMA AlRestartKeeps == ASSUME AlInv, AlRestart PROVE AlInv'
<1>1. /\ alRounds' = <<>> /\ Len(alRounds') = 0 /\ DOMAIN alRounds' = {} /\ alRounds' \in Seq({})
      /\ alPrimo' = <<>> /\ alVisto' = <<>> /\ alList' = {} /\ alSource' = SourceUp(0)
      /\ alCache' = NoCache /\ alGen' = 0 /\ alBoot' = alFile.cfg
      /\ alRequest' = [r \in AlRequests |-> [at |-> "idle"]]
      /\ UNCHANGED <<alWorld, alNow, alFile>>
  BY DEF AlRestart
<1>2. NoConfig \in AlConfigs
  BY DEF NoConfig, AlConfigs
<1>3. AlTyped'
  BY <1>1, <1>2 DEF AlInv, AlTyped, AlRequestStates, SourceUp, NoCache
<1>4. CacheRight'
  BY <1>1 DEF AlInv, AlTyped, CacheRight, CacheFresh, NoCache
<1>5. RunInOrder'
  BY <1>1 DEF RunInOrder
<1>6. Remembers'
  <2>1. DOMAIN alPrimo' = {} /\ DOMAIN alVisto' = {}
    BY <1>1
  <2> QED
    BY <1>1, <2>1 DEF Remembers, Sightings
<1>7. SourceRight' /\ ListTold' /\ ListedRight'
  BY <1>1 DEF SourceRight, SourceUp, ListTold, ListedRight
<1> QED
  BY <1>3, <1>4, <1>5, <1>6, <1>7 DEF AlInv

-----------------------------------------------------------------------------
\* The identities a row of the history saw.
RowIds(row) == {IdOf(a) : a \in row.seen}

\* A round more: what the rounds before it saw, and broke, is as it was.
LEMMA RoundAppended ==
    ASSUME AlInv, NEW row, alRounds' = Append(alRounds, row), NEW n, n = Len(alRounds)
    PROVE  /\ n \in Nat /\ Len(alRounds') = n + 1 /\ \E S : alRounds' \in Seq(S)
           /\ alRounds'[n + 1] = row /\ \A k \in 1 .. n : alRounds'[k] = alRounds[k]
           /\ \A id : Sightings(id) \subseteq 1 .. n
           /\ \A id : Sightings(id)' =
                 Sightings(id) \cup IF id \in RowIds(row) THEN {n + 1} ELSE {}
           /\ \A id : \A j \in 1 .. n : Broken(id, j)' <=> Broken(id, j)
           /\ \A id : Broken(id, n + 1)' <=>
                 \/ ~ row.on
                 \/ /\ id \notin RowIds(row)
                    /\ \A k \in Sightings(id) : row.t - alRounds[k].t > AlForget
<1>1. PICK S : alRounds \in Seq(S)
  BY DEF AlInv, RunInOrder
<1>2. /\ n \in Nat /\ Len(alRounds') = n + 1 /\ alRounds' \in Seq(S \cup {row})
      /\ alRounds'[n + 1] = row /\ \A k \in 1 .. n : alRounds'[k] = alRounds[k]
      /\ DOMAIN alRounds = 1 .. n /\ DOMAIN alRounds' = 1 .. n + 1
  <2>1. alRounds \in Seq(S \cup {row})
    BY <1>1
  <2> QED
    BY <2>1
<1>3. \A k \in 1 .. n : SeenAt(k)' = SeenAt(k)
  BY <1>2 DEF SeenAt
<1>4. SeenAt(n + 1)' = RowIds(row)
  BY <1>2 DEF SeenAt, RowIds
<1>5. ASSUME NEW id
      PROVE  /\ Sightings(id) \subseteq 1 .. n
             /\ Sightings(id)' = Sightings(id) \cup IF id \in RowIds(row) THEN {n + 1} ELSE {}
  <2>1. Sightings(id) = {k \in 1 .. n : id \in SeenAt(k)}
    BY <1>2 DEF Sightings
  <2>2. Sightings(id)' = {k \in 1 .. n + 1 : id \in SeenAt(k)'}
    BY <1>2 DEF Sightings
  <2>3. 1 .. n + 1 = (1 .. n) \cup {n + 1} /\ n + 1 \notin 1 .. n
    BY <1>2
  <2> QED
    BY <1>3, <1>4, <2>1, <2>2, <2>3
<1>6. ASSUME NEW id, NEW j \in 1 .. n PROVE Broken(id, j)' <=> Broken(id, j)
  <2>1. alRounds'[j] = alRounds[j] /\ SeenAt(j)' = SeenAt(j)
    BY <1>2, <1>3
  <2>2. \A k : (k \in Sightings(id)' /\ k < j) <=> (k \in Sightings(id) /\ k < j)
    BY <1>2, <1>5
  <2>3. \A k \in Sightings(id) : alRounds'[k] = alRounds[k]
    BY <1>2, <1>5
  <2>4. Broken(id, j)' <=>
          \/ ~ alRounds'[j].on
          \/ /\ id \notin SeenAt(j)'
             /\ \A k : k \in Sightings(id)' /\ k < j => alRounds'[j].t - alRounds'[k].t > AlForget
    BY DEF Broken
  <2>5. Broken(id, j) <=>
          \/ ~ alRounds[j].on
          \/ /\ id \notin SeenAt(j)
             /\ \A k : k \in Sightings(id) /\ k < j => alRounds[j].t - alRounds[k].t > AlForget
    BY DEF Broken
  <2> QED
    BY <2>1, <2>2, <2>3, <2>4, <2>5
<1>7. ASSUME NEW id
      PROVE  Broken(id, n + 1)' <=>
                 \/ ~ row.on
                 \/ /\ id \notin RowIds(row)
                    /\ \A k \in Sightings(id) : row.t - alRounds[k].t > AlForget
  <2>1. \A k : (k \in Sightings(id)' /\ k < n + 1) <=> k \in Sightings(id)
    BY <1>2, <1>5
  <2>2. \A k \in Sightings(id) : alRounds'[k] = alRounds[k]
    BY <1>2, <1>5
  <2>3. Broken(id, n + 1)' <=>
          \/ ~ alRounds'[n + 1].on
          \/ /\ id \notin SeenAt(n + 1)'
             /\ \A k : k \in Sightings(id)' /\ k < n + 1 =>
                          alRounds'[n + 1].t - alRounds'[k].t > AlForget
    BY DEF Broken
  <2> QED
    BY <1>2, <1>4, <2>1, <2>2, <2>3
<1> QED
  BY <1>2, <1>5, <1>6, <1>7

\* An episode that is on goes on, when the alert is there again or not missing for long.
LEMMA EpisodeGoesOn ==
    ASSUME AlInv, NEW row, alRounds' = Append(alRounds, row), NEW id, NEW b,
           NEW n, n = Len(alRounds), EpisodeFrom(id, b), ~ Broken(id, n + 1)'
    PROVE  EpisodeFrom(id, b)' /\ alRounds'[b] = alRounds[b]
<1>1. /\ n \in Nat /\ Len(alRounds') = n + 1
      /\ \A k \in 1 .. n : alRounds'[k] = alRounds[k]
      /\ Sightings(id) \subseteq 1 .. n
      /\ Sightings(id)' = Sightings(id) \cup IF id \in RowIds(row) THEN {n + 1} ELSE {}
      /\ \A j \in 1 .. n : Broken(id, j)' <=> Broken(id, j)
  BY RoundAppended
<1>2. ~ Broken(id, n + 1)'
  OBVIOUS
<1>3. b \in Sightings(id) /\ b \in 1 .. n /\ b \in Sightings(id)'
  BY <1>1 DEF EpisodeFrom
<1>4. ASSUME NEW j \in b .. n + 1 PROVE ~ Broken(id, j)'
  <2>1. CASE j = n + 1
    BY <1>2, <2>1
  <2>2. CASE j # n + 1
    <3>1. j \in b .. n /\ j \in 1 .. n
      BY <1>1, <1>3, <2>2
    <3> QED
      BY <1>1, <3>1 DEF EpisodeFrom
  <2> QED
    BY <2>1, <2>2
<1>5. ASSUME NEW i \in Sightings(id)', i < b PROVE \E j \in i .. b : Broken(id, j)'
  <2>1. i \in Sightings(id) /\ i \in 1 .. n
    BY <1>1, <1>3, <1>5
  <2>2. PICK j \in i .. b : Broken(id, j)
    BY <1>5, <2>1 DEF EpisodeFrom
  <2>3. j \in 1 .. n
    BY <1>1, <1>3, <2>1
  <2> QED
    BY <1>1, <2>2, <2>3
<1> QED
  BY <1>1, <1>3, <1>4, <1>5 DEF EpisodeFrom

\* What is known of an alert seen in a round, the source being as the round found it.
SeenRight(a, cfg, source) ==
    /\ a = [rule |-> a.rule, subject |-> a.subject, level |-> a.level, since |-> a.since]
    /\ Abilitata(cfg, Rule(a.rule)) /\ Rule(a.rule).min \in {"0", "60", "120", "300"}
    /\ a.rule \notin {"wireguard.relay_giu", "collector.sorgente_giu"} => a.since = 0
    /\ a.rule = "collector.sorgente_giu" => a.since = source.since /\ ~ source.ok

LEMMA VistiRight ==
    ASSUME NEW cfg, NEW snap, NEW broken, NEW source, snap.sources = <<source>>,
           NEW a \in Visti(cfg, snap, broken)
    PROVE  SeenRight(a, cfg, source)
<1>1. PICK n \in DOMAIN CATALOGO :
          /\ OwnAlert(a, CATALOGO[n].key) /\ Abilitata(cfg, CATALOGO[n])
          /\ \E i \in DOMAIN Prodotti(CATALOGO[n].key, snap, alNow) :
                a = Prodotti(CATALOGO[n].key, snap, alNow)[i]
  BY SeenFacts
<1>2. /\ a = [rule |-> CATALOGO[n].key, subject |-> a.subject, level |-> a.level, since |-> a.since]
      /\ CATALOGO[n].key \notin {"wireguard.relay_giu", "collector.sorgente_giu"} => a.since = 0
  BY <1>1 DEF OwnAlert
<1>3. a.rule = CATALOGO[n].key
  BY <1>2
<1>4. Rule(a.rule) = CATALOGO[n] /\ Rule(a.rule).min \in {"0", "60", "120", "300"}
  BY <1>3, RuleOfKey
<1>5. ASSUME a.rule = "collector.sorgente_giu" PROVE a.since = source.since /\ ~ source.ok
  <2>1. Prodotti("collector.sorgente_giu", snap, alNow) = SorgenteGiu(snap)
    BY DEF Prodotti
  <2>2. PICK i \in DOMAIN SorgenteGiu(snap) : a = SorgenteGiu(snap)[i]
    BY <1>1, <1>3, <1>5, <2>1
  <2> QED
    BY <2>2, SourceAlert
<1> QED
  BY <1>1, <1>2, <1>3, <1>4, <1>5 DEF SeenRight

\* A round: what it used, what it saw and what it left.
RoundMade(n, row, cfg, seen, source) ==
    /\ n = Len(alRounds) /\ alRounds' = Append(alRounds, row)
    /\ row = [t |-> alNow, on |-> cfg.enabled, down |-> ~ source.ok,
              seen |-> IF cfg.enabled THEN seen ELSE {}, file |-> cfg]
    /\ cfg \in AlConfigs
    /\ \A a \in seen : SeenRight(a, cfg, source)
    /\ alSource' = source
    /\ source = SourceUp(alNow) \/ source = SourceDown(alSource)
    /\ Len(alRounds) > 0 => alRounds[Len(alRounds)].t < alNow
    /\ alCache' = CacheAfter
    /\ LET ids == {IdOf(a) : a \in seen}
           primo == Primo(cfg, seen, ids)
       IN  IF cfg.enabled
           THEN alPrimo' = primo /\ alVisto' = Visto(ids) /\ alList' = Fuori(cfg, seen, primo)
           ELSE alPrimo' = <<>> /\ alVisto' = <<>> /\ alList' = {}
    /\ UNCHANGED <<alWorld, alNow, alFile, alGen, alBoot, alRequest>>

LEMMA RoundFacts ==
    ASSUME AlInv, Round
    PROVE  \E n, row, cfg, seen, source : RoundMade(n, row, cfg, seen, source)
<1>1. PICK wrong \in BOOLEAN : \E broken \in SUBSET IF wrong THEN AlBreaks ELSE {} :
        LET base == IF wrong THEN AlWorlds[alWorld] ELSE AlQuiet
            source == IF wrong /\ AlWorlds[alWorld].sourceDown
                      THEN SourceDown(alSource) ELSE SourceUp(alNow)
        IN  /\ alRounds # <<>> => alRounds[Len(alRounds)].t < alNow
            /\ alSource' = source
            /\ Build([base EXCEPT !.sources = <<source>>], broken)
            /\ UNCHANGED <<alWorld, alNow, alConfig, alRequest, alAnswered, alWrites>>
  BY Zenon DEF Round
<1> DEFINE base == IF wrong THEN AlWorlds[alWorld] ELSE AlQuiet
           source == IF wrong /\ AlWorlds[alWorld].sourceDown
                     THEN SourceDown(alSource) ELSE SourceUp(alNow)
           snap == [base EXCEPT !.sources = <<source>>]
<1>2. PICK broken \in SUBSET IF wrong THEN AlBreaks ELSE {} :
        /\ alRounds # <<>> => alRounds[Len(alRounds)].t < alNow
        /\ alSource' = source /\ Build(snap, broken)
        /\ UNCHANGED <<alWorld, alNow, alFile, alGen, alBoot, alRequest>>
  BY <1>1 DEF alConfig
<1> DEFINE cfg == LiveConfig
           seen == Visti(cfg, snap, broken)
           n == Len(alRounds)
           row == [t |-> alNow, on |-> cfg.enabled, down |-> ~ source.ok,
                   seen |-> IF cfg.enabled THEN seen ELSE {}, file |-> cfg]
<1>3. source = SourceUp(alNow) \/ source = SourceDown(alSource)
  OBVIOUS
<1>4. snap.sources = <<source>>
  <2>1. "sources" \in DOMAIN base
    BY AlSnapshots DEF AlInv, AlTyped
  <2> HIDE DEF source, base
  <2> QED
    BY <2>1
<1>5. cfg = (IF alFile.readable THEN alFile.cfg ELSE alBoot) /\ cfg \in AlConfigs
  BY DEF AlInv, AlTyped, CacheRight, LiveConfig
<1> HIDE DEF source, snap, cfg
<1>6. \A a \in seen : SeenRight(a, cfg, source)
  BY <1>4, VistiRight
<1>7. /\ alCache' = CacheAfter
      /\ LET ids == {IdOf(a) : a \in seen}
             primo == Primo(cfg, seen, ids)
         IN  IF cfg.enabled
             THEN alPrimo' = primo /\ alVisto' = Visto(ids) /\ alList' = Fuori(cfg, seen, primo)
             ELSE alPrimo' = <<>> /\ alVisto' = <<>> /\ alList' = {}
      /\ alRounds' = Append(alRounds,
              [t |-> alNow, on |-> cfg.enabled, down |-> ~ alSource'.ok,
               seen |-> IF cfg.enabled THEN seen ELSE {},
               file |-> IF alFile.readable THEN alFile.cfg ELSE alBoot])
  BY <1>2, Zenon DEF Build, cfg
<1> HIDE DEF seen
<1>8. alRounds' = Append(alRounds, row)
  BY <1>2, <1>5, <1>7
<1>9. Len(alRounds) > 0 => alRounds # <<>>
  OBVIOUS
<1> HIDE DEF row, n
<1>10. RoundMade(n, row, cfg, seen, source)
  BY <1>2, <1>3, <1>5, <1>6, <1>7, <1>8, <1>9 DEF RoundMade, row, n
<1> QED
  BY <1>10

\* The rounds go on in time.
LEMMA RoundInOrder ==
    ASSUME AlInv, NEW n, NEW row, NEW cfg, NEW seen, NEW source,
           RoundMade(n, row, cfg, seen, source)
    PROVE  AlTyped' /\ CacheRight' /\ RunInOrder'
<1>1. /\ n = Len(alRounds) /\ alRounds' = Append(alRounds, row)
      /\ row = [t |-> alNow, on |-> cfg.enabled, down |-> ~ source.ok,
                seen |-> IF cfg.enabled THEN seen ELSE {}, file |-> cfg]
      /\ cfg \in AlConfigs /\ alSource' = source
      /\ source = SourceUp(alNow) \/ source = SourceDown(alSource)
      /\ n > 0 => alRounds[n].t < alNow
      /\ alCache' = CacheAfter
      /\ UNCHANGED <<alWorld, alNow, alFile, alGen, alBoot, alRequest>>
  BY DEF RoundMade
<1>2. /\ n \in Nat /\ Len(alRounds') = n + 1
      /\ alRounds'[n + 1] = row /\ \A k \in 1 .. n : alRounds'[k] = alRounds[k]
  BY <1>1, RoundAppended
<1>10. \E S : alRounds' \in Seq(S)
  BY <1>1, RoundAppended
<1>3. /\ alNow \in Nat /\ alNow > 0
      /\ alSource \in [name : {"docker"}, ok : BOOLEAN, ts : Nat, since : Nat, fails : Nat]
      /\ alFile \in [cfg : AlConfigs, mtime : Nat, readable : BOOLEAN]
      /\ alGen \in Nat /\ alCache \in [mtime : Nat, gen : Int, cfg : AlConfigs]
  BY DEF AlInv, AlTyped
<1>4. source \in [name : {"docker"}, ok : BOOLEAN, ts : Nat, since : Nat, fails : Nat]
  <2>1. CASE source = SourceUp(alNow)
    <3>1. 0 \in Nat /\ TRUE \in BOOLEAN
      OBVIOUS
    <3> QED
      BY <1>3, <2>1, <3>1 DEF SourceUp
  <2>2. CASE source = SourceDown(alSource)
    <3>1. (IF alSource.since # 0 THEN alSource.since ELSE alNow) \in Nat /\ alSource.fails + 1 \in Nat
      BY <1>3
    <3> QED
      BY <1>3, <2>2, <3>1 DEF SourceDown
  <2> QED
    BY <1>1, <2>1, <2>2
<1>5. AlTyped'
  BY <1>1, <1>3, <1>4 DEF AlInv, AlTyped, CacheAfter
<1>6. CacheRight'
  BY <1>1, <1>3 DEF AlInv, CacheRight, CacheFresh, CacheAfter
<1>7. ASSUME NEW k \in 1 .. n + 1
      PROVE  /\ alRounds'[k].t \in Nat /\ 0 < alRounds'[k].t /\ alRounds'[k].t <= alNow
             /\ alRounds'[k].on \in BOOLEAN /\ alRounds'[k].down \in BOOLEAN
             /\ ~ alRounds'[k].on => alRounds'[k].seen = {}
             /\ alRounds'[k].file \in AlConfigs
  <2>1. CASE k = n + 1
    <3>1. cfg.enabled \in BOOLEAN /\ source.ok \in BOOLEAN
      BY <1>1, <1>4 DEF AlConfigs
    <3>3. /\ row.t = alNow /\ row.file \in AlConfigs
          /\ row.on \in BOOLEAN /\ row.down \in BOOLEAN /\ (~ row.on => row.seen = {})
      <4> DEFINE down == ~ source.ok
      <4>1. down \in BOOLEAN
        OBVIOUS
      <4> QED
        BY <1>1, <3>1, <4>1 DEF down
    <3>2. alRounds'[k] = row
      BY <1>2, <2>1
    <3> QED
      BY <1>3, <3>2, <3>3
  <2>2. CASE k # n + 1
    <3>1. k \in 1 .. n /\ alRounds'[k] = alRounds[k]
      BY <1>2, <2>2
    <3> QED
      BY <1>1, <3>1 DEF AlInv, RunInOrder
  <2> QED
    BY <2>1, <2>2
<1>8. ASSUME NEW j \in 1 .. n + 1, NEW k \in 1 .. n + 1, j < k
      PROVE  alRounds'[j].t < alRounds'[k].t
  <2>1. j \in 1 .. n /\ alRounds'[j] = alRounds[j] /\ alRounds[j].t \in Nat
    BY <1>1, <1>2, <1>8 DEF AlInv, RunInOrder
  <2>2. CASE k = n + 1
    <3>1. alRounds'[k].t = alNow /\ n \in 1 .. n /\ n > 0 /\ alRounds[n].t \in Nat
      BY <1>1, <1>2, <2>1, <2>2 DEF AlInv, RunInOrder
    <3>2. j = n \/ alRounds[j].t < alRounds[n].t
      BY <1>1, <2>1, <3>1 DEF AlInv, RunInOrder
    <3> QED
      BY <1>1, <1>3, <2>1, <3>1, <3>2
  <2>3. CASE k # n + 1
    <3>1. k \in 1 .. n /\ alRounds'[k] = alRounds[k]
      BY <1>2, <2>3
    <3> QED
      BY <1>1, <1>8, <2>1, <3>1 DEF AlInv, RunInOrder
  <2> QED
    BY <2>2, <2>3
<1>9. RunInOrder'
  BY <1>1, <1>2, <1>7, <1>8, <1>10 DEF RunInOrder
<1> QED
  BY <1>5, <1>6, <1>9

\* What the registry remembers after a round is the episodes that are on.
LEMMA RoundRemembers ==
    ASSUME AlInv, NEW n, NEW row, NEW cfg, NEW seen, NEW source,
           RoundMade(n, row, cfg, seen, source)
    PROVE  Remembers'
<1> DEFINE ids == {IdOf(a) : a \in seen}
<1>1. /\ n = Len(alRounds) /\ alRounds' = Append(alRounds, row)
      /\ row.t = alNow /\ (row.on <=> cfg.enabled)
      /\ row.seen = IF cfg.enabled THEN seen ELSE {}
      /\ IF cfg.enabled THEN alPrimo' = Primo(cfg, seen, ids) /\ alVisto' = Visto(ids)
         ELSE alPrimo' = <<>> /\ alVisto' = <<>>
  BY DEF RoundMade
<1>2. /\ n \in Nat /\ Len(alRounds') = n + 1
      /\ alRounds'[n + 1] = row /\ \A k \in 1 .. n : alRounds'[k] = alRounds[k]
      /\ \A id : Sightings(id) \subseteq 1 .. n
      /\ \A id : Sightings(id)' =
                 Sightings(id) \cup IF id \in RowIds(row) THEN {n + 1} ELSE {}
      /\ \A id : \A j \in 1 .. n : Broken(id, j)' <=> Broken(id, j)
      /\ \A id : Broken(id, n + 1)' <=>
                 \/ ~ row.on
                 \/ /\ id \notin RowIds(row)
                    /\ \A k \in Sightings(id) : row.t - alRounds[k].t > AlForget
  BY <1>1, RoundAppended
<1>3. /\ alNow \in Nat /\ AlForget \in Nat
      /\ \A k \in 1 .. n : alRounds[k].t \in Nat /\ alRounds[k].t <= alNow
      /\ \A j, k \in 1 .. n : j < k => alRounds[j].t < alRounds[k].t
  BY <1>1, AlLengths DEF AlInv, AlTyped, RunInOrder
<1>4. /\ DOMAIN alPrimo = DOMAIN alVisto
      /\ \A id \in DOMAIN alVisto :
          /\ \E k \in Sightings(id) :
                alVisto[id] = alRounds[k].t /\ \A j \in Sightings(id) : j <= k
          /\ \E b : EpisodeFrom(id, b) /\ alPrimo[id] = alRounds[b].t
      /\ \A id : id \notin DOMAIN alVisto =>
          \A i \in Sightings(id) : \E j \in i .. n : Broken(id, j)
  BY <1>1 DEF AlInv, Remembers
<1>5. CASE ~ cfg.enabled
  <2>1. RowIds(row) = {} /\ DOMAIN alPrimo' = {} /\ DOMAIN alVisto' = {}
    BY <1>1, <1>5 DEF RowIds
  <2>2. ASSUME NEW id, NEW i \in Sightings(id)'
        PROVE  \E j \in i .. n + 1 : Broken(id, j)'
    <3>1. i \in 1 .. n /\ Broken(id, n + 1)'
      BY <1>1, <1>2, <1>5, <2>1, <2>2
    <3> QED
      BY <1>2, <3>1
  <2> QED
    BY <1>2, <2>1, <2>2 DEF Remembers
<1>6. CASE cfg.enabled
  <2> DEFINE gone == Scordati(ids)
  <2>1. /\ RowIds(row) = ids /\ row.on
        /\ gone = {id \in DOMAIN alVisto \ ids : alNow - alVisto[id] > AlForget}
    BY <1>1, <1>6 DEF RowIds, Scordati
  <2>2. /\ DOMAIN alPrimo' = (DOMAIN alVisto \ gone) \cup ids
        /\ DOMAIN alVisto' = (DOMAIN alVisto \ gone) \cup ids
        /\ \A id \in (DOMAIN alVisto \ gone) \cup ids :
              /\ alPrimo'[id] = IF id \in DOMAIN alVisto \ gone THEN alPrimo[id] ELSE alNow
              /\ alVisto'[id] = IF id \in ids THEN alNow ELSE alVisto[id]
    BY <1>1, <1>4, <1>6 DEF Primo, Visto
  <2> HIDE DEF ids, gone
  <2>3. ASSUME NEW id \in DOMAIN alVisto'
        PROVE  \E k \in Sightings(id)' :
                   alVisto'[id] = alRounds'[k].t /\ \A j \in Sightings(id)' : j <= k
    <3>1. CASE id \in ids
      <4>1. n + 1 \in Sightings(id)' /\ \A j \in Sightings(id)' : j <= n + 1
        BY <1>2, <2>1, <3>1
      <4>2. alVisto'[id] = alRounds'[n + 1].t
        BY <1>1, <1>2, <2>2, <3>1
      <4> QED
        BY <4>1, <4>2
    <3>2. CASE id \notin ids
      <4>1. id \in DOMAIN alVisto /\ alVisto'[id] = alVisto[id] /\ Sightings(id)' = Sightings(id)
        BY <1>2, <2>1, <2>2, <2>3, <3>2
      <4>2. PICK k \in Sightings(id) :
                alVisto[id] = alRounds[k].t /\ \A j \in Sightings(id) : j <= k
        BY <1>4, <4>1
      <4>3. alRounds'[k] = alRounds[k]
        BY <1>2, <4>2
      <4> QED
        BY <4>1, <4>2, <4>3
    <3> QED
      BY <3>1, <3>2
  <2>4. ASSUME NEW id \in DOMAIN alVisto'
        PROVE  \E b : EpisodeFrom(id, b)' /\ alPrimo'[id] = alRounds'[b].t
    <3>1. CASE id \in DOMAIN alVisto
      <4>1. id \notin gone /\ alPrimo'[id] = alPrimo[id]
        BY <2>1, <2>2, <2>4, <3>1
      <4>2. ~ Broken(id, n + 1)'
        <5>1. CASE id \in ids
          BY <1>2, <2>1, <5>1
        <5>2. CASE id \notin ids
          <6>1. PICK k \in Sightings(id) : alVisto[id] = alRounds[k].t
            BY <1>4, <3>1
          <6>2. ~ (alNow - alVisto[id] > AlForget)
            BY <2>1, <3>1, <4>1, <5>2
          <6> QED
            BY <1>1, <1>2, <2>1, <6>1, <6>2
        <5> QED
          BY <5>1, <5>2
      <4>3. PICK b : EpisodeFrom(id, b) /\ alPrimo[id] = alRounds[b].t
        BY <1>4, <3>1
      <4>4. EpisodeFrom(id, b)' /\ alRounds'[b] = alRounds[b]
        BY <1>1, <4>2, <4>3, EpisodeGoesOn
      <4> QED
        BY <4>1, <4>3, <4>4
    <3>2. CASE id \notin DOMAIN alVisto
      <4>1. id \in ids /\ alPrimo'[id] = alNow /\ n + 1 \in Sightings(id)'
        BY <1>2, <2>1, <2>2, <2>4, <3>2
      <4>2. \A j \in n + 1 .. n + 1 : ~ Broken(id, j)'
        BY <1>2, <2>1, <4>1
      <4>3. ASSUME NEW i \in Sightings(id)', i < n + 1 PROVE \E j \in i .. n + 1 : Broken(id, j)'
        <5>1. i \in Sightings(id) /\ i \in 1 .. n
          BY <1>2, <4>3
        <5>2. PICK j \in i .. n : Broken(id, j)
          BY <1>4, <3>2, <5>1
        <5>3. j \in 1 .. n /\ j \in i .. n + 1
          BY <1>2, <5>1
        <5> QED
          BY <1>2, <5>2, <5>3
      <4>4. EpisodeFrom(id, n + 1)'
        BY <1>2, <4>1, <4>2, <4>3 DEF EpisodeFrom
      <4> QED
        BY <1>1, <1>2, <4>1, <4>4
    <3> QED
      BY <3>1, <3>2
  <2>5. ASSUME NEW id, id \notin DOMAIN alVisto', NEW i \in Sightings(id)'
        PROVE  \E j \in i .. n + 1 : Broken(id, j)'
    <3>1. id \notin ids /\ i \in Sightings(id) /\ i \in 1 .. n
      BY <1>2, <2>1, <2>2, <2>5
    <3>2. CASE id \in DOMAIN alVisto
      <4>1. alNow - alVisto[id] > AlForget
        BY <2>1, <2>2, <2>5, <3>1, <3>2
      <4>2. PICK k \in Sightings(id) :
                alVisto[id] = alRounds[k].t /\ \A j \in Sightings(id) : j <= k
        BY <1>4, <3>2
      <4>3. ASSUME NEW j \in Sightings(id) PROVE alNow - alRounds[j].t > AlForget
        <5>1. j \in 1 .. n /\ k \in 1 .. n /\ j <= k
          BY <1>2, <4>2
        <5>2. alRounds[j].t <= alRounds[k].t /\ alRounds[j].t \in Nat /\ alRounds[k].t \in Nat
          BY <1>3, <5>1
        <5> QED
          BY <1>3, <4>1, <4>2, <5>2
      <4>4. Broken(id, n + 1)'
        BY <1>1, <1>2, <2>1, <3>1, <4>3
      <4> QED
        BY <1>2, <3>1, <4>4
    <3>3. CASE id \notin DOMAIN alVisto
      <4>1. PICK j \in i .. n : Broken(id, j)
        BY <1>4, <3>1, <3>3
      <4>2. j \in 1 .. n /\ j \in i .. n + 1
        BY <1>2, <3>1
      <4> QED
        BY <1>2, <4>1, <4>2
    <3> QED
      BY <3>2, <3>3
  <2> QED
    BY <1>2, <2>2, <2>3, <2>4, <2>5 DEF Remembers
<1> QED
  BY <1>5, <1>6

\* The collector knows since when the source is down.
LEMMA RoundSource ==
    ASSUME AlInv, NEW n, NEW row, NEW cfg, NEW seen, NEW source,
           RoundMade(n, row, cfg, seen, source)
    PROVE  SourceRight'
<1>1. /\ n = Len(alRounds) /\ alRounds' = Append(alRounds, row)
      /\ row.t = alNow /\ (row.down <=> ~ source.ok)
      /\ alSource' = source
      /\ source = SourceUp(alNow) \/ source = SourceDown(alSource)
  BY DEF RoundMade
<1>2. /\ n \in Nat /\ Len(alRounds') = n + 1
      /\ alRounds'[n + 1] = row /\ \A k \in 1 .. n : alRounds'[k] = alRounds[k]
  BY <1>1, RoundAppended
<1>3. alNow > 0 /\ alNow \in Nat
      /\ alSource \in [name : {"docker"}, ok : BOOLEAN, ts : Nat, since : Nat, fails : Nat]
  BY DEF AlInv, AlTyped
<1>4. CASE source = SourceUp(alNow)
  <2>1. source.ok /\ source.since = 0
    BY <1>4 DEF SourceUp
  <2>2. ~ row.down
    BY <1>1, <2>1
  <2> QED
    BY <1>1, <1>2, <2>1, <2>2 DEF SourceRight
<1>5. CASE source = SourceDown(alSource)
  <2>1. ~ source.ok /\ source.since = IF alSource.since # 0 THEN alSource.since ELSE alNow
    BY <1>3, <1>5 DEF SourceDown
  <2>2. row.down
    BY <1>1, <2>1
  <2>3. CASE alSource.since # 0
    <3>1. DownSince(alSource.since)
      BY <2>3 DEF AlInv, SourceRight
    <3>2. PICK k \in 1 .. n :
            /\ alSource.since = alRounds[k].t
            /\ \A j \in k .. n : alRounds[j].down
            /\ k > 1 => ~ alRounds[k - 1].down
      BY <1>1, <3>1 DEF DownSince
    <3>3. /\ k \in 1 .. n + 1 /\ source.since = alRounds'[k].t
          /\ k > 1 => ~ alRounds'[k - 1].down
      BY <1>2, <2>1, <2>3, <3>2
    <3>4. ASSUME NEW j \in k .. n + 1 PROVE alRounds'[j].down
      <4>1. CASE j = n + 1
        BY <1>2, <2>2, <4>1
      <4>2. CASE j # n + 1
        <5>1. j \in k .. n /\ j \in 1 .. n
          BY <1>2, <3>2, <4>2
        <5> QED
          BY <1>2, <3>2, <5>1
      <4> QED
        BY <4>1, <4>2
    <3>5. DownSince(source.since)'
      BY <1>2, <3>3, <3>4 DEF DownSince
    <3> QED
      BY <1>1, <2>1, <2>3, <3>5 DEF SourceRight
  <2>4. CASE alSource.since = 0
    <3>1. n > 0 => ~ alRounds[n].down
      BY <1>1, <2>4 DEF AlInv, SourceRight
    <3>2. /\ n + 1 \in 1 .. n + 1 /\ source.since = alRounds'[n + 1].t
          /\ \A j \in n + 1 .. n + 1 : alRounds'[j].down
          /\ n + 1 > 1 => ~ alRounds'[n + 1 - 1].down
      BY <1>1, <1>2, <2>1, <2>2, <2>4, <3>1
    <3>3. DownSince(source.since)'
      BY <1>2, <3>2 DEF DownSince
    <3> QED
      BY <1>1, <1>3, <2>1, <2>4, <3>3 DEF SourceRight
  <2> QED
    BY <2>3, <2>4
<1> QED
  BY <1>1, <1>4, <1>5

\* An alert of the list is one of those seen, with the beginning it has.
LEMMA ToldRight ==
    ASSUME NEW cfg, NEW source, NEW x, SeenRight(x, cfg, source), NEW t
    PROVE  LET a == [x EXCEPT !.since = t] IN
           /\ a.rule = x.rule /\ a.subject = x.subject /\ IdOf(a) = IdOf(x) /\ a.since = t
           /\ Zittito(cfg, a) <=> Zittito(cfg, x)
<1> DEFINE a == [x EXCEPT !.since = t]
<1>1. x = [rule |-> x.rule, subject |-> x.subject, level |-> x.level, since |-> x.since]
  BY DEF SeenRight
<1>2. a = [rule |-> x.rule, subject |-> x.subject, level |-> x.level, since |-> t]
  BY <1>1
<1> HIDE DEF a
<1>3. a.rule = x.rule /\ a.subject = x.subject /\ a.since = t
  BY <1>2
<1>4. IdOf(a) = IdOf(x) /\ (Zittito(cfg, a) <=> Zittito(cfg, x))
  BY <1>3 DEF IdOf, Zittito
<1> QED
  BY <1>3, <1>4 DEF a

LEMMA ListedSeen ==
    ASSUME NEW cfg, NEW seen, NEW primo, NEW a \in Fuori(cfg, seen, primo)
    PROVE  \E x \in seen : \E t :
                 /\ ~ Zittito(cfg, x) /\ a = [x EXCEPT !.since = t]
                 /\ t = IF x.since # 0 THEN x.since ELSE primo[IdOf(x)]
BY DEF Fuori

LEMMA RingsListed ==
    ASSUME NEW cfg, NEW seen, NEW primo, NEW source, NEW x \in seen,
           SeenRight(x, cfg, source), ~ Zittito(cfg, x), NEW t,
           t = IF x.since # 0 THEN x.since ELSE primo[IdOf(x)],
           alNow - t >= Attesa(cfg, Rule(x.rule))
    PROVE  \E a \in Fuori(cfg, seen, primo) : IdOf(a) = IdOf(x)
<1>1. [x EXCEPT !.since = t] \in Fuori(cfg, seen, primo)
  BY DEF Fuori
<1> QED
  BY <1>1, ToldRight

LEMMA RoundListTold ==
    ASSUME AlInv, NEW n, NEW row, NEW cfg, NEW seen, NEW source,
           RoundMade(n, row, cfg, seen, source), Remembers', SourceRight'
    PROVE  ListTold'
<1> DEFINE ids == {IdOf(a) : a \in seen}
           primo == Primo(cfg, seen, ids)
<1>1. /\ n = Len(alRounds) /\ alRounds' = Append(alRounds, row)
      /\ \A a \in seen : SeenRight(a, cfg, source)
      /\ alSource' = source
      /\ cfg.enabled => /\ alPrimo' = primo /\ alVisto' = Visto(ids)
                        /\ alList' = Fuori(cfg, seen, primo)
      /\ ~ cfg.enabled => alList' = {}
  BY DEF RoundMade
<1>2. n \in Nat /\ Len(alRounds') = n + 1
  BY <1>1, RoundAppended
<1>3. cfg.enabled => ids \subseteq DOMAIN alVisto'
  BY <1>1 DEF Visto
<1>4. ASSUME NEW a \in alList'
      PROVE  \/ a.rule = "wireguard.relay_giu"
             \/ a.rule = "collector.sorgente_giu" /\ DownSince(a.since)'
             \/ \E b : EpisodeFrom(IdOf(a), b)' /\ a.since = alRounds'[b].t
  <2>1. cfg.enabled
    BY <1>1, <1>4
  <2>2. alPrimo' = primo /\ a \in Fuori(cfg, seen, primo)
    BY <1>1, <1>4, <2>1
  <2> HIDE DEF primo
  <2>3. PICK x \in seen :
            /\ a.rule = x.rule /\ IdOf(a) = IdOf(x)
            /\ a.since = IF x.since # 0 THEN x.since ELSE primo[IdOf(x)]
    <3>1. PICK x \in seen : \E t :
             /\ a = [x EXCEPT !.since = t]
             /\ t = IF x.since # 0 THEN x.since ELSE primo[IdOf(x)]
      BY <2>2, ListedSeen
    <3>2. PICK t :
             /\ a = [x EXCEPT !.since = t]
             /\ t = IF x.since # 0 THEN x.since ELSE primo[IdOf(x)]
      BY <3>1
    <3>3. SeenRight(x, cfg, source)
      BY <1>1
    <3> QED
      BY <3>2, <3>3, ToldRight
  <2>4. SeenRight(x, cfg, source) /\ IdOf(x) \in DOMAIN alVisto'
    BY <1>1, <1>3, <2>1
  <2>5. CASE x.rule = "collector.sorgente_giu"
    <3>1. x.since = source.since /\ ~ source.ok
      BY <2>4, <2>5 DEF SeenRight
    <3>2. source.since # 0 /\ DownSince(source.since)'
      BY <1>1, <3>1 DEF SourceRight
    <3>3. a.since = source.since
      BY <2>3, <3>1, <3>2
    <3> QED
      BY <2>3, <2>5, <3>2, <3>3
  <2>6. CASE x.rule \notin {"wireguard.relay_giu", "collector.sorgente_giu"}
    <3>1. a.since = alPrimo'[IdOf(x)]
      BY <2>2, <2>3, <2>4, <2>6 DEF SeenRight
    <3>2. \E b : EpisodeFrom(IdOf(x), b)' /\ alPrimo'[IdOf(x)] = alRounds'[b].t
      BY <2>4 DEF Remembers
    <3> QED
      BY <2>3, <3>1, <3>2
  <2> QED
    BY <2>3, <2>5, <2>6
<1> QED
  BY <1>2, <1>4 DEF ListTold

LEMMA WaitIsLength ==
    ASSUME NEW cfg \in AlConfigs, NEW rule, rule.min \in {"0", "60", "120", "300"}
    PROVE  Attesa(cfg, rule) \in Nat
<1>1. \A key \in DOMAIN cfg.waits : cfg.waits[key] \in Nat
  <2>1. PICK c \in AlEdits \cup {NoConfig} : cfg.waits = c.waits
    BY DEF AlConfigs
  <2>2. CASE c = NoConfig
    BY <2>1, <2>2 DEF NoConfig
  <2>3. CASE c \in AlEdits
    BY <2>1, <2>3, AlEditsOfConfigs
  <2> QED
    BY <2>2, <2>3
<1> QED
  BY <1>1, AlLengths DEF Attesa

\* What a round lists is what it saw, is not silenced, and has lasted.
LEMMA RoundListed ==
    ASSUME AlInv, NEW n, NEW row, NEW cfg, NEW seen, NEW source,
           RoundMade(n, row, cfg, seen, source), Remembers', RunInOrder'
    PROVE  ListedRight'
<1> DEFINE ids == {IdOf(a) : a \in seen}
           primo == Primo(cfg, seen, ids)
<1>1. /\ n = Len(alRounds) /\ alRounds' = Append(alRounds, row)
      /\ row.t = alNow /\ row.file = cfg /\ row.seen = IF cfg.enabled THEN seen ELSE {}
      /\ cfg \in AlConfigs /\ alNow' = alNow
      /\ \A a \in seen : SeenRight(a, cfg, source)
      /\ cfg.enabled => /\ alPrimo' = primo /\ alVisto' = Visto(ids)
                        /\ alList' = Fuori(cfg, seen, primo)
      /\ ~ cfg.enabled => alList' = {}
  BY DEF RoundMade
<1>2. n \in Nat /\ Len(alRounds') = n + 1 /\ alRounds'[n + 1] = row
  BY <1>1, RoundAppended
<1>3. LastRound' = row
  BY <1>2 DEF LastRound
<1>4. cfg.enabled => ids \subseteq DOMAIN alVisto'
  BY <1>1 DEF Visto
<1>5. ASSUME cfg.enabled
      PROVE  /\ \A a \in alList' : \E x \in seen : a.rule = x.rule /\ ~ Zittito(cfg, a)
             /\ \A x \in seen : \A t :
                    /\ ~ Zittito(cfg, x)
                    /\ t = IF x.since # 0 THEN x.since ELSE alPrimo'[IdOf(x)]
                    /\ alNow - t >= Attesa(cfg, Rule(x.rule))
                    => \E a \in alList' : IdOf(a) = IdOf(x)
  <2>1. alPrimo' = primo /\ alList' = Fuori(cfg, seen, primo)
    BY <1>1, <1>5
  <2> HIDE DEF primo
  <2>2. \A x \in seen : SeenRight(x, cfg, source)
    BY <1>1
  <2>3. ASSUME NEW a \in Fuori(cfg, seen, primo)
        PROVE  \E x \in seen : a.rule = x.rule /\ ~ Zittito(cfg, a)
    <3>1. PICK x \in seen : \E t : ~ Zittito(cfg, x) /\ a = [x EXCEPT !.since = t]
      BY ListedSeen
    <3>2. PICK t : ~ Zittito(cfg, x) /\ a = [x EXCEPT !.since = t]
      BY <3>1
    <3>3. SeenRight(x, cfg, source)
      BY <2>2
    <3> QED
      BY <3>2, <3>3, ToldRight
  <2>4. ASSUME NEW x \in seen, NEW t, ~ Zittito(cfg, x),
               t = IF x.since # 0 THEN x.since ELSE primo[IdOf(x)],
               alNow - t >= Attesa(cfg, Rule(x.rule))
        PROVE  \E a \in Fuori(cfg, seen, primo) : IdOf(a) = IdOf(x)
    BY <2>2, <2>4, RingsListed
  <2> QED
    BY <2>1, <2>3, <2>4
<1> HIDE DEF ids, primo
<1>6. ASSUME NEW a \in alList'
      PROVE  ~ Zittito(cfg, a) /\ Abilitata(cfg, Rule(a.rule)) /\ cfg.enabled
  <2>1. cfg.enabled
    BY <1>1, <1>6
  <2>2. PICK x \in seen : a.rule = x.rule /\ ~ Zittito(cfg, a)
    BY <1>5, <1>6, <2>1
  <2> QED
    BY <1>1, <2>1, <2>2 DEF SeenRight
<1>7. ASSUME NEW a \in row.seen, ~ Zittito(cfg, a),
             \/ a.since # 0 /\ alNow - a.since >= Attesa(cfg, Rule(a.rule))
             \/ /\ a.since = 0
                /\ \E k \in Sightings(IdOf(a))' :
                      /\ alNow - alRounds'[k].t >= Attesa(cfg, Rule(a.rule))
                      /\ \A j \in k .. n + 1 : j \in Sightings(IdOf(a))'
      PROVE  \E b \in alList' : IdOf(b) = IdOf(a)
  <2>1. cfg.enabled /\ a \in seen
    BY <1>1, <1>7
  <2>2. CASE a.since # 0
    BY <1>5, <1>7, <2>1, <2>2
  <2>3. CASE a.since = 0
    <3> DEFINE wait == Attesa(cfg, Rule(a.rule))
    <3>1. wait \in Nat
      BY <1>1, <2>1, WaitIsLength DEF SeenRight
    <3> HIDE DEF wait
    <3>2. PICK k \in Sightings(IdOf(a))' :
                /\ alNow - alRounds'[k].t >= wait
                /\ \A j \in k .. n + 1 : j \in Sightings(IdOf(a))'
      BY <1>7, <2>3 DEF wait
    <3>3. IdOf(a) \in DOMAIN alVisto'
      BY <1>4, <2>1 DEF ids
    <3>4. PICK b : EpisodeFrom(IdOf(a), b)' /\ alPrimo'[IdOf(a)] = alRounds'[b].t
      BY <3>3 DEF Remembers
    <3>5. DOMAIN alRounds' = 1 .. n + 1
      BY <1>2 DEF RunInOrder
    <3>6. k \in 1 .. n + 1 /\ b \in 1 .. n + 1 /\ b \in Sightings(IdOf(a))'
      BY <3>2, <3>4, <3>5 DEF EpisodeFrom, Sightings
    <3>7. \A j \in k .. n + 1 : ~ Broken(IdOf(a), j)'
      <4> SUFFICES ASSUME NEW j \in k .. n + 1 PROVE ~ Broken(IdOf(a), j)'
        OBVIOUS
      <4>1. j \in 1 .. n + 1 /\ IdOf(a) \in SeenAt(j)'
        BY <1>2, <3>2, <3>6 DEF Sightings
      <4>2. alRounds'[j].seen # {}
        BY <4>1 DEF SeenAt
      <4>3. alRounds'[j].on
        BY <1>2, <4>1, <4>2 DEF RunInOrder
      <4> QED
        BY <4>1, <4>3 DEF Broken
    <3>8. b <= k
      <4> SUFFICES ASSUME k < b PROVE FALSE
        BY <1>2, <3>6
      <4>1. PICK j \in k .. b : Broken(IdOf(a), j)'
        BY <3>2, <3>4 DEF EpisodeFrom
      <4>2. j \in k .. n + 1
        BY <1>2, <3>6
      <4> QED
        BY <3>7, <4>1, <4>2
    <3>9. alRounds'[b].t <= alRounds'[k].t /\ alRounds'[b].t \in Nat /\ alRounds'[k].t \in Nat
      BY <1>2, <3>6, <3>8 DEF RunInOrder
    <3>10. alNow \in Nat
      BY DEF AlInv, AlTyped
    <3>11. alNow - alPrimo'[IdOf(a)] >= wait
      BY <3>1, <3>2, <3>4, <3>9, <3>10
    <3> QED
      BY <1>5, <1>7, <2>1, <2>3, <3>11 DEF wait
  <2> QED
    BY <2>2, <2>3
<1> QED
  BY <1>1, <1>2, <1>3, <1>6, <1>7 DEF ListedRight

LEMMA RoundKeeps == ASSUME AlInv, Round PROVE AlInv'
<1>1. PICK n, row, cfg, seen, source : RoundMade(n, row, cfg, seen, source)
  BY RoundFacts
<1>2. AlTyped' /\ CacheRight' /\ RunInOrder'
  BY <1>1, RoundInOrder
<1>3. Remembers' /\ SourceRight'
  BY <1>1, RoundRemembers, RoundSource
<1>4. ListTold' /\ ListedRight'
  BY <1>1, <1>2, <1>3, RoundListTold, RoundListed
<1> QED
  BY <1>2, <1>3, <1>4 DEF AlInv

LEMMA AlStepInv == AlInv /\ [AlNext]_alVars => AlInv'
<1> SUFFICES ASSUME AlInv, [AlNext]_alVars PROVE AlInv'
  OBVIOUS
<1>1. CASE AlTick
  <2>1. AlTyped' /\ CacheRight'
    BY <1>1 DEF AlInv, AlTyped, CacheRight, CacheFresh, AlTick, alConfig
  <2> QED
    BY <1>1, <2>1, QuietKeeps DEF AlTick, AlInv, AlTyped
<1>2. CASE UNCHANGED alVars
  <2>1. AlTyped' /\ CacheRight'
    BY <1>2 DEF AlInv, AlTyped, CacheRight, CacheFresh, alVars, alConfig
  <2> QED
    BY <1>2, <2>1, QuietKeeps DEF alVars, AlInv, AlTyped
<1> QED
  BY <1>1, <1>2, RoundKeeps, EditFileKeeps, SilenceReadKeeps, SilenceSaveKeeps, AlRestartKeeps
  DEF AlNext

\* Whatever is reported, edited, silenced and started again, and at whatever pace the
\* rounds come: an alert of the list is as old as its episode (AlertRegistry.build,
\* _scorda, _sorgente_ko).
THEOREM AlertsSinceEpisode == AlSpec => []SinceIsEpisode
<1>1. AlSpec => []AlInv
  BY AlInitInv, AlStepInv, PTL DEF AlSpec
<1> QED
  BY <1>1, AlInvTold, PTL

\* What has lasted its wait is in the list, what the file leaves out is not, from the
\* first round after the file was changed (build, live_alerts_config).
THEOREM AlertsListedRight == AlSpec => []ListedRight
<1>1. AlSpec => []AlInv
  BY AlInitInv, AlStepInv, PTL DEF AlSpec
<1>2. AlInv => ListedRight
  BY DEF AlInv
<1> QED
  BY <1>1, <1>2, PTL

=============================================================================
