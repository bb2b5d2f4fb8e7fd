----------------------------- MODULE RatesProofs -----------------------------
(***************************************************************************)
(* Proofs about what is computed from readings of the devices: HostRates   *)
(* (the resources of a host), WanRates (the traffic of the uplink),        *)
(* SnmpRates (an interface, from the counters of its agent), for every     *)
(* bound on the time, the traffic and the rounds; SnmpTopology (which      *)
(* device hangs on which), whatever the devices answer; and HistorySeries  *)
(* (the series the readings end in), whatever the lengths of its buckets   *)
(* and its windows.                                                        *)
(***************************************************************************)
EXTENDS HostRates, WanRates, SnmpRates, SnmpTopology, HistorySeries, WellFoundedInduction,
        SequenceTheorems, FiniteSetTheorems, TLAPS

-----------------------------------------------------------------------------
(***************************************************************************)
(* HostRates.  The readings that may still be compared - the one of the    *)
(* window and those on their way - are of the host as it was: none is of a *)
(* boot to come, and within a boot the one that was up longer was busy at  *)
(* least as long.                                                          *)
(***************************************************************************)

HostReadings == [boot : Nat, up : Nat, busy : Nat]
HostTimed == [t : Nat, got : HostReadings]

HmTypes ==
    /\ hmTime \in Nat
    /\ hmHost \in [boot : Nat, up : Nat, busy : Nat, on : BOOLEAN]
    /\ hmJob \in [HmCollections ->
                    [at : {"idle", "asked", "read"}, got : HostReadings \cup {HmNone}]]
    /\ hmPrev \in HostTimed \cup {HmNone}
    /\ hmBroken \in Nat

\* r is a reading of the host, taken by now.
Past(r) ==
    /\ r \in HostReadings
    /\ r.boot <= hmHost.boot
    /\ r.boot = hmHost.boot => r.up <= hmHost.up /\ r.busy <= hmHost.busy

Ordered(r, s) == r.boot = s.boot /\ r.up < s.up => r.busy <= s.busy

\* The readings on their way.
JobsRead ==
    \A c \in HmCollections : hmJob[c].at = "read" =>
        /\ Past(hmJob[c].got) /\ hmJob[c].got.boot = hmHost.boot
        /\ \A d \in HmCollections :
              hmJob[d].at = "read" => Ordered(hmJob[c].got, hmJob[d].got)

\* The reading of the window, and how it stands to those on their way.
Window ==
    hmPrev # HmNone =>
        /\ Past(hmPrev.got)
        /\ hmBroken <= hmPrev.t /\ hmPrev.t <= hmTime
        /\ \A c \in HmCollections : hmJob[c].at = "read" =>
              Ordered(hmPrev.got, hmJob[c].got) /\ Ordered(hmJob[c].got, hmPrev.got)

HmInv == HmTypes /\ JobsRead /\ Window /\ hmBroken <= hmTime /\ WindowHonest

LEMMA HmInitInv == HmInit => HmInv
BY DEF HmInit, HmInv, HmTypes, JobsRead, Window, WindowHonest

\* The rate between two readings of one boot, where there is one.
LEMMA CpuFacts ==
    ASSUME NEW now \in HostReadings, NEW before \in HostReadings,
           before.boot = now.boot => Ordered(before, now),
           CpuPercent(now, before) # HmNone
    PROVE  before.boot = now.boot =>
              CpuPercent(now, before) = ((now.busy - before.busy) * 100) \div (now.up - before.up)
<1> SUFFICES ASSUME before.boot = now.boot
             PROVE  CpuPercent(now, before)
                        = ((now.busy - before.busy) * 100) \div (now.up - before.up)
  OBVIOUS
<1> DEFINE total == now.up - before.up
           idle == (now.up - now.busy) - (before.up - before.busy)
           used == (total - idle) * 100
<1>1. /\ now.up \in Nat /\ before.up \in Nat /\ now.busy \in Nat /\ before.busy \in Nat
  BY DEF HostReadings
<1>2. total - idle = now.busy - before.busy
  BY <1>1
<1>3. ~ (total <= 0 \/ idle < 0)
  BY DEF CpuPercent
<1>4. before.busy <= now.busy
  BY <1>1, <1>3 DEF Ordered
<1>5. used = (now.busy - before.busy) * 100 /\ ~ (used < 0)
  BY <1>1, <1>2, <1>4
<1>6. CpuPercent(now, before) = used \div total
  BY <1>3, <1>5 DEF CpuPercent
<1> QED
  BY <1>5, <1>6

\* The row of a good reading, whoever composes it.
LEMMA ComposeHonest ==
    ASSUME HmInv, NEW c \in HmCollections, Compose(c)
    PROVE  WindowHonest'
<1> DEFINE got == hmJob[c].got
           base == Base(got)
<1> SUFFICES ASSUME hmRow'.cpu # HmNone PROVE WindowHonest'
  BY DEF WindowHonest
<1>1. /\ Wide(base) /\ hmRow'.cpu = CpuPercent(got, base.got)
      /\ hmRow'.from = base /\ hmRow'.to = [t |-> hmTime, got |-> got]
      /\ hmBroken' = hmBroken
  BY DEF Compose
<1>2. /\ hmPrev # HmNone /\ base = hmPrev /\ hmPrev \in HostTimed
      /\ ~ (hmPrev.got.up > 0 /\ got.up < hmPrev.got.up)
  BY <1>1 DEF Wide, Base, HmInv, HmTypes
<1>3. /\ Past(got) /\ got.boot = hmHost.boot /\ Past(hmPrev.got)
      /\ Ordered(hmPrev.got, got) /\ hmBroken <= hmPrev.t
  BY <1>2 DEF Compose, HmInv, JobsRead, Window
<1>4. got \in HostReadings /\ hmPrev.got \in HostReadings
  BY <1>3 DEF Past
<1>5. hmTime - hmPrev.t >= HmWindow
  BY <1>1, <1>2 DEF Wide
<1>6. hmPrev.got.boot <= got.boot
  BY <1>3 DEF Past
<1>7. hmPrev.got.up <= got.up
  BY <1>2, <1>4 DEF HostReadings
<1>8. hmPrev.got.boot = got.boot =>
          hmRow'.cpu = ((got.busy - hmPrev.got.busy) * 100) \div (got.up - hmPrev.got.up)
  BY <1>1, <1>2, <1>3, <1>4, CpuFacts
<1> QED
  BY <1>1, <1>2, <1>3, <1>5, <1>6, <1>7, <1>8 DEF WindowHonest

LEMMA HmStepInv == HmInv /\ [HmNext]_hmVars => HmInv'
<1> SUFFICES ASSUME HmInv, [HmNext]_hmVars PROVE HmInv'
  OBVIOUS
<1> USE DEF HmInv
<1>1. CASE UNCHANGED hmVars
  BY <1>1 DEF hmVars, HmTypes, JobsRead, Window, WindowHonest, Past
<1>2. CASE HmTick
  <2>1. /\ hmHost'.boot = hmHost.boot
        /\ hmHost'.up \in Nat /\ hmHost'.up >= hmHost.up
        /\ hmHost'.busy \in Nat /\ hmHost'.busy >= hmHost.busy
        /\ hmHost' \in [boot : Nat, up : Nat, busy : Nat, on : BOOLEAN]
    <3>1. PICK work \in 0 .. 1 :
            hmHost' = IF hmHost.on THEN [hmHost EXCEPT !.up = @ + 1, !.busy = @ + work]
                      ELSE hmHost
      BY <1>2 DEF HmTick
    <3>2. /\ hmHost \in [boot : Nat, up : Nat, busy : Nat, on : BOOLEAN]
          /\ hmHost.up \in Nat /\ hmHost.busy \in Nat
          /\ hmHost.up + 1 \in Nat /\ hmHost.busy + work \in Nat
      BY DEF HmTypes
    <3>3. CASE hmHost.on
      <4>1. hmHost' = [hmHost EXCEPT !.up = hmHost.up + 1, !.busy = hmHost.busy + work]
        BY <3>1, <3>3
      <4>2. /\ hmHost'.boot = hmHost.boot /\ hmHost'.up = hmHost.up + 1
            /\ hmHost'.busy = hmHost.busy + work
        BY <3>2, <4>1
      <4>3. \A u, b \in Nat : [hmHost EXCEPT !.up = u, !.busy = b]
                                \in [boot : Nat, up : Nat, busy : Nat, on : BOOLEAN]
        BY <3>2
      <4>4. hmHost' \in [boot : Nat, up : Nat, busy : Nat, on : BOOLEAN]
        <5>1. /\ hmHost.up + 1 \in Nat /\ hmHost.busy + work \in Nat
          BY <3>2
        <5> QED
          BY <4>1, <4>3, <5>1, Zenon
      <4> QED
        BY <3>2, <4>2, <4>4
    <3>4. CASE ~ hmHost.on
      BY <3>1, <3>2, <3>4
    <3> QED
      BY <3>3, <3>4
  <2>2. hmTime' = hmTime + 1 /\ UNCHANGED <<hmJob, hmPrev, hmRow, hmBroken>>
    BY <1>2 DEF HmTick
  <2>3. \A r : Past(r) => Past(r)'
    BY <2>1 DEF Past, HostReadings, HmTypes
  <2>4. HmTypes' /\ WindowHonest' /\ hmBroken' <= hmTime'
    BY <2>1, <2>2 DEF HmTypes, WindowHonest
  <2>5. JobsRead'
    BY <2>1, <2>2, <2>3 DEF JobsRead
  <2>6. Window'
    BY <2>2, <2>3 DEF Window, HmTypes, HostTimed
  <2> QED
    BY <2>4, <2>5, <2>6
<1>3. CASE HmSwitch
  <2>1. /\ hmHost' \in [boot : Nat, up : Nat, busy : Nat, on : BOOLEAN]
        /\ \/ hmHost'.boot = hmHost.boot /\ hmHost'.up = hmHost.up /\ hmHost'.busy = hmHost.busy
           \/ hmHost'.boot = hmHost.boot + 1 /\ \A c \in HmCollections : hmJob[c].at # "read"
        /\ UNCHANGED <<hmTime, hmJob, hmPrev, hmRow, hmBroken>>
    <3>1. /\ hmHost \in [boot : Nat, up : Nat, busy : Nat, on : BOOLEAN]
          /\ UNCHANGED <<hmTime, hmJob, hmPrev, hmRow, hmBroken>>
      BY <1>3 DEF HmSwitch, HmTypes
    <3>2. CASE hmHost.on
      <4>1. hmHost' = [hmHost EXCEPT !.on = FALSE]
        BY <1>3, <3>2 DEF HmSwitch
      <4> QED
        BY <3>1, <4>1
    <3>3. CASE ~ hmHost.on
      <4>1. /\ hmHost' = [boot |-> hmHost.boot + 1, up |-> 0, busy |-> 0, on |-> TRUE]
            /\ \A c \in HmCollections : hmJob[c].at # "read"
        BY <1>3, <3>3 DEF HmSwitch
      <4> QED
        BY <3>1, <4>1
    <3> QED
      BY <3>2, <3>3
  <2>2. \A r : Past(r) => Past(r)'
    BY <2>1 DEF Past, HostReadings, HmTypes
  <2> QED
    BY <2>1, <2>2 DEF HmTypes, WindowHonest, JobsRead, Window
<1>4. ASSUME NEW c \in HmCollections, HmAsk(c) PROVE HmInv'
  BY <1>4 DEF HmAsk, HmTypes, JobsRead, Window, WindowHonest, Past
<1>5. ASSUME NEW c \in HmCollections, Skip(c) PROVE HmInv'
  BY <1>5 DEF Skip, NoRow, HmTypes, JobsRead, Window, WindowHonest, Past
<1>6. ASSUME NEW c \in HmCollections, HmRead(c) PROVE HmInv'
  <2> DEFINE now == [boot |-> hmHost.boot, up |-> hmHost.up, busy |-> hmHost.busy]
  <2>1. now \in HostReadings /\ Past(now) /\ now.boot = hmHost.boot
    BY DEF HmTypes, Past, HostReadings
  <2>2. \A r : Past(r) => Ordered(r, now) /\ Ordered(now, r)
    BY <2>1 DEF Past, Ordered, HostReadings
  <2>3. /\ hmJob' = [hmJob EXCEPT ![c] = [at |-> "read", got |-> now]]
        /\ UNCHANGED <<hmTime, hmHost, hmPrev, hmRow, hmBroken>>
    BY <1>6 DEF HmRead
  <2>4. /\ hmJob'[c].at = "read" /\ hmJob'[c].got = now
        /\ \A d \in HmCollections : d # c => hmJob'[d] = hmJob[d]
    BY <2>3 DEF HmTypes
  <2> HIDE DEF now
  <2>5. HmTypes' /\ WindowHonest'
    BY <2>1, <2>3 DEF HmTypes, WindowHonest
  <2>6. JobsRead'
    BY <2>1, <2>2, <2>3, <2>4 DEF JobsRead, Past
  <2>7. Window'
    BY <2>1, <2>2, <2>3, <2>4 DEF Window, Past
  <2> QED
    BY <2>3, <2>5, <2>6, <2>7
<1>7. ASSUME NEW c \in HmCollections, FetchFails(c) \/ Unreadable(c) PROVE HmInv'
  <2>1. /\ hmJob' = [hmJob EXCEPT ![c] = [at |-> "idle", got |-> HmNone]]
        /\ hmRow' = NoRow("error") /\ UNCHANGED <<hmTime, hmHost>>
        /\ \/ hmPrev' = HmNone /\ hmBroken' = hmTime
           \/ hmPrev' = hmPrev /\ hmBroken' = hmBroken
    BY <1>7 DEF FetchFails, Unreadable, Done
  <2> QED
    BY <2>1 DEF NoRow, HmTypes, JobsRead, Window, WindowHonest, Past
<1>8. ASSUME NEW c \in HmCollections, Compose(c) PROVE HmInv'
  <2>1. WindowHonest'
    BY <1>8, ComposeHonest
  <2>2. /\ hmJob[c].at = "read"
        /\ hmJob' = [hmJob EXCEPT ![c] = [at |-> "idle", got |-> HmNone]]
        /\ hmPrev' \in {hmPrev, [t |-> hmTime, got |-> hmJob[c].got]}
        /\ UNCHANGED <<hmTime, hmHost, hmBroken>>
    BY <1>8 DEF Compose, Done
  <2>3. Past(hmJob[c].got) /\ hmJob[c].got \in HostReadings
    BY <2>2 DEF JobsRead, Past
  <2>4. HmTypes'
    BY <2>2, <2>3 DEF HmTypes, HostTimed
  <2>5. JobsRead'
    BY <2>2 DEF JobsRead, Past, HmTypes
  <2>6. Window'
    BY <2>2, <2>3 DEF JobsRead, Window, Past, HmTypes
  <2> QED
    BY <2>1, <2>2, <2>4, <2>5, <2>6
<1> QED
  BY <1>1, <1>2, <1>3, <1>4, <1>5, <1>6, <1>7, <1>8 DEF HmNext

\* However collections overlap and whatever the host does, a rate on display compares two
\* readings in the order they were taken, HmWindow apart, with nothing in between that
\* closed the window (_componi and the places that forget _prev).
THEOREM RatesCompareReadings == HmSpec => []WindowHonest
BY HmInitInv, HmStepInv, PTL DEF HmSpec, HmInv

\* A rate is a percentage.
Percent == hmRow # HmNone => hmRow.cpu \in 0 .. 100 \cup {HmNone}

LEMMA CpuInRange ==
    ASSUME NEW now \in HostReadings, NEW before \in HostReadings
    PROVE  CpuPercent(now, before) \in 0 .. 100 \cup {HmNone}
<1> DEFINE total == now.up - before.up
           idle == (now.up - now.busy) - (before.up - before.busy)
           used == (total - idle) * 100
<1>1. total \in Int /\ idle \in Int /\ used \in Int
  BY DEF HostReadings
<1>2. SUFFICES ASSUME ~ (total <= 0 \/ idle < 0), ~ (used < 0)
               PROVE  used \div total \in 0 .. 100
  BY <1>1 DEF CpuPercent
<1> DEFINE q == used \div total
<1>3. /\ total \in Nat \ {0} /\ idle \in Nat /\ used \in Nat /\ used <= total * 100
  BY <1>1, <1>2
<1> HIDE DEF total, idle, used
<1>4. /\ q \in Int /\ used % total \in 0 .. (total - 1)
      /\ used = total * q + (used % total)
  BY <1>3
<1>5. ~ (q < 0)
  <2> SUFFICES ASSUME q <= -1 PROVE FALSE
    BY <1>4
  <2>1. total * q <= - total
    BY <1>3, <1>4
  <2> QED
    BY <1>3, <1>4, <2>1
<1>6. ~ (q > 100)
  <2> SUFFICES ASSUME q >= 101 PROVE FALSE
    BY <1>4
  <2>1. total * q >= total * 100 + total
    BY <1>3, <1>4
  <2> QED
    BY <1>3, <1>4, <2>1
<1> QED
  BY <1>4, <1>5, <1>6

\* The busy part of the processor is a percentage, also between two boots and when the
\* counters do not move together.
THEOREM RatesInRange == HmSpec => []Percent
<1>1. HmInit => Percent
  BY DEF HmInit, Percent
<1>2. HmInv /\ Percent /\ [HmNext]_hmVars => Percent'
  <2> SUFFICES ASSUME HmInv, Percent, [HmNext]_hmVars PROVE Percent'
    OBVIOUS
  <2>1. CASE UNCHANGED hmRow
    BY <2>1 DEF Percent
  <2>2. CASE \E state : hmRow' = NoRow(state)
    BY <2>2 DEF Percent, NoRow
  <2>3. ASSUME NEW c \in HmCollections, Compose(c) PROVE Percent'
    <3>1. hmRow'.cpu \in {HmNone, CpuPercent(hmJob[c].got, Base(hmJob[c].got).got)}
      BY <2>3 DEF Compose
    <3>2. hmRow'.cpu # HmNone => Base(hmJob[c].got) = hmPrev /\ hmPrev # HmNone
      BY <2>3 DEF Compose, Wide, Base
    <3>3. hmJob[c].got \in HostReadings
      BY <2>3 DEF Compose, HmInv, JobsRead, Past
    <3>4. hmPrev # HmNone => hmPrev.got \in HostReadings
      BY DEF HmInv, Window, Past
    <3> QED
      BY <3>1, <3>2, <3>3, <3>4, CpuInRange DEF Percent
  <2> QED
    BY <2>1, <2>2, <2>3
       DEF HmNext, hmVars, HmTick, HmSwitch, HmAsk, Skip, HmRead, FetchFails, Unreadable
<1>3. HmSpec => []HmInv
  BY HmInitInv, HmStepInv, PTL DEF HmSpec
<1> QED
  BY <1>1, <1>2, <1>3, PTL DEF HmSpec

-----------------------------------------------------------------------------
(***************************************************************************)
(* WanRates.  A row that was read tells what its interface had carried,    *)
(* but for a shift that is 0 until the counter starts again and then the   *)
(* same for every row.                                                     *)
(***************************************************************************)

WanRow == [name : Names, octets : Nat, carried : Nat, starts : {0, 1}, read : BOOLEAN]

WnTypes ==
    /\ wnRouter \in [listed : SUBSET Names, octets : [Names -> Nat],
                     carried : [Names -> Nat], starts : [Names -> {0, 1}]]
    /\ DOMAIN wnRows \subseteq Nat
    /\ \A k \in DOMAIN wnRows : wnRows[k] \in WanRow
    /\ wnRound \in Nat
    /\ wnLast # WnNone => /\ wnLast.row \in WanRow
                         /\ wnLast.round \in Nat /\ wnRound = wnLast.round + 1

CountersTell ==
    \A i \in Names : wnRouter.starts[i] = 0 => wnRouter.octets[i] = wnRouter.carried[i]

\* The shift of a row is that of its interface now.
RowTells(row) ==
    row.read =>
        /\ row.starts = 0 => row.octets = row.carried
        /\ row.starts = 1 =>
              /\ wnRouter.starts[row.name] = 1
              /\ row.carried - row.octets
                    = wnRouter.carried[row.name] - wnRouter.octets[row.name]

WnInv ==
    /\ WnTypes /\ CountersTell /\ WanHonest
    /\ \A k \in DOMAIN wnRows : RowTells(wnRows[k])
    /\ wnLast # WnNone => RowTells(wnLast.row)

\* A set of naturals that is not empty has a least one: the first of the candidates.
LEMMA MinExists ==
    ASSUME NEW T, T \subseteq Nat, T # {}
    PROVE  \E x \in T : \A y \in T : x <= y
<1>1. PICK x \in T : \A y \in T : ~ (<<y, x>> \in OpToRel(<, Nat))
  BY NatLessThanWellFounded, WFMin
<1>2. \A y \in T : <<y, x>> \in OpToRel(<, Nat) <=> y < x
  BY DEF OpToRel
<1>3. \A y \in T : ~ (y < x)
  BY <1>1, <1>2, Zenon
<1> QED
  BY <1>3

LEMMA MinFacts ==
    ASSUME NEW T, T \subseteq Nat, T # {}
    PROVE  Min(T) \in T
BY MinExists DEF Min

\* The interface picked is one of the rows.
LEMMA PickedFacts ==
    ASSUME NEW rows, DOMAIN rows \subseteq Nat, PickWan(rows) # 0
    PROVE  PickWan(rows) \in DOMAIN rows
<1> DEFINE Called(names) == {k \in DOMAIN rows : rows[k].name \in names}
           carrying == {k \in DOMAIN rows : rows[k].octets > 0}
           choices == <<Called({WnConfigured}), Called(WnCandidates), carrying>>
           some == {c \in DOMAIN choices : choices[c] # {}}
<1>1. some # {} /\ PickWan(rows) = Min(choices[Min(some)])
  BY DEF PickWan
<1>2. DOMAIN choices = 1 .. 3 /\ some \subseteq Nat
  OBVIOUS
<1>3. Min(some) \in some
  BY <1>1, <1>2, MinFacts
<1>4. choices[Min(some)] # {} /\ choices[Min(some)] \subseteq DOMAIN rows
  <2>1. Min(some) \in 1 .. 3 /\ choices[Min(some)] # {}
    BY <1>2, <1>3
  <2>2. choices[1] \subseteq DOMAIN rows /\ choices[2] \subseteq DOMAIN rows
        /\ choices[3] \subseteq DOMAIN rows
    OBVIOUS
  <2>3. choices[Min(some)] \subseteq DOMAIN rows
    <3> HIDE DEF choices, some
    <3> QED
      BY <2>1, <2>2
  <2> QED
    BY <2>1, <2>3
<1> QED
  BY <1>1, <1>4, MinFacts

LEMMA WnInitInv == WnInit => WnInv
<1> SUFFICES ASSUME WnInit PROVE WnInv
  OBVIOUS
<1>1. DOMAIN wnRows = {}
  BY DEF WnInit
<1> QED
  BY <1>1 DEF WnInit, NoPoint, WnInv, WnTypes, CountersTell, RowTells, WanHonest

\* What happens to the router leaves the rows true.
LEMMA RouterInv ==
    ASSUME WnInv, UNCHANGED <<wnRows, wnLast, wnPoint, wnRound>>, WnTypes', CountersTell',
           \A i \in Names : wnRouter.starts[i] = 1 =>
              /\ wnRouter'.starts[i] = 1
              /\ wnRouter'.carried[i] - wnRouter'.octets[i]
                    = wnRouter.carried[i] - wnRouter.octets[i]
    PROVE  WnInv'
<1>1. \A row \in WanRow : RowTells(row) => RowTells(row)'
  BY DEF RowTells, WanRow
<1> QED
  BY <1>1 DEF WnInv, WnTypes, WanHonest

\* The rows of a dump tell what the interfaces have carried.
LEMMA RowsFacts ==
    ASSUME WnInv, NEW unanswered \in SUBSET wnRouter.listed
    PROVE  LET rows == InterfaceRows(unanswered) IN
           /\ DOMAIN rows \subseteq Nat
           /\ \A k \in DOMAIN rows : rows[k] \in WanRow /\ RowTells(rows[k])
<1> DEFINE rows == InterfaceRows(unanswered)
<1>1. DOMAIN WnInterfaces \subseteq Nat /\ \A k \in DOMAIN WnInterfaces : WnInterfaces[k] \in Names
  BY InterfacesListed, LenProperties DEF Names
<1>2. DOMAIN rows \subseteq DOMAIN WnInterfaces
  BY DEF InterfaceRows
<1>3. ASSUME NEW k \in DOMAIN rows PROVE rows[k] \in WanRow /\ RowTells(rows[k])
  <2> DEFINE i == WnInterfaces[k]
  <2>1. i \in Names
    BY <1>1, <1>2
  <2>2. rows[k] = [name |-> i, octets |-> IF i \in unanswered THEN 0 ELSE wnRouter.octets[i],
                   carried |-> wnRouter.carried[i], starts |-> wnRouter.starts[i],
                   read |-> i \notin unanswered]
    BY DEF InterfaceRows
  <2>3. /\ wnRouter.octets[i] \in Nat /\ wnRouter.carried[i] \in Nat
        /\ wnRouter.starts[i] \in {0, 1}
    BY <2>1 DEF WnInv, WnTypes
  <2>4. rows[k] \in WanRow
    <3>1. (i \notin unanswered) \in BOOLEAN
      OBVIOUS
    <3>2. (IF i \in unanswered THEN 0 ELSE wnRouter.octets[i]) \in Nat
      BY <2>3
    <3> HIDE DEF i
    <3> QED
      BY <2>1, <2>2, <2>3, <3>1, <3>2 DEF WanRow
  <2>5. ASSUME i \notin unanswered
        PROVE  rows[k].name = i /\ rows[k].octets = wnRouter.octets[i]
               /\ rows[k].carried = wnRouter.carried[i] /\ rows[k].starts = wnRouter.starts[i]
    BY <2>2, <2>5
  <2>6. rows[k].read => i \notin unanswered
    <3>1. CASE i \in unanswered
      <4>1. (i \notin unanswered) = FALSE
        BY <3>1
      <4>2. rows[k] = [name |-> i, octets |-> 0, carried |-> wnRouter.carried[i],
                       starts |-> wnRouter.starts[i], read |-> FALSE]
        <5> HIDE DEF i, rows
        <5> QED
          BY <2>2, <3>1, <4>1, Zenon
      <4>3. rows[k].read = FALSE
        <5> HIDE DEF i, rows
        <5> QED
          BY <4>2
      <4> QED
        BY <4>3
    <3> QED
      BY <3>1
  <2>7. RowTells(rows[k])
    BY <2>1, <2>3, <2>5, <2>6 DEF RowTells, WnInv, CountersTell
  <2> QED
    BY <2>4, <2>7
<1> QED
  BY <1>1, <1>2, <1>3

\* A rate between two rows of one interface that tell what it had carried.
LEMMA OctetsCarried ==
    ASSUME NEW from \in WanRow, NEW to \in WanRow, RowTells(from), RowTells(to),
           WnTypes, from.name = to.name, from.read, to.read, from.starts = to.starts
    PROVE  to.octets - from.octets = to.carried - from.carried
BY DEF RowTells, WanRow, WnTypes

LEMMA WnStepInv == WnInv /\ [WnNext]_wnVars => WnInv'
<1> SUFFICES ASSUME WnInv, [WnNext]_wnVars PROVE WnInv'
  OBVIOUS
<1> USE DEF WnInv
<1>0. /\ wnRouter.listed \in SUBSET Names /\ wnRouter.octets \in [Names -> Nat]
      /\ wnRouter.carried \in [Names -> Nat] /\ wnRouter.starts \in [Names -> {0, 1}]
  BY DEF WnTypes
<1>1. CASE UNCHANGED wnVars
  BY <1>1 DEF wnVars, WnTypes, CountersTell, RowTells, WanHonest
<1>2. ASSUME NEW i \in Names, Carries(i) PROVE WnInv'
  <2>1. /\ wnRouter'.octets = [wnRouter.octets EXCEPT ![i] = @ + 1]
        /\ wnRouter'.carried = [wnRouter.carried EXCEPT ![i] = @ + 1]
        /\ wnRouter'.starts = wnRouter.starts /\ wnRouter'.listed = wnRouter.listed
        /\ UNCHANGED <<wnRows, wnLast, wnPoint, wnRound>>
    BY <1>0, <1>2 DEF Carries, WnTypes
  <2>2. WnTypes'
    <3>1. wnRouter' = [wnRouter EXCEPT !.octets = wnRouter'.octets,
                                       !.carried = wnRouter'.carried]
      BY <1>0, <1>2, <2>1 DEF Carries, WnTypes
    <3>2. wnRouter'.octets \in [Names -> Nat] /\ wnRouter'.carried \in [Names -> Nat]
      BY <1>0, <2>1
    <3> QED
      BY <2>1, <3>1, <3>2 DEF WnTypes
  <2>3. CountersTell'
    BY <1>0, <2>1 DEF CountersTell
  <2> QED
    BY <1>0, <2>1, <2>2, <2>3, RouterInv
<1>3. ASSUME NEW i \in Names, ListedOrNot(i) PROVE WnInv'
  <2>1. /\ wnRouter' = [wnRouter EXCEPT !.listed = wnRouter'.listed]
        /\ wnRouter'.listed \in SUBSET Names
        /\ UNCHANGED <<wnRows, wnLast, wnPoint, wnRound>>
    BY <1>0, <1>3 DEF ListedOrNot, WnTypes
  <2>2. WnTypes' /\ CountersTell'
    BY <1>0, <2>1 DEF WnTypes, CountersTell
  <2> QED
    BY <1>0, <2>1, <2>2, RouterInv DEF WnTypes
<1>4. ASSUME NEW devices \in SUBSET Names, StartsAgain(devices) PROVE WnInv'
  <2>1. /\ wnRouter'.octets = [i \in Names |-> IF i \in devices THEN 0 ELSE wnRouter.octets[i]]
        /\ wnRouter'.starts = [i \in Names |-> IF i \in devices THEN 1 ELSE wnRouter.starts[i]]
        /\ wnRouter'.carried = wnRouter.carried /\ wnRouter'.listed = wnRouter.listed
        /\ \A i \in devices : wnRouter.starts[i] = 0
        /\ UNCHANGED <<wnRows, wnLast, wnPoint, wnRound>>
    BY <1>0, <1>4 DEF StartsAgain, WnTypes
  <2>2. WnTypes'
    BY <1>0, <1>4, <2>1 DEF StartsAgain, WnTypes
  <2>3. CountersTell'
    BY <1>0, <2>1 DEF CountersTell
  <2> QED
    BY <1>0, <2>1, <2>2, <2>3, RouterInv
<1>5. CASE InterfacesCollected
  <2>1. PICK rows : /\ wnRows' = rows
                    /\ rows = <<>> \/ \E unanswered \in SUBSET wnRouter.listed :
                                          rows = InterfaceRows(unanswered)
    BY <1>5 DEF InterfacesCollected
  <2>2. /\ DOMAIN rows \subseteq Nat
        /\ \A k \in DOMAIN rows : rows[k] \in WanRow /\ RowTells(rows[k])
    BY <2>1, RowsFacts
  <2>3. UNCHANGED <<wnRouter, wnLast, wnPoint, wnRound>>
    BY <1>5 DEF InterfacesCollected
  <2> QED
    BY <2>1, <2>2, <2>3 DEF WnTypes, CountersTell, RowTells, WanHonest
<1>6. CASE InterfacesFailed
  BY <1>6 DEF InterfacesFailed, WnTypes, CountersTell, RowTells, WanHonest
<1>7. CASE TrafficPoint
  <2> DEFINE k == PickWan(wnRows)
             now == [row |-> wnRows[k], round |-> wnRound]
  <2>1. /\ wnRound' = wnRound + 1 /\ UNCHANGED <<wnRouter, wnRows>>
        /\ wnLast' = IF k = 0 THEN WnNone ELSE now
        /\ wnPoint' = IF k = 0 THEN NoPoint
                      ELSE [octets |-> WanOctets(wnLast, now.row), from |-> wnLast, to |-> now]
    BY <1>7 DEF TrafficPoint
  <2>2. k # 0 => k \in DOMAIN wnRows /\ wnRows[k] \in WanRow /\ RowTells(wnRows[k])
    BY PickedFacts DEF WnTypes
  <2>3. wnLast' # WnNone => wnLast' = now /\ k # 0
    BY <2>1
  <2>4. WnTypes'
    BY <2>1, <2>2, <2>3 DEF WnTypes
  <2>5. CountersTell' /\ (\A j \in DOMAIN wnRows' : RowTells(wnRows[j])')
        /\ (wnLast' # WnNone => RowTells(wnLast.row)')
    BY <2>1, <2>2, <2>3 DEF CountersTell, RowTells
  <2>6. ASSUME wnPoint'.octets # WnNone PROVE WanHonest'
    <3>1. k # 0 /\ wnPoint' = [octets |-> WanOctets(wnLast, now.row), from |-> wnLast, to |-> now]
      BY <2>1, <2>6 DEF NoPoint
    <3>2. /\ wnLast # WnNone /\ wnLast.row.name = now.row.name
          /\ wnPoint'.octets = now.row.octets - wnLast.row.octets
      BY <2>6, <3>1 DEF WanOctets
    <3>3. /\ wnLast.row \in WanRow /\ now.row \in WanRow /\ RowTells(wnLast.row)
          /\ RowTells(now.row) /\ wnRound = wnLast.round + 1
      BY <2>2, <3>1, <3>2 DEF WnTypes
    <3> QED
      BY <3>1, <3>2, <3>3, OctetsCarried DEF WanHonest
  <2> QED
    BY <2>4, <2>5, <2>6 DEF WanHonest
<1> QED
  BY <1>1, <1>2, <1>3, <1>4, <1>5, <1>6, <1>7 DEF WnNext

\* A rate of the uplink compares two rounds that follow one another and one interface, and
\* where both counters were read and neither started again it is what the interface
\* carried, whatever was unplugged, unlisted or unanswered in between (_wan_rates).
THEOREM UplinkStaysHonest == WnSpec => []WanHonest
BY WnInitInv, WnStepInv, PTL DEF WnSpec, WnInv

-----------------------------------------------------------------------------
(***************************************************************************)
(* SnmpRates.  The reading kept is of the counter as it was, whatever it   *)
(* has counted since; and a host that is not known leaves neither reading  *)
(* nor poll behind, unless it was dropped in the middle of one.            *)
(***************************************************************************)

\* What a reading says of its counter: the octets since the agent started, round or not.
Shows(r) ==
    /\ r.bits \in {32, 64}
    /\ r.octets = IF r.bits = 32 THEN (r.traffic - r.boot.octets) % SpRound
                  ELSE r.traffic - r.boot.octets

SpTypes ==
    /\ spTraffic \in Nat
    /\ spBootAt.octets \in Nat
    /\ spBootAt.octets <= spTraffic

\* The reading kept.
PrevShows ==
    spPrev # SpNone =>
        /\ spPrev.traffic \in Nat /\ spPrev.boot.octets \in Nat
        /\ spPrev.boot.octets <= spPrev.traffic
        /\ spPrev.traffic <= spTraffic
        /\ Shows(spPrev)

\* What a host that is dropped leaves behind.
LeftBehind ==
    /\ spPrev # SpNone /\ spHole => spLate
    /\ ~ spKnown /\ (spPrev # SpNone \/ spPoll # "idle") => spLate

SpInv == SpTypes /\ PrevShows /\ LeftBehind /\ RateHonest

\* Two readings of a counter that goes round: what lies between them, less than a round,
\* is their difference or a round more.
LEMMA RoundFacts ==
    ASSUME NEW r \in Nat \ {0}, NEW a \in Nat, NEW c \in Nat, a <= c, c - a < r
    PROVE  (c % r) - (a % r) \in {c - a, c - a - r}
<1>1. /\ a = r * (a \div r) + (a % r) /\ c = r * (c \div r) + (c % r)
      /\ a \div r \in Int /\ c \div r \in Int /\ a % r \in 0 .. (r - 1) /\ c % r \in 0 .. (r - 1)
  OBVIOUS
<1> DEFINE d == (c \div r) - (a \div r)
<1>2. c - a = r * d + ((c % r) - (a % r))
  BY <1>1
<1>3. d \in Int /\ (c % r) - (a % r) > -r /\ (c % r) - (a % r) < r
  BY <1>1
<1>4. d = 0 \/ d = 1
  <2> SUFFICES ASSUME d <= -1 \/ d >= 2 PROVE FALSE
    BY <1>3
  <2>1. CASE d <= -1
    <3>1. r * d <= -r
      BY <1>3, <2>1
    <3> QED
      BY <1>2, <1>3, <3>1
  <2>2. CASE d >= 2
    <3>1. r * d >= 2 * r
      BY <1>3, <2>2
    <3> QED
      BY <1>2, <1>3, <3>1
  <2> QED
    BY <2>1, <2>2
<1> QED
  BY <1>2, <1>3, <1>4

\* A number below the round is its own remainder.
LEMMA BelowRound ==
    ASSUME NEW r \in Nat \ {0}, NEW a \in Nat
    PROVE  a % r \in Nat /\ a % r <= a /\ (a < r => a % r = a)
<1>1. /\ a = r * (a \div r) + (a % r) /\ a \div r \in Nat /\ a % r \in Nat
      /\ a < r => a \div r = 0
  OBVIOUS
<1> DEFINE q == a \div r
           m == a % r
<1>2. a = r * q + m /\ q \in Nat /\ m \in Nat /\ (a < r => q = 0)
  BY <1>1
<1> HIDE DEF q, m
<1>3. r * q \in Nat /\ (q = 0 => r * q = 0)
  BY <1>2
<1> QED
  BY <1>2, <1>3 DEF m

\* The rate between the reading kept and the one of now, of an agent that has not started
\* again in between, where the two widths tell.
LEMMA RateTold ==
    ASSUME NEW prev, NEW cur,
           prev.traffic \in Nat, prev.boot.octets \in Nat, cur.traffic \in Nat,
           prev.boot.octets <= prev.traffic, prev.traffic <= cur.traffic,
           cur.boot = prev.boot, Shows(prev), Shows(cur), Comparable(prev, cur),
           RateOctets(prev, cur) # SpNone
    PROVE  RateOctets(prev, cur) = cur.traffic - prev.traffic
<1> DEFINE a == prev.traffic - prev.boot.octets
           c == cur.traffic - prev.boot.octets
           real == cur.traffic - prev.traffic
           delta == cur.octets - prev.octets
<1>1. a \in Nat /\ c \in Nat /\ a <= c /\ c - a = real /\ real \in Nat
  OBVIOUS
<1>2. RateOctets(prev, cur) =
          IF delta >= 0 THEN delta
          ELSE IF cur.bits = 32 /\ prev.bits = 32 THEN delta + SpRound ELSE SpNone
  BY DEF RateOctets
<1>3. /\ prev.octets = IF prev.bits = 32 THEN a % SpRound ELSE a
      /\ cur.octets = IF cur.bits = 32 THEN c % SpRound ELSE c
      /\ cur.bits = 32 => real < SpRound
      /\ cur.bits # 32 => (prev.bits = 32 => a < SpRound)
  BY DEF Shows, Comparable
<1>4. SpRound \in Nat \ {0}
  BY RoundPositive
<1> HIDE DEF a, c, real
<1>5. CASE cur.bits = 32 /\ prev.bits = 32
  <2>1. prev.octets = a % SpRound /\ cur.octets = c % SpRound
    BY <1>3, <1>5
  <2>2. delta \in {real, real - SpRound} /\ real < SpRound
    BY <1>1, <1>3, <1>4, <1>5, <2>1, RoundFacts
  <2> HIDE DEF delta
  <2> QED
    BY <1>1, <1>2, <1>4, <1>5, <2>2 DEF real
<1>6. CASE cur.bits = 32 /\ prev.bits # 32
  <2>1. prev.octets = a /\ cur.octets = c % SpRound
    BY <1>3, <1>6
  <2>2. (c % SpRound) - (a % SpRound) \in {real, real - SpRound} /\ real < SpRound
    BY <1>1, <1>3, <1>4, <1>6, RoundFacts
  <2>3. /\ a % SpRound \in Nat /\ a % SpRound <= a
        /\ c % SpRound \in Nat
        /\ a < SpRound => a % SpRound = a
    BY <1>1, <1>4, BelowRound
  <2>4. delta >= 0
    BY <1>2, <1>6
  <2>5. delta = (c % SpRound) - a
    BY <2>1
  <2>6. a % SpRound = a
    <3>1. a <= c % SpRound
      BY <1>1, <2>3, <2>4, <2>5
    <3>2. c % SpRound < SpRound
      BY <1>1, <1>4
    <3> QED
      BY <1>1, <1>4, <2>3, <3>1, <3>2
  <2>7. delta \in {real, real - SpRound}
    BY <2>2, <2>5, <2>6
  <2> HIDE DEF delta
  <2> QED
    BY <1>1, <1>2, <1>4, <2>2, <2>4, <2>7 DEF real
<1>7. CASE cur.bits # 32
  <2>1. prev.octets = a /\ cur.octets = c
    BY <1>1, <1>3, <1>4, <1>7, BelowRound
  <2> QED
    BY <1>1, <1>2, <2>1 DEF real
<1> QED
  BY <1>5, <1>6, <1>7

LEMMA SpInitInv == SpInit => SpInv
BY DEF SpInit, SpInv, SpTypes, PrevShows, LeftBehind, RateHonest, NoRate

LEMMA SpStepInv == SpInv /\ [SpNext]_spVars => SpInv'
<1> SUFFICES ASSUME SpInv, [SpNext]_spVars PROVE SpInv'
  OBVIOUS
<1> USE DEF SpInv
<1>1. CASE UNCHANGED spVars
  BY <1>1 DEF spVars, spAgent, spHistory, SpTypes, PrevShows, Shows, LeftBehind, RateHonest
<1>2. CASE SpTick
  BY <1>2 DEF SpTick, spAgent, spHistory, SpTypes, PrevShows, Shows, LeftBehind, RateHonest
<1>3. CASE OctetPasses
  BY <1>3 DEF OctetPasses, spHistory, SpTypes, PrevShows, Shows, LeftBehind, RateHonest
<1>4. CASE AgentReboots
  <2>1. /\ spBootAt'.octets = spTraffic
        /\ UNCHANGED <<spTraffic, spKnown, spPrev, spPoll, spHole, spLate, spRate>>
    BY <1>4 DEF AgentReboots, spHistory
  <2> QED
    BY <2>1 DEF SpTypes, PrevShows, Shows, LeftBehind, RateHonest
<1>5. ASSUME NEW found \in BOOLEAN, SetDiscovered(found) PROVE SpInv'
  <2>1. /\ spKnown' = found /\ found # spKnown
        /\ spPrev' = IF found THEN spPrev ELSE SpNone
        /\ spLate' = (spLate \/ (~ found /\ spPoll # "idle"))
        /\ UNCHANGED <<spTraffic, spBootAt, spPoll, spRate>>
    BY <1>5 DEF SetDiscovered, spAgent
  <2>2. SpTypes' /\ PrevShows'
    BY <2>1 DEF SpTypes, PrevShows, Shows
  <2>3. spLate => spLate'
    BY <2>1
  <2>4. LeftBehind'
    <3>1. CASE found
      BY <2>1, <2>3, <3>1 DEF LeftBehind
    <3>2. CASE ~ found
      BY <2>1, <2>3, <3>2 DEF LeftBehind
    <3> QED
      BY <3>1, <3>2
  <2>5. RateHonest'
    BY <2>1, <2>3 DEF RateHonest
  <2> QED
    BY <2>2, <2>4, <2>5
<1>6. CASE PollStarts
  BY <1>6 DEF PollStarts, spAgent, spHistory, SpTypes, PrevShows, Shows, LeftBehind, RateHonest
<1>7. CASE UptimeTold
  BY <1>7 DEF UptimeTold, spAgent, spHistory, SpTypes, PrevShows, Shows, LeftBehind, RateHonest
<1>8. ASSUME NEW bits \in {32, 64}, NEW renamed \in BOOLEAN, TablesRead(bits, renamed)
      PROVE  SpInv'
  <2> DEFINE prev == IF renamed THEN SpNone ELSE spPrev
             cur == [octets |-> Counter(bits), bits |-> bits, t |-> spNow, uptime |-> spUptime,
                     traffic |-> spTraffic, boot |-> spBootAt]
  <2>1. /\ spPoll = "tables" /\ spPrev' = cur /\ spHole' = FALSE
        /\ UNCHANGED <<spTraffic, spBootAt, spKnown, spLate>>
    BY <1>8 DEF TablesRead, spAgent
  <2>2. SpTypes' /\ Shows(cur) /\ cur.traffic = spTraffic /\ cur.boot = spBootAt
    BY <2>1 DEF SpTypes, Shows, Counter
  <2>3. PrevShows'
    BY <2>1, <2>2 DEF PrevShows, Shows, SpTypes
  <2>4. LeftBehind'
    BY <2>1 DEF LeftBehind
  <2>5. ASSUME spRate'.octets # SpNone PROVE RateHonest'
    <3>1. /\ prev # SpNone /\ prev = spPrev
          /\ spRate' = [octets |-> RateOctets(prev, cur),
                        real |-> cur.traffic - prev.traffic,
                        told |-> cur.boot = prev.boot \/ Restarted(prev, cur),
                        exact |-> Comparable(prev, cur),
                        hole |-> spHole]
      BY <1>8, <2>5 DEF TablesRead, NoRate
    <3> HIDE DEF prev, cur
    <3>2. spRate'.hole => spLate'
      BY <2>1, <3>1 DEF LeftBehind
    <3>3. ~ Restarted(prev, cur) /\ RateOctets(prev, cur) # SpNone
      BY <2>5, <3>1 DEF RateOctets
    <3>4. ASSUME spRate'.told, spRate'.exact
          PROVE  spRate'.octets = spRate'.real
      <4>1. cur.boot = prev.boot /\ Comparable(prev, cur)
        BY <3>1, <3>3, <3>4
      <4>2. /\ prev.traffic \in Nat /\ prev.boot.octets \in Nat /\ cur.traffic \in Nat
            /\ prev.boot.octets <= prev.traffic /\ prev.traffic <= cur.traffic
            /\ Shows(prev)
        BY <2>2, <3>1 DEF PrevShows, SpTypes
      <4>3. RateOctets(prev, cur) = cur.traffic - prev.traffic
        BY <2>2, <3>3, <4>1, <4>2, RateTold
      <4> QED
        BY <3>1, <4>3
    <3> QED
      BY <2>1, <3>2, <3>4 DEF RateHonest
  <2> QED
    BY <2>2, <2>3, <2>4, <2>5 DEF RateHonest
<1>9. CASE CounterMissing
  BY <1>9 DEF CounterMissing, NoRate, spAgent, SpTypes, PrevShows, LeftBehind, RateHonest
<1>10. CASE ReadingFails
  BY <1>10 DEF ReadingFails, spAgent, spHistory, SpTypes, PrevShows, Shows, LeftBehind, RateHonest
<1>11. CASE ReadingSkipped
  BY <1>11 DEF ReadingSkipped, spAgent, spHistory, SpTypes, PrevShows, Shows, LeftBehind, RateHonest
<1> QED
  BY <1>1, <1>2, <1>3, <1>4, <1>5, <1>6, <1>7, <1>8, <1>9, <1>10, <1>11 DEF SpNext

\* A rate of an interface is what really passed between the two readings, also where
\* readings that were skipped lie between them, and never spans one the agent did not
\* answer or a time in which the host was not known: a counter that goes round is put
\* right, a width that changes is no traffic, and an agent that has started again gives
\* none, wherever the counter goes round and with the exceptions RateHonest names
\* (rate_bps, SnmpState).
THEOREM SnmpRatesHonest == SpSpec => []RateHonest
BY SpInitInv, SpStepInv, PTL DEF SpSpec, SpInv

-----------------------------------------------------------------------------
(***************************************************************************)
(* SnmpTopology.  A link that closes no ring with those kept leaves them a *)
(* forest, and one that closes a ring closes it in whatever is kept later. *)
(***************************************************************************)

\* What a link may be.
TpLinkSet == [device : TpDevices, via : TpHosts, port : TpPorts \cup {TpUnseen}, source : {"lldp", "fdb"}]

OneEach(links) == \A a, b \in links : a.device = b.device => a = b

\* What has been read is of the devices.
TpTyped ==
    /\ tpLldp \in [TpHosts -> Seq([dev : TpDevices, port : TpPorts])]
    /\ tpFdb \in [TpHosts -> [TpDevices -> TpPorts \cup {TpUnseen}]]

\* A link that closes no ring leaves a forest a forest.
LEMMA NoRingKeeps ==
    ASSUME NEW kept \in SUBSET TpLinkSet, NEW l \in TpLinkSet,
           Forest(kept), \A a \in kept : a.device # l.device, ~ Rings(kept, l)
    PROVE  Forest(kept \cup {l})
<1>1. PICK met \in SUBSET TpDevices :
          /\ l.via \in met /\ l.device \notin met
          /\ \A d \in met : Parent(kept, d) \subseteq met
  BY DEF Rings
<1>2. SUFFICES ASSUME NEW ds \in SUBSET TpDevices, ds # {},
                      \A d \in ds : \E a \in kept \cup {l} : a.device = d /\ a.via \in ds
               PROVE  FALSE
  BY DEF Forest
<1>3. CASE l.device \notin ds
  <2>1. \A d \in ds : \E a \in kept : a.device = d /\ a.via \in ds
    BY <1>2, <1>3
  <2> QED
    BY <1>2, <2>1 DEF Forest
<1>4. CASE l.device \in ds
  <2>1. l.via \in ds \cap met
    BY <1>1, <1>2, <1>4
  <2>2. ASSUME NEW d \in ds \cap met PROVE \E a \in kept : a.device = d /\ a.via \in ds \cap met
    <3>1. PICK a \in kept \cup {l} : a.device = d /\ a.via \in ds
      BY <1>2
    <3>2. a \in kept
      BY <1>1, <3>1
    <3>3. a.via \in Parent(kept, d)
      BY <3>1, <3>2 DEF Parent
    <3> QED
      BY <1>1, <3>1, <3>2, <3>3
  <2>3. ds \cap met \in SUBSET TpDevices /\ ds \cap met # {}
    BY <2>1
  <2> QED
    BY <2>2, <2>3 DEF Forest
<1> QED
  BY <1>3, <1>4

\* A link that closes a ring would close it in whatever holds the links that are kept.
LEMMA RingRings ==
    ASSUME NEW kept \in SUBSET TpLinkSet, NEW l \in TpLinkSet, Rings(kept, l),
           NEW links, kept \subseteq links
    PROVE  ~ Forest(links \cup {l})
<1> DEFINE Path(y, ds) == /\ l.via \in ds /\ y \in ds
                          /\ \A d \in ds \ {y} : \E a \in kept : a.device = d /\ a.via \in ds
           met == {y \in TpDevices : \E ds \in SUBSET TpDevices : Path(y, ds)}
<1>1. l.via \in met
  <2>1. l.via \in TpDevices
    BY TpHostsAreDevices DEF TpLinkSet
  <2>2. Path(l.via, {l.via}) /\ {l.via} \in SUBSET TpDevices
    BY <2>1
  <2> QED
    BY <2>1, <2>2
<1>2. ASSUME NEW d \in met, NEW y \in Parent(kept, d) PROVE y \in met
  <2>1. PICK a \in kept : a.device = d /\ y = a.via
    BY <1>2 DEF Parent
  <2>2. y \in TpDevices
    BY <2>1, TpHostsAreDevices DEF TpLinkSet
  <2>3. PICK ds \in SUBSET TpDevices : Path(d, ds)
    BY <1>2
  <2>4. \A x \in (ds \cup {y}) \ {y} : \E b \in kept : b.device = x /\ b.via \in ds \cup {y}
    BY <2>1, <2>3
  <2>5. Path(y, ds \cup {y}) /\ ds \cup {y} \in SUBSET TpDevices
    BY <2>2, <2>3, <2>4
  <2> QED
    BY <2>2, <2>5
<1>3. met \in SUBSET TpDevices /\ \A d \in met : Parent(kept, d) \subseteq met
  BY <1>2
<1>4. l.device \in met
  <2> HIDE DEF met
  <2> QED
    BY <1>1, <1>3 DEF Rings
<1>5. PICK ds \in SUBSET TpDevices : Path(l.device, ds)
  BY <1>4
<1>6. ASSUME NEW d \in ds PROVE \E a \in links \cup {l} : a.device = d /\ a.via \in ds
  BY <1>5
<1> QED
  BY <1>5, <1>6 DEF Forest

\* One link for each device, at most: the first to announce it, or the nearest to see it.
LEMMA LinksOneEach ==
    ASSUME TpTyped
    PROVE  /\ LldpLinks \subseteq TpLinkSet /\ FdbLinks \subseteq TpLinkSet
           /\ \A a \in LldpLinks : a.source = "lldp"
           /\ OneEach(LldpLinks \cup FdbLinks)
<1>0. TpDevices \subseteq Int /\ TpHosts \subseteq Int
  <2>1. Cardinality(TpDevices) \in Nat
    BY TpDevicesNumbered, FS_CardinalityType
  <2> QED
    BY <2>1, TpDevicesNumbered, TpHostsAreDevices
<1>1. ASSUME NEW p \in Announcements
      PROVE  /\ p[1] \in TpHosts /\ p[1] \in Int /\ p[2] \in Int /\ p = <<p[1], p[2]>>
             /\ Announced(p) \in TpLinkSet
             /\ Announced(p).source = "lldp"
  <2>0. PICK h \in TpHosts : \E k \in DOMAIN tpLldp[h] : p = <<h, k>>
    BY DEF Announcements
  <2>1. PICK k \in DOMAIN tpLldp[h] : p = <<h, k>>
    BY <2>0
  <2> DEFINE Neighbour == [dev : TpDevices, port : TpPorts]
  <2>2. tpLldp[h] \in Seq(Neighbour)
    BY DEF TpTyped
  <2> HIDE DEF Neighbour
  <2>3. k \in Int /\ tpLldp[h][k] \in Neighbour
    BY <2>1, <2>2
  <2> USE DEF Neighbour
  <2> QED
    BY <1>0, <2>1, <2>3 DEF Announced, Link, TpLinkSet
<1>2. ASSUME NEW a \in LldpLinks
      PROVE  /\ a \in TpLinkSet /\ a.source = "lldp"
             /\ \A b \in LldpLinks : a.device = b.device => a = b
  <2>1. PICK p \in Announcements :
            /\ a = Announced(p)
            /\ \A r \in Announcements : Announced(r).device = a.device => ~ Earlier(r, p)
    BY DEF LldpLinks
  <2>2. ASSUME NEW b \in LldpLinks, a.device = b.device PROVE a = b
    <3>1. PICK q \in Announcements :
              /\ b = Announced(q)
              /\ \A r \in Announcements : Announced(r).device = b.device => ~ Earlier(r, q)
      BY DEF LldpLinks
    <3>2. ~ Earlier(q, p) /\ ~ Earlier(p, q)
      BY <2>1, <2>2, <3>1
    <3>3. p[1] = q[1] /\ p[2] = q[2]
      BY <1>1, <3>2 DEF Earlier
    <3> QED
      BY <1>1, <2>1, <3>1, <3>3
  <2> QED
    BY <1>1, <2>1, <2>2
<1>3. ASSUME NEW d \in TpDevices, NEW h \in TpHosts PROVE Crowd(h, tpFdb[h][d]) \in Int
  <2>1. {e \in TpDevices : tpFdb[h][e] = tpFdb[h][d]} \in SUBSET TpDevices
    OBVIOUS
  <2> QED
    BY <2>1, TpDevicesNumbered, FS_Subset, FS_CardinalityType DEF Crowd
<1>4. ASSUME NEW a \in FdbLinks
      PROVE  /\ a \in TpLinkSet /\ \A b \in LldpLinks : b.device # a.device
             /\ \A b \in FdbLinks : a.device = b.device => a = b
  <2>1. PICK d \in TpDevices, h \in TpHosts :
            /\ a = Link(d, h, tpFdb[h][d], "fdb") /\ Nearest(h, d)
            /\ \A l \in LldpLinks : l.device # d
    BY DEF FdbLinks
  <2>2. a \in TpLinkSet /\ a.device = d
    BY <2>1 DEF TpTyped, Link, TpLinkSet
  <2>3. ASSUME NEW b \in FdbLinks, a.device = b.device PROVE a = b
    <3>1. PICK e \in TpDevices, g \in TpHosts :
              b = Link(e, g, tpFdb[g][e], "fdb") /\ Nearest(g, e)
      BY DEF FdbLinks
    <3>2. e = d
      BY <2>2, <2>3, <3>1 DEF Link
    <3>3. Crowd(h, tpFdb[h][d]) \in Int /\ Crowd(g, tpFdb[g][d]) \in Int /\ g \in Int /\ h \in Int
      BY <1>0, <1>3
    <3>4. Sees(h, d) /\ Sees(g, d)
      BY <2>1, <3>1, <3>2 DEF Nearest
    <3>5. /\ \/ Crowd(h, tpFdb[h][d]) < Crowd(g, tpFdb[g][d])
             \/ Crowd(h, tpFdb[h][d]) = Crowd(g, tpFdb[g][d]) /\ h <= g
          /\ \/ Crowd(g, tpFdb[g][d]) < Crowd(h, tpFdb[h][d])
             \/ Crowd(g, tpFdb[g][d]) = Crowd(h, tpFdb[h][d]) /\ g <= h
      BY <2>1, <3>1, <3>2, <3>4 DEF Nearest
    <3>6. g = h
      BY <3>3, <3>5
    <3> QED
      BY <2>1, <3>1, <3>2, <3>6
  <2> QED
    BY <2>1, <2>2, <2>3
<1> QED
  BY <1>2, <1>4 DEF OneEach
\* What the first k turns have kept: a forest, and whatever they left out closed a ring.
TpBuilt(kept, k) ==
    /\ kept \subseteq {l \in LldpLinks \cup FdbLinks : \E i \in 1 .. k : l \in Turn(i)}
    /\ Forest(kept)
    /\ \A i \in 1 .. k : \A l \in Turn(i) \ kept : \E some \in SUBSET kept : Rings(some, l)

LEMMA TurnFacts ==
    ASSUME TpTyped
    PROVE  /\ Cardinality(TpDevices) \in Nat
           /\ \A i \in 1 .. 2 * Cardinality(TpDevices) : Turn(i) \subseteq LldpLinks \cup FdbLinks
           /\ \A l \in LldpLinks \cup FdbLinks :
                 \E i \in 1 .. 2 * Cardinality(TpDevices) : l \in Turn(i)
           /\ \A i, j \in 1 .. 2 * Cardinality(TpDevices) : i < j =>
                 \A l \in Turn(i), m \in Turn(j) : l.device # m.device
<1> DEFINE n == Cardinality(TpDevices)
<1>1. n \in Nat /\ TpDevices = 1 .. n
  BY TpDevicesNumbered, FS_CardinalityType
<1>2. ASSUME NEW i \in 1 .. 2 * n PROVE Turn(i) \subseteq LldpLinks \cup FdbLinks
  BY DEF Turn
<1>3. \A l \in LldpLinks \cup FdbLinks : l.device \in 1 .. n
  <2>1. \A l \in LldpLinks \cup FdbLinks : l \in TpLinkSet
    BY LinksOneEach
  <2> QED
    BY <1>1, <2>1 DEF TpLinkSet
<1>4. ASSUME NEW l \in LldpLinks \cup FdbLinks
      PROVE  \E i \in 1 .. 2 * n : l \in Turn(i)
  <2>1. CASE l \in LldpLinks
    <3>1. l \in Turn(l.device) /\ l.device \in 1 .. 2 * n
      BY <1>1, <1>3, <2>1 DEF Turn
    <3> QED
      BY <3>1
  <2>2. CASE l \in FdbLinks
    <3>1. PICK i \in 1 .. 2 * n : i = l.device + n
      BY <1>1, <1>3
    <3>2. ~ (i <= n) /\ i - n = l.device
      BY <1>1, <1>3, <3>1
    <3> QED
      BY <2>2, <3>2 DEF Turn
  <2> QED
    BY <2>1, <2>2
<1>5. ASSUME NEW i \in 1 .. 2 * n, NEW j \in 1 .. 2 * n, i < j,
             NEW l \in Turn(i), NEW m \in Turn(j), l.device = m.device
      PROVE  FALSE
  <2>1. l.device = (IF i <= n THEN i ELSE i - n) /\ m.device = (IF j <= n THEN j ELSE j - n)
    BY DEF Turn
  <2>2. i <= n /\ ~ (j <= n)
    <3>1. i \in Int /\ j \in Int /\ n \in Int /\ i < j
      BY <1>1, <1>5
    <3>2. (IF i <= n THEN i ELSE i - n) = (IF j <= n THEN j ELSE j - n)
      BY <1>5, <2>1
    <3> HIDE DEF n
    <3> QED
      BY <3>1, <3>2
  <2>3. l \in LldpLinks /\ m \in FdbLinks
    BY <2>2 DEF Turn
  <2>4. l = m /\ l.source = "lldp"
    BY <1>5, <2>3, LinksOneEach DEF OneEach
  <2>5. m.source = "fdb"
    BY <2>3 DEF FdbLinks, Link
  <2> QED
    BY <2>4, <2>5
<1> QED
  BY <1>1, <1>2, <1>4, <1>5

\* A turn goes on with what the turns before it have kept.
LEMMA TurnKeeps ==
    ASSUME TpTyped, NEW k \in 1 .. 2 * Cardinality(TpDevices), NEW kept, TpBuilt(kept, k - 1)
    PROVE  TpBuilt(kept \cup {l \in Turn(k) : ~ Rings(kept, l)}, k)
<1> DEFINE added == {l \in Turn(k) : ~ Rings(kept, l)}
           all == kept \cup added
<1>0. Cardinality(TpDevices) \in Nat /\ k - 1 \in Nat /\ k \in 1 .. k
      /\ 1 .. k = (1 .. (k - 1)) \cup {k}
  BY TurnFacts
<1>1. kept \in SUBSET TpLinkSet /\ Turn(k) \subseteq TpLinkSet
      /\ Turn(k) \subseteq LldpLinks \cup FdbLinks
  <2>1. Turn(k) \subseteq LldpLinks \cup FdbLinks
    BY TurnFacts
  <2> QED
    BY <2>1, LinksOneEach DEF TpBuilt
<1>2. \A l, m \in Turn(k) : l = m
  <2>1. ASSUME NEW l \in Turn(k), NEW m \in Turn(k) PROVE l.device = m.device
    BY DEF Turn
  <2> QED
    BY <1>1, <2>1, LinksOneEach DEF OneEach
<1>3. \A a \in kept : \A l \in Turn(k) : a.device # l.device
  <2> SUFFICES ASSUME NEW a \in kept, NEW l \in Turn(k) PROVE a.device # l.device
    OBVIOUS
  <2>1. PICK i \in 1 .. (k - 1) : a \in Turn(i)
    BY DEF TpBuilt
  <2>2. i < k /\ i \in 1 .. 2 * Cardinality(TpDevices)
    BY <1>0, <2>1
  <2> QED
    BY <2>1, <2>2, TurnFacts
<1>4. Forest(all)
  <2>1. CASE added = {}
    <3>1. all = kept
      BY <2>1
    <3> QED
      BY <3>1 DEF TpBuilt
  <2>2. CASE added # {}
    <3>1. PICK l \in added : TRUE
      BY <2>2
    <3>2. all = kept \cup {l} /\ l \in Turn(k) /\ ~ Rings(kept, l)
      BY <1>2, <3>1
    <3>3. Forest(kept) /\ l \in TpLinkSet /\ \A a \in kept : a.device # l.device
      BY <1>1, <1>3, <3>2 DEF TpBuilt
    <3>4. Forest(kept \cup {l})
      BY <1>1, <3>2, <3>3, NoRingKeeps
    <3> QED
      BY <3>2, <3>4
  <2> QED
    BY <2>1, <2>2
<1>5. all \subseteq {l \in LldpLinks \cup FdbLinks : \E i \in 1 .. k : l \in Turn(i)}
  <2> SUFFICES ASSUME NEW l \in all
               PROVE  l \in LldpLinks \cup FdbLinks /\ \E i \in 1 .. k : l \in Turn(i)
    OBVIOUS
  <2>1. CASE l \in kept
    BY <1>0, <2>1 DEF TpBuilt
  <2>2. CASE l \in added
    BY <1>0, <1>1, <2>2
  <2> QED
    BY <2>1, <2>2
<1>6. ASSUME NEW i \in 1 .. k, NEW l \in Turn(i) \ all
      PROVE  \E some \in SUBSET all : Rings(some, l)
  <2>1. CASE i = k
    BY <1>6, <2>1
  <2>2. CASE i # k
    <3>1. PICK some \in SUBSET kept : Rings(some, l)
      BY <1>0, <1>6, <2>2 DEF TpBuilt
    <3> QED
      BY <3>1
  <2> QED
    BY <2>1, <2>2
<1> HIDE DEF all
<1>7. TpBuilt(all, k)
  BY <1>4, <1>5, <1>6 DEF TpBuilt
<1> QED
  BY <1>7 DEF all

\* The links that are built are those of the last turn.
LEMMA TopologyBuilt ==
    ASSUME TpTyped
    PROVE  TpBuilt(BuildTopology, 2 * Cardinality(TpDevices))
<1> DEFINE n == 2 * Cardinality(TpDevices)
           Up(s, k) == s \cup {l \in Turn(k) : ~ Rings(s, l)}
           Runs(f, m) == f = [k \in 0 .. m |-> IF k = 0 THEN {} ELSE Up(f[k - 1], k)]
           claim(m) == \E f : Runs(f, m)
           wrong == {m \in 0 .. n : ~ claim(m)}
<1>0. n \in Nat
  <2>1. Cardinality(TpDevices) \in Nat
    BY TurnFacts
  <2> QED
    BY <2>1
<1> HIDE DEF n
<1>1. claim(0)
  <2> DEFINE f == [k \in 0 .. 0 |-> {}]
  <2>1. Runs(f, 0)
    OBVIOUS
  <2> HIDE DEF f
  <2> QED
    BY <2>1, Zenon
<1>2. ASSUME NEW m \in 1 .. n, claim(m - 1)
      PROVE  claim(m)
  <2>1. PICK f : Runs(f, m - 1)
    BY <1>2
  <2> DEFINE g == [k \in 0 .. m |-> IF k = m THEN Up(f[m - 1], m) ELSE f[k]]
  <2>2. m - 1 \in 0 .. m - 1 /\ m \in 0 .. m /\ m # 0 /\ m \in Nat
    BY <1>0
  <2> HIDE DEF Up
  <2>3. \A k \in 0 .. m - 1 : f[k] = IF k = 0 THEN {} ELSE Up(f[k - 1], k)
    BY <2>1
  <2>4. ASSUME NEW k \in 0 .. m PROVE g[k] = IF k = 0 THEN {} ELSE Up(g[k - 1], k)
    <3>1. CASE k = m
      <4>1. m - 1 \in 0 .. m /\ m - 1 # m
        BY <2>2
      <4>2. g[m - 1] = f[m - 1] /\ g[m] = Up(f[m - 1], m)
        BY <2>2, <4>1
      <4> QED
        BY <2>2, <3>1, <4>2
    <3>2. CASE k # m
      <4>1. k \in 0 .. m - 1 /\ (k # 0 => k - 1 \in 0 .. m /\ k - 1 # m)
        BY <2>2, <3>2
      <4>2. g[k] = f[k] /\ (k # 0 => g[k - 1] = f[k - 1])
        BY <3>2, <4>1
      <4> QED
        BY <2>3, <4>1, <4>2
    <3> QED
      BY <3>1, <3>2
  <2>5. Runs(g, m)
    <3>1. g = [k \in 0 .. m |-> g[k]]
      OBVIOUS
    <3> HIDE DEF g
    <3> QED
      BY <2>4, <3>1
  <2> HIDE DEF g
  <2> QED
    BY <2>5
<1> HIDE DEF claim
<1>3. wrong = {}
  <2> SUFFICES ASSUME wrong # {} PROVE FALSE
    OBVIOUS
  <2>1. wrong \subseteq Nat
    BY <1>0
  <2>2. PICK m \in wrong : \A x \in wrong : m <= x
    BY <2>1, MinExists
  <2>3. m \in 1 .. n /\ m - 1 \in 0 .. n /\ m - 1 \notin wrong
    BY <1>0, <1>1, <2>2
  <2> QED
    BY <1>2, <2>2, <2>3
<1>4. claim(n)
  BY <1>0, <1>3
<1>5. PICK f : Runs(f, n)
  BY <1>4 DEF claim
<1> DEFINE kept == CHOOSE K : K = [k \in 0 .. n |->
                       IF k = 0 THEN {} ELSE K[k - 1] \cup {l \in Turn(k) : ~ Rings(K[k - 1], l)}]
<1>6. BuildTopology = kept[n]
  BY Zenon DEF BuildTopology, n
<1>7. Runs(kept, n)
  BY <1>5, Zenon
<1> HIDE DEF kept
<1> DEFINE bad == {k \in 0 .. n : ~ TpBuilt(kept[k], k)}
<1>8. \A k \in 0 .. n : kept[k] = IF k = 0 THEN {} ELSE Up(kept[k - 1], k)
  <2> HIDE DEF Up
  <2> QED
    BY <1>7
<1>9. bad = {}
  <2> SUFFICES ASSUME bad # {} PROVE FALSE
    OBVIOUS
  <2>1. bad \subseteq Nat
    BY <1>0
  <2>2. PICK k \in bad : \A x \in bad : k <= x
    BY <2>1, MinExists
  <2>3. TpBuilt({}, 0)
    <3>1. Forest({}) /\ \A i \in 1 .. 0 : FALSE
      BY DEF Forest
    <3> QED
      BY <3>1 DEF TpBuilt
  <2>4. k # 0
    BY <1>0, <1>8, <2>2, <2>3
  <2>5. k \in 1 .. n /\ k - 1 \in 0 .. n /\ k - 1 \notin bad
    BY <1>0, <2>2, <2>4
  <2>6. TpBuilt(kept[k - 1], k - 1)
    BY <2>5
  <2>7. TpBuilt(Up(kept[k - 1], k), k)
    BY <2>5, <2>6, TurnKeeps DEF n
  <2>8. kept[k] = Up(kept[k - 1], k)
    <3> HIDE DEF Up
    <3> QED
      BY <1>8, <2>2, <2>4
  <2> HIDE DEF Up
  <2> QED
    BY <2>2, <2>7, <2>8
<1>10. TpBuilt(kept[n], n)
  BY <1>0, <1>9
<1> QED
  BY <1>6, <1>10 DEF n

\* What was read is of the devices, and what was built is built from it.
TpInv == TpTyped /\ (tpAt = "built" => tpLinks = BuildTopology)

LEMMA TpInvForest == TpInv => TopologyForest
<1> SUFFICES ASSUME TpInv, tpAt = "built" PROVE TopologyForest
  BY DEF TopologyForest
<1> DEFINE n == 2 * Cardinality(TpDevices)
<1>1. TpTyped /\ TpBuilt(tpLinks, n)
  BY TopologyBuilt DEF TpInv
<1>2. /\ tpLinks \subseteq LldpLinks \cup FdbLinks /\ Forest(tpLinks)
      /\ OneEach(LldpLinks \cup FdbLinks) /\ \A a \in LldpLinks : a.source = "lldp"
      /\ LldpLinks \cup FdbLinks \subseteq TpLinkSet
  BY <1>1, LinksOneEach DEF TpBuilt
<1>3. \A a, b \in tpLinks : a.device = b.device => a = b
  BY <1>2 DEF OneEach
<1>4. \A a \in tpLinks, b \in LldpLinks : a.device = b.device => a.source = "lldp"
  BY <1>2 DEF OneEach
<1>5. ASSUME NEW a \in (LldpLinks \cup FdbLinks) \ tpLinks
      PROVE  ~ Forest(tpLinks \cup {a})
  <2>1. PICK i \in 1 .. n : a \in Turn(i)
    BY <1>1, TurnFacts
  <2>2. PICK some \in SUBSET tpLinks : Rings(some, a)
    BY <1>1, <1>5, <2>1 DEF TpBuilt
  <2>3. some \in SUBSET TpLinkSet /\ a \in TpLinkSet
    BY <1>2, <2>2
  <2> QED
    BY <2>2, <2>3, RingRings
<1> QED
  BY <1>2, <1>3, <1>4, <1>5 DEF TopologyForest

\* Of one reading one set of links is built.
LEMMA SameTopology ==
    ASSUME UNCHANGED <<tpLldp, tpFdb>>
    PROVE  BuildTopology' = BuildTopology
BY DEF BuildTopology, Turn, LldpLinks, FdbLinks, Announcements, Announced, Nearest, Sees, Crowd,
       Uplink

\* build_topology: for any devices, any announcements and any MAC seen on any port, in
\* contradiction or not, the links are a forest, LLDP wins over the FDB, and only what
\* would close a ring is left out.
THEOREM TopologyStaysForest == TpSpec => []TopologyForest
<1>1. TpInit => TpInv
  BY DEF TpInit, TpInv, TpTyped
<1>2. ASSUME TpInv, [TpNext]_tpVars PROVE TpInv'
  <2>1. CASE ReadTopology
    BY <2>1, TpNeighbours DEF ReadTopology, TpInv, TpTyped
  <2>2. CASE BuildLinks
    <3>1. UNCHANGED <<tpLldp, tpFdb>> /\ tpLinks' = BuildTopology
      BY <2>2 DEF BuildLinks
    <3>2. TpTyped'
      BY <1>2, <3>1 DEF TpInv, TpTyped
    <3> QED
      BY <3>1, <3>2, SameTopology DEF TpInv
  <2>3. CASE UNCHANGED tpVars
    <3>1. UNCHANGED <<tpLldp, tpFdb, tpAt, tpLinks>>
      BY <2>3 DEF tpVars
    <3>2. TpTyped'
      BY <1>2, <3>1 DEF TpInv, TpTyped
    <3> QED
      BY <1>2, <3>1, <3>2, SameTopology DEF TpInv
  <2> QED
    BY <1>2, <2>1, <2>2, <2>3 DEF TpNext
<1> QED
  BY <1>1, <1>2, TpInvForest, PTL DEF TpSpec

-----------------------------------------------------------------------------
(***************************************************************************)
(* HistorySeries.  The points that are given, and the averages made of     *)
(* them.  An average of some rows is made row by row.                      *)
(***************************************************************************)

\* The running total of the rows of some times, in their order.
Running(B, times, table) ==
    \A t \in 0 .. SrMaxTime + 1 :
        B[t] = IF t = 0 THEN Null
               ELSE IF t - 1 \in times
               THEN [sum |-> B[t - 1].sum + table[t - 1].v.sum,
                     n   |-> B[t - 1].n + table[t - 1].v.n]
               ELSE B[t - 1]

LEMMA AverageRuns ==
    ASSUME NEW times, NEW table
    PROVE  \E B : Running(B, times, table) /\ Average(times, table) = B[SrMaxTime + 1]
<1> DEFINE n == SrMaxTime + 1
           Up(c, t) == IF t - 1 \in times
                       THEN [sum |-> c.sum + table[t - 1].v.sum, n |-> c.n + table[t - 1].v.n]
                       ELSE c
           Runs(f, m) == f = [t \in 0 .. m |-> IF t = 0 THEN Null ELSE Up(f[t - 1], t)]
           claim(m) == \E f : Runs(f, m)
           wrong == {m \in 0 .. n : ~ claim(m)}
<1>0. n \in Nat
  BY SrNumbers
<1> HIDE DEF n
<1>1. claim(0)
  <2> DEFINE f == [t \in 0 .. 0 |-> Null]
  <2>1. Runs(f, 0)
    OBVIOUS
  <2> HIDE DEF f
  <2> QED
    BY <2>1, Zenon
<1>2. ASSUME NEW m \in 1 .. n, claim(m - 1)
      PROVE  claim(m)
  <2>1. PICK f : Runs(f, m - 1)
    BY <1>2
  <2> DEFINE g == [t \in 0 .. m |-> IF t = m THEN Up(f[m - 1], m) ELSE f[t]]
  <2>2. m - 1 \in 0 .. m - 1 /\ m \in 0 .. m /\ m # 0 /\ m \in Nat
    BY <1>0
  <2> HIDE DEF Up
  <2>3. \A t \in 0 .. m - 1 : f[t] = IF t = 0 THEN Null ELSE Up(f[t - 1], t)
    BY <2>1
  <2>4. ASSUME NEW t \in 0 .. m PROVE g[t] = IF t = 0 THEN Null ELSE Up(g[t - 1], t)
    <3>1. CASE t = m
      <4>1. m - 1 \in 0 .. m /\ m - 1 # m
        BY <2>2
      <4>2. g[m - 1] = f[m - 1] /\ g[m] = Up(f[m - 1], m)
        BY <2>2, <4>1
      <4> QED
        BY <2>2, <3>1, <4>2
    <3>2. CASE t # m
      <4>1. t \in 0 .. m - 1 /\ (t # 0 => t - 1 \in 0 .. m /\ t - 1 # m)
        BY <2>2, <3>2
      <4>2. g[t] = f[t] /\ (t # 0 => g[t - 1] = f[t - 1])
        BY <3>2, <4>1
      <4> QED
        BY <2>3, <4>1, <4>2
    <3> QED
      BY <3>1, <3>2
  <2>5. Runs(g, m)
    <3>1. g = [t \in 0 .. m |-> g[t]]
      OBVIOUS
    <3> HIDE DEF g
    <3> QED
      BY <2>4, <3>1
  <2> HIDE DEF g
  <2> QED
    BY <2>5
<1> HIDE DEF claim
<1>3. wrong = {}
  <2> SUFFICES ASSUME wrong # {} PROVE FALSE
    OBVIOUS
  <2>1. wrong \subseteq Nat
    BY <1>0
  <2>2. PICK m \in wrong : \A x \in wrong : m <= x
    BY <2>1, MinExists
  <2>3. m \in 1 .. n /\ m - 1 \in 0 .. n /\ m - 1 \notin wrong
    BY <1>0, <1>1, <2>2
  <2> QED
    BY <1>2, <2>2, <2>3
<1>4. claim(n)
  BY <1>0, <1>3
<1>5. PICK f : Runs(f, n)
  BY <1>4 DEF claim
<1> DEFINE B == CHOOSE F : F = [t \in 0 .. n |->
                    IF t = 0 THEN Null
                    ELSE IF t - 1 \in times
                    THEN [sum |-> F[t - 1].sum + table[t - 1].v.sum,
                          n   |-> F[t - 1].n + table[t - 1].v.n]
                    ELSE F[t - 1]]
<1>6. Average(times, table) = B[n]
  BY Zenon DEF Average, n
<1>7. Runs(B, n)
  BY <1>5, Zenon
<1> HIDE DEF B
<1>8. \A t \in 0 .. n : B[t] = IF t = 0 THEN Null ELSE Up(B[t - 1], t)
  <2> HIDE DEF Up
  <2> QED
    BY <1>7
<1>9. Running(B, times, table)
  BY <1>8 DEF Running, n
<1> QED
  BY <1>6, <1>9 DEF n
\* An average counts what its rows count, and is NULL when they all are.
LEMMA AverageCounts ==
    ASSUME NEW times \in SUBSET (0 .. SrMaxTime), NEW table,
           \A t \in times : table[t].v \in Cell
    PROVE  /\ Average(times, table) \in Cell
           /\ Average(times, table).n > 0 <=> \E t \in times : table[t].v.n > 0
<1> DEFINE n == SrMaxTime + 1
           counted(m) == \E t \in times : t < m /\ table[t].v.n > 0
<1>0. n \in Nat /\ \A t \in times : t \in Nat /\ t < n
  BY SrNumbers
<1>1. PICK B : Running(B, times, table) /\ Average(times, table) = B[n]
  BY AverageRuns
<1> DEFINE good(m) == B[m] \in Cell /\ (B[m].n > 0 <=> counted(m))
           wrong == {m \in 0 .. n : ~ good(m)}
<1>2. wrong = {}
  <2> SUFFICES ASSUME wrong # {} PROVE FALSE
    OBVIOUS
  <2>1. PICK m \in wrong : \A x \in wrong : m <= x
    <3>1. wrong \subseteq Nat
      BY <1>0
    <3> QED
      BY <3>1, MinExists
  <2>2. m \in 0 .. n /\ ~ good(m)
    BY <2>1
  <2>3. m # 0
    <3>1. 0 \in 0 .. n /\ ~ counted(0)
      BY <1>0
    <3>2. B[0] = Null
      BY <1>1, <3>1 DEF Running
    <3>3. B[0].n = 0 /\ B[0] \in Cell
      BY <3>2 DEF Null, Cell
    <3>4. good(0)
      BY <3>1, <3>3
    <3> QED
      BY <2>2, <3>4
  <2>4. m - 1 \in 0 .. n /\ m - 1 < m
    BY <1>0, <2>2, <2>3
  <2>5. good(m - 1)
    BY <2>1, <2>4
  <2>6. B[m] = IF m - 1 \in times
               THEN [sum |-> B[m - 1].sum + table[m - 1].v.sum,
                     n   |-> B[m - 1].n + table[m - 1].v.n]
               ELSE B[m - 1]
    BY <1>1, <2>2, <2>3 DEF Running
  <2>7. B[m - 1].sum \in Nat /\ B[m - 1].n \in Nat
    BY <2>5 DEF Cell
  <2>8. CASE m - 1 \in times
    <3>1. table[m - 1].v.sum \in Nat /\ table[m - 1].v.n \in Nat
      BY <2>8 DEF Cell
    <3>2. B[m] \in Cell /\ B[m].n = B[m - 1].n + table[m - 1].v.n
      BY <2>6, <2>7, <2>8, <3>1 DEF Cell
    <3>3. counted(m) <=> counted(m - 1) \/ table[m - 1].v.n > 0
      <4>1. \A t \in times : t < m <=> t < m - 1 \/ t = m - 1
        BY <1>0, <2>2
      <4> QED
        BY <2>4, <2>8, <4>1
    <3>4. B[m].n > 0 <=> B[m - 1].n > 0 \/ table[m - 1].v.n > 0
      BY <2>7, <3>1, <3>2
    <3>5. B[m - 1].n > 0 <=> counted(m - 1)
      BY <2>5
    <3> HIDE DEF counted
    <3> QED
      BY <2>2, <3>2, <3>3, <3>4, <3>5
  <2>9. CASE m - 1 \notin times
    <3>1. counted(m) <=> counted(m - 1)
      <4>1. \A t \in times : t < m <=> t < m - 1
        BY <1>0, <2>2, <2>9
      <4> QED
        BY <4>1
    <3> QED
      BY <2>2, <2>5, <2>6, <2>9, <3>1
  <2> QED
    BY <2>8, <2>9
<1>3. good(n)
  <2>1. n \in 0 .. n
    BY <1>0
  <2> QED
    BY <1>2, <2>1
<1>4. counted(n) <=> \E t \in times : table[t].v.n > 0
  BY <1>0
<1> QED
  BY <1>1, <1>3, <1>4

\* An average is of the values of its times, whatever else the tables hold.
LEMMA AverageSame ==
    ASSUME NEW times, NEW one, NEW two, \A t \in times : one[t].v = two[t].v
    PROVE  Average(times, one) = Average(times, two)
<1> DEFINE n == SrMaxTime + 1
<1>0. n \in Nat
  BY SrNumbers
<1>1. PICK B : Running(B, times, one) /\ Average(times, one) = B[n]
  BY AverageRuns
<1>2. PICK C : Running(C, times, two) /\ Average(times, two) = C[n]
  BY AverageRuns
<1> DEFINE wrong == {m \in 0 .. n : B[m] # C[m]}
<1>3. wrong = {}
  <2> SUFFICES ASSUME wrong # {} PROVE FALSE
    OBVIOUS
  <2>1. PICK m \in wrong : \A x \in wrong : m <= x
    <3>1. wrong \subseteq Nat
      BY <1>0
    <3> QED
      BY <3>1, MinExists
  <2>2. m \in 0 .. n /\ B[m] # C[m]
    BY <2>1
  <2>3. m # 0
    BY <1>1, <1>2, <2>2 DEF Running
  <2>4. m - 1 \in 0 .. n /\ m - 1 < m
    BY <1>0, <2>2, <2>3
  <2>5. B[m - 1] = C[m - 1]
    BY <2>1, <2>4
  <2>6. B[m] = IF m - 1 \in times
               THEN [sum |-> B[m - 1].sum + one[m - 1].v.sum,
                     n   |-> B[m - 1].n + one[m - 1].v.n]
               ELSE B[m - 1]
    BY <1>1, <2>2, <2>3 DEF Running
  <2>7. C[m] = IF m - 1 \in times
               THEN [sum |-> C[m - 1].sum + two[m - 1].v.sum,
                     n   |-> C[m - 1].n + two[m - 1].v.n]
               ELSE C[m - 1]
    BY <1>2, <2>2, <2>3 DEF Running
  <2> QED
    BY <2>2, <2>5, <2>6, <2>7
<1>4. n \in 0 .. n
  BY <1>0
<1> QED
  BY <1>1, <1>2, <1>3, <1>4

\* A bucket starts at a multiple of its width, and holds its points.
LEMMA BucketHolds ==
    ASSUME NEW w \in Nat \ {0}, NEW t \in Int
    PROVE  /\ t \div w \in Int /\ BucketOf(t, w) = (t \div w) * w
           /\ BucketOf(t, w) \in Int /\ BucketOf(t, w) <= t /\ t < BucketOf(t, w) + w
           /\ t >= 0 => BucketOf(t, w) >= 0
<1> DEFINE q == t \div w
<1>1. q \in Int /\ q * w <= t /\ t < q * w + w /\ q * w \in Int
  OBVIOUS
<1>2. t >= 0 => q * w >= 0
  <2>1. t >= 0 => q >= 0
    OBVIOUS
  <2> HIDE DEF q
  <2>2. q >= 0 => q * w >= 0
    BY <1>1
  <2> QED
    BY <2>1, <2>2
<1> QED
  BY <1>1, <1>2 DEF BucketOf

LEMMA TimesLess ==
    ASSUME NEW w \in Nat \ {0}, NEW a \in Int, NEW b \in Int, a * w < b * w + w
    PROVE  a <= b
<1> SUFFICES ASSUME b + 1 <= a PROVE FALSE
  OBVIOUS
<1>1. a = b + 1 + (a - b - 1) /\ a - b - 1 \in Nat
  OBVIOUS
<1>2. a * w = b * w + w + (a - b - 1) * w /\ (a - b - 1) * w \in Nat
  BY <1>1
<1>3. a * w \in Int /\ b * w \in Int
  OBVIOUS
<1> QED
  BY <1>2, <1>3

\* The buckets follow one another as their points do.
LEMMA BucketsInOrder ==
    ASSUME NEW w \in Nat \ {0}, NEW s \in Int, NEW t \in Int, s <= t
    PROVE  /\ s \div w <= t \div w
           /\ BucketOf(s, w) <= BucketOf(t, w)
<1> DEFINE p == s \div w
           q == t \div w
<1>1. /\ p \in Int /\ q \in Int /\ p * w \in Int /\ q * w \in Int
      /\ BucketOf(s, w) = p * w /\ BucketOf(t, w) = q * w
  <2>1. /\ p \in Int /\ BucketOf(s, w) = p * w /\ BucketOf(s, w) \in Int
    BY BucketHolds
  <2>2. /\ q \in Int /\ BucketOf(t, w) = q * w /\ BucketOf(t, w) \in Int
    BY BucketHolds
  <2> HIDE DEF p, q
  <2> QED
    BY <2>1, <2>2
<1>2. p * w <= s /\ t < q * w + w
  BY <1>1, BucketHolds
<1> HIDE DEF p, q
<1>3. p * w < q * w + w
  BY <1>1, <1>2
<1>4. p <= q
  BY <1>1, <1>3, TimesLess
<1>5. p * w <= q * w
  <2>1. q = p + (q - p) /\ q - p \in Nat
    BY <1>1, <1>4
  <2>2. q * w = p * w + (q - p) * w /\ (q - p) * w \in Nat
    BY <1>1, <2>1
  <2> QED
    BY <1>1, <2>2
<1> QED
  BY <1>1, <1>4, <1>5 DEF p, q

\* The start of a bucket is in it.
LEMMA BucketOfBucket ==
    ASSUME NEW w \in Nat \ {0}, NEW t \in Int
    PROVE  BucketOf(BucketOf(t, w), w) = BucketOf(t, w)
<1> DEFINE b == BucketOf(t, w)
           p == t \div w
           q == b \div w
<1>1. /\ p \in Int /\ b = p * w /\ b \in Int /\ b <= t
  BY BucketHolds
<1> HIDE DEF b
<1>2. /\ q \in Int /\ BucketOf(b, w) = q * w /\ b < q * w + w
  BY <1>1, BucketHolds
<1>3. q <= p
  BY <1>1, BucketsInOrder
<1> HIDE DEF p, q
<1>4. p <= q
  BY <1>1, <1>2, TimesLess
<1>5. p = q
  BY <1>1, <1>2, <1>3, <1>4
<1> QED
  BY <1>1, <1>2, <1>5 DEF b

\* The rows are where the clock has been; a point is found old when the threshold of a
\* compaction has passed it; and an average is of the past, so that no new point falls
\* on it.
Typed ==
    /\ srNow \in 0 .. SrMaxTime
    /\ srCompacted \in -1 .. srNow
    /\ DOMAIN srRows \subseteq 0 .. srNow
    /\ DOMAIN srGiven \subseteq 0 .. srNow
    /\ \A t \in DOMAIN srRows : srRows[t].v \in Cell /\ srRows[t].span \in {0, SrBucket}
    /\ \A t \in DOMAIN srGiven : srGiven[t] \in Cell

FoundOld ==
    /\ DOMAIN srFound = {t \in DOMAIN srGiven : t < srCompacted - SrFull}
    /\ \A t \in DOMAIN srFound : srFound[t] \in 0 .. srCompacted

OldAverages == \A t \in DOMAIN srRows : srRows[t].span # 0 => t < srNow

SrInv == Typed /\ FoundOld /\ OldAverages /\ PointsAccounted

LEMMA SrInitInv == SrInit => SrInv
<1> SUFFICES ASSUME SrInit PROVE SrInv
  OBVIOUS
<1>1. DOMAIN srRows = {} /\ DOMAIN srGiven = {} /\ DOMAIN srFound = {}
  BY DEF SrInit
<1> QED
  BY <1>1, SrNumbers DEF SrInit, SrInv, Typed, FoundOld, OldAverages, PointsAccounted,
                        PointsStay, BucketsStand, RowsExact

\* A point that is added, by either of the two.
LEMMA AddFacts ==
    ASSUME SrInv, NEW v, AddTraffic(v) \/ AddHostPoint(v)
    PROVE  /\ UNCHANGED <<srNow, srCompacted, srFound>>
           /\ DOMAIN srRows' = DOMAIN srRows \cup {srNow}
           /\ DOMAIN srGiven' = DOMAIN srGiven \cup {srNow}
           /\ srRows'[srNow] = [v |-> v, span |-> 0] /\ srGiven'[srNow] = v
           /\ \A t \in DOMAIN srRows : t # srNow => srRows'[t] = srRows[t]
           /\ \A t \in DOMAIN srGiven : srGiven'[t] = srGiven[t]
<1>1. CASE AddTraffic(v)
  BY <1>1 DEF AddTraffic, Put, Missing
<1>2. CASE AddHostPoint(v)
  <2>1. /\ UNCHANGED <<srNow, srCompacted, srFound>>
        /\ srNow \in DOMAIN srGiven => srGiven[srNow] = v
        /\ srGiven' = Put(srGiven, srNow, v)
    BY <1>2 DEF AddHostPoint
  <2>2. CASE srNow \in DOMAIN srRows
    <3>1. srRows' = srRows
      BY <1>2, <2>2 DEF AddHostPoint
    <3>2. srRows[srNow].span = 0
      BY <2>2 DEF SrInv, OldAverages, Typed
    <3>3. srNow \in DOMAIN srGiven /\ srRows[srNow] = [v |-> v, span |-> 0]
      BY <2>1, <2>2, <3>2 DEF SrInv, PointsAccounted, RowsExact, AsGiven
    <3> QED
      BY <2>1, <2>2, <3>1, <3>3 DEF Put
  <2>3. CASE srNow \notin DOMAIN srRows
    <3>1. srRows' = Put(srRows, srNow, [v |-> v, span |-> 0])
      BY <1>2, <2>3 DEF AddHostPoint
    <3> QED
      BY <2>1, <2>3, <3>1 DEF Put
  <2> QED
    BY <2>2, <2>3
<1> QED
  BY <1>1, <1>2

LEMMA AddKeeps ==
    ASSUME SrInv, NEW v \in {Sample(x) : x \in SrValues} \cup {Null},
           AddTraffic(v) \/ AddHostPoint(v)
    PROVE  SrInv'
<1>1. /\ srNow' = srNow /\ srCompacted' = srCompacted /\ srFound' = srFound
      /\ DOMAIN srRows' = DOMAIN srRows \cup {srNow}
      /\ DOMAIN srGiven' = DOMAIN srGiven \cup {srNow}
      /\ srRows'[srNow] = [v |-> v, span |-> 0] /\ srGiven'[srNow] = v
      /\ \A t \in DOMAIN srRows : t # srNow => srRows'[t] = srRows[t]
      /\ \A t \in DOMAIN srGiven : srGiven'[t] = srGiven[t]
  BY AddFacts
<1>2. v \in Cell
  BY SrNumbers DEF Cell, Null, Sample
<1>3. /\ srNow \in Nat /\ SrBucket \in Nat \ {0} /\ SrFull \in Nat \ {0}
      /\ srCompacted \in -1 .. srNow
  BY SrLengths DEF SrInv, Typed
<1>4. Typed'
  BY <1>1, <1>2, <1>3 DEF SrInv, Typed
<1>5. FoundOld' /\ srNow \notin DOMAIN srFound /\ DOMAIN srFound \subseteq DOMAIN srGiven
  BY <1>1, <1>3 DEF SrInv, Typed, FoundOld
<1>6. OldAverages'
  BY <1>1, <1>2 DEF SrInv, OldAverages
<1>7. ASSUME NEW t \in DOMAIN srRows, srRows[t].span # 0
      PROVE  t # srNow /\ srRows'[t] = srRows[t]
  BY <1>1, <1>3, <1>7 DEF SrInv, OldAverages, Typed
<1>8. Deadline' = Deadline /\ \A b : FoundIn(b)' = FoundIn(b) /\ FoundLast(b)' = FoundLast(b)
  BY <1>1 DEF Deadline, FoundIn, FoundLast
<1>9. \A t \in DOMAIN srGiven : AsGiven'[t] = AsGiven[t]
  BY <1>1 DEF AsGiven
<1>10. AsGiven'[srNow] = [v |-> v, span |-> 0]
  BY <1>1 DEF AsGiven
<1>11. PointsStay'
  BY <1>1, <1>8, <1>9, <1>10 DEF SrInv, PointsAccounted, PointsStay
<1>12. BucketsStand'
  <2> SUFFICES ASSUME NEW t \in DOMAIN srFound, BucketOf(t, SrBucket) >= Deadline
               PROVE  /\ BucketOf(t, SrBucket) \in DOMAIN srRows'
                      /\ srRows'[BucketOf(t, SrBucket)].span = SrBucket
    BY <1>1, <1>8 DEF BucketsStand
  <2>1. /\ BucketOf(t, SrBucket) \in DOMAIN srRows
        /\ srRows[BucketOf(t, SrBucket)].span = SrBucket
    BY DEF SrInv, PointsAccounted, BucketsStand
  <2> QED
    BY <1>1, <1>3, <1>7, <2>1
<1>13. RowsExact'
  <2>1. ASSUME NEW t \in DOMAIN srRows', srRows'[t].span = 0
        PROVE  t \in DOMAIN srGiven' \ DOMAIN srFound' /\ srRows'[t] = AsGiven'[t]
    BY <1>1, <1>5, <1>9, <1>10, <2>1 DEF SrInv, PointsAccounted, RowsExact
  <2>2. ASSUME NEW t \in DOMAIN srRows', srRows'[t].span # 0
        PROVE  FoundLast(t)' # {} /\ srRows'[t].v = Average(FoundLast(t)', AsGiven')
    <3>1. t \in DOMAIN srRows /\ srRows'[t] = srRows[t]
      BY <1>1, <2>2
    <3>2. FoundLast(t) # {} /\ srRows[t].v = Average(FoundLast(t), AsGiven)
      BY <2>2, <3>1 DEF SrInv, PointsAccounted, RowsExact
    <3>3. \A u \in FoundLast(t) : AsGiven[u].v = AsGiven'[u].v
      BY <1>5, <1>9 DEF FoundLast, FoundIn
    <3>4. Average(FoundLast(t), AsGiven) = Average(FoundLast(t), AsGiven')
      BY <3>3, AverageSame
    <3> QED
      BY <1>8, <3>1, <3>2, <3>4
  <2> QED
    BY <2>1, <2>2 DEF RowsExact
<1> QED
  BY <1>4, <1>5, <1>6, <1>11, <1>12, <1>13 DEF SrInv, PointsAccounted

\* What a compaction leaves: the rows that have not expired, the averages of the old
\* points, and no old point.
LEMMA CompactionFacts ==
    ASSUME SrInv, CompactSeries
    PROVE  LET threshold == srNow - SrFull
               deadline == srNow - SrRetain
               old == RawBefore(srRows, threshold)
               starts == {BucketOf(t, SrBucket) : t \in old} IN
           /\ \A t \in DOMAIN srRows' :
                 /\ t >= deadline
                 /\ t \in starts =>
                       srRows'[t] = [v    |-> Average({u \in old : BucketOf(u, SrBucket) = t}, srRows),
                                     span |-> SrBucket]
                 /\ t \notin starts => t \in DOMAIN srRows /\ srRows'[t] = srRows[t]
                 /\ srRows'[t].span = 0 => t >= threshold
           /\ \A t \in starts : t >= deadline => t \in DOMAIN srRows'
           /\ \A t \in DOMAIN srRows \ starts :
                 t >= deadline /\ (srRows[t].span # 0 \/ t >= threshold) => t \in DOMAIN srRows'
<1> DEFINE threshold == srNow - SrFull
           deadline == srNow - SrRetain
           old == RawBefore(srRows, threshold)
           starts == {BucketOf(t, SrBucket) : t \in old}
           Made(b) == [v    |-> Average({u \in old : BucketOf(u, SrBucket) = b}, srRows),
                       span |-> SrBucket]
           all == [t \in DOMAIN srRows \cup starts |->
                      IF t \in starts THEN Made(t) ELSE srRows[t]]
           kept == {t \in DOMAIN all : ~ (all[t].span = 0 /\ t < threshold)}
<1>1. Aggregate(srRows, threshold) = Restrict(all, kept)
  BY DEF Aggregate
<1>2. srRows' = Expire(Restrict(all, kept), deadline)
  BY <1>1 DEF CompactSeries
<1>3. /\ threshold \in Int /\ deadline \in Int /\ SrBucket # 0
      /\ DOMAIN srRows \subseteq Int /\ starts \subseteq Int
  <2>1. threshold \in Int /\ deadline \in Int /\ SrBucket \in Nat \ {0} /\ DOMAIN srRows \subseteq Int
    BY SrLengths DEF SrInv, Typed
  <2>2. old \subseteq Int
    BY <2>1 DEF RawBefore
  <2>3. \A t \in Int : BucketOf(t, SrBucket) \in Int
    BY <2>1, BucketHolds
  <2> QED
    BY <2>1, <2>2, <2>3
<1> HIDE DEF threshold, deadline, old, starts
<1>4. DOMAIN all = DOMAIN srRows \cup starts
  OBVIOUS
<1>5. \A t \in starts : all[t] = Made(t) /\ Made(t).span = SrBucket
  OBVIOUS
<1>6. \A t \in DOMAIN srRows \ starts : all[t] = srRows[t]
  OBVIOUS
<1> HIDE DEF all
<1>7. \A t \in starts : all[t].span # 0
  BY <1>3, <1>5
<1> HIDE DEF Made
<1>8. /\ DOMAIN srRows' = {t \in kept : t >= deadline}
      /\ \A t \in DOMAIN srRows' : srRows'[t] = all[t]
  BY <1>2 DEF Expire, Restrict
<1>9. \A t \in DOMAIN srRows' :
         /\ t >= deadline
         /\ t \in starts => srRows'[t] = Made(t)
         /\ t \notin starts => t \in DOMAIN srRows /\ srRows'[t] = srRows[t]
         /\ srRows'[t].span = 0 => t >= threshold
  <2> SUFFICES ASSUME NEW t \in DOMAIN srRows'
               PROVE  /\ t >= deadline
                      /\ t \in starts => srRows'[t] = Made(t)
                      /\ t \notin starts => t \in DOMAIN srRows /\ srRows'[t] = srRows[t]
                      /\ srRows'[t].span = 0 => t >= threshold
    OBVIOUS
  <2>1. t \in kept /\ t >= deadline /\ srRows'[t] = all[t]
    BY <1>8
  <2>2. t \in DOMAIN all /\ ~ (all[t].span = 0 /\ t < threshold)
    BY <2>1
  <2>3. t \in Int
    BY <1>3, <1>4, <2>2
  <2>4. t \in starts => srRows'[t] = Made(t)
    BY <1>5, <2>1
  <2>5. t \notin starts => t \in DOMAIN srRows /\ srRows'[t] = srRows[t]
    BY <1>4, <1>6, <2>1, <2>2
  <2> QED
    BY <1>3, <2>1, <2>2, <2>3, <2>4, <2>5
<1>10. \A t \in starts : t >= deadline => t \in DOMAIN srRows'
  BY <1>4, <1>7, <1>8
<1>11. \A t \in DOMAIN srRows \ starts :
          t >= deadline /\ (srRows[t].span # 0 \/ t >= threshold) => t \in DOMAIN srRows'
  BY <1>3, <1>4, <1>6, <1>8
<1> QED
  BY <1>9, <1>10, <1>11 DEF threshold, deadline, old, starts, Made

LEMMA CompactionKeeps ==
    ASSUME SrInv, CompactSeries
    PROVE  SrInv'
<1> DEFINE threshold == srNow - SrFull
           deadline == srNow - SrRetain
           old == RawBefore(srRows, threshold)
           starts == {BucketOf(t, SrBucket) : t \in old}
           Of(b) == {u \in old : BucketOf(u, SrBucket) = b}
<1>1. /\ \A t \in DOMAIN srRows' :
            /\ t >= deadline
            /\ t \in starts => srRows'[t] = [v |-> Average(Of(t), srRows), span |-> SrBucket]
            /\ t \notin starts => t \in DOMAIN srRows /\ srRows'[t] = srRows[t]
            /\ srRows'[t].span = 0 => t >= threshold
      /\ \A t \in starts : t >= deadline => t \in DOMAIN srRows'
      /\ \A t \in DOMAIN srRows \ starts :
            t >= deadline /\ (srRows[t].span # 0 \/ t >= threshold) => t \in DOMAIN srRows'
  BY CompactionFacts, Zenon
<1>2. /\ srNow' = srNow /\ srCompacted' = srNow /\ srGiven' = srGiven
      /\ srNow \in Nat /\ srNow <= SrMaxTime /\ srCompacted \in -1 .. srNow
      /\ threshold \in Int /\ threshold < srNow /\ deadline \in Int /\ deadline < srNow
      /\ SrBucket \in Nat \ {0} /\ SrMaxTime \in Nat /\ SrRetain \in Nat \ {0}
      /\ SrFull \in Nat \ {0}
  BY SrLengths, SrNumbers DEF CompactSeries, SrInv, Typed
<1>3. /\ DOMAIN srRows \subseteq 0 .. srNow /\ DOMAIN srGiven \subseteq 0 .. srNow
      /\ \A t \in DOMAIN srRows : srRows[t].v \in Cell /\ srRows[t].span \in {0, SrBucket}
      /\ \A t \in DOMAIN srGiven : srGiven[t] \in Cell
  BY DEF SrInv, Typed
<1>4. ASSUME NEW u \in old
      PROVE  /\ u \in DOMAIN srRows /\ u \in Nat /\ u < threshold /\ u < srNow
             /\ u \in DOMAIN srGiven \ DOMAIN srFound /\ srRows[u] = AsGiven[u]
             /\ BucketOf(u, SrBucket) \in Nat /\ BucketOf(u, SrBucket) <= u
  <2>1. u \in DOMAIN srRows /\ srRows[u].span = 0 /\ u < threshold
    BY DEF RawBefore
  <2>2. u \in Nat /\ u < srNow
    BY <1>2, <1>3, <2>1
  <2>3. u \in DOMAIN srGiven \ DOMAIN srFound /\ srRows[u] = AsGiven[u]
    BY <2>1 DEF SrInv, PointsAccounted, RowsExact
  <2>4. BucketOf(u, SrBucket) \in Nat /\ BucketOf(u, SrBucket) <= u
    BY <1>2, <2>2, BucketHolds
  <2> QED
    BY <2>1, <2>2, <2>3, <2>4
<1>5. ASSUME NEW b \in starts
      PROVE  b \in Nat /\ b < threshold /\ b < srNow
  <2>1. PICK u \in old : b = BucketOf(u, SrBucket)
    OBVIOUS
  <2>2. u \in Nat /\ u < threshold /\ b \in Nat /\ b <= u
    BY <1>4, <2>1
  <2> HIDE DEF threshold, starts, old
  <2> QED
    BY <1>2, <2>2
<1>6. ASSUME NEW b \in starts
      PROVE  /\ Of(b) \in SUBSET (0 .. SrMaxTime) /\ \A u \in Of(b) : srRows[u].v \in Cell
             /\ Average(Of(b), srRows) \in Cell
  <2>1. Of(b) \in SUBSET (0 .. SrMaxTime)
    <3>1. \A u \in old : u \in 0 .. SrMaxTime
      <4> SUFFICES ASSUME NEW u \in old PROVE u \in 0 .. SrMaxTime
        OBVIOUS
      <4>1. u \in Nat /\ u < srNow
        BY <1>4
      <4> QED
        BY <1>2, <4>1
    <3> QED
      BY <3>1
  <2>2. \A u \in Of(b) : srRows[u].v \in Cell
    BY <1>3, <1>4
  <2> HIDE DEF Of
  <2> QED
    BY <2>1, <2>2, AverageCounts
<1>7. /\ DOMAIN srFound = {t \in DOMAIN srGiven : t < srCompacted - SrFull}
      /\ \A t \in DOMAIN srFound : srFound[t] \in 0 .. srCompacted
      /\ DOMAIN srFound' = {t \in DOMAIN srGiven : t < threshold}
      /\ \A t \in DOMAIN srFound' :
            srFound'[t] = IF t \in DOMAIN srFound THEN srFound[t] ELSE srNow
  BY DEF SrInv, FoundOld, CompactSeries
<1>8. DOMAIN srFound \subseteq DOMAIN srFound'
  BY <1>2, <1>3, <1>7
\* A point that is found old now, and has not expired, is one of the rows.
<1>9. ASSUME NEW t \in DOMAIN srFound' \ DOMAIN srFound, t >= deadline
      PROVE  t \in old /\ t \in DOMAIN srRows /\ srRows[t] = AsGiven[t] /\ srCompacted < srNow
  <2>1. t \in DOMAIN srGiven /\ t < threshold /\ t \in Nat
    BY <1>3, <1>7
  <2>2. t >= Deadline
    BY <1>2, <1>9, <2>1 DEF Deadline
  <2>3. t \in DOMAIN srRows /\ srRows[t] = AsGiven[t]
    BY <1>9, <2>1, <2>2 DEF SrInv, PointsAccounted, PointsStay
  <2>4. srRows[t].span = 0
    BY <2>1, <2>3 DEF AsGiven
  <2>5. srCompacted < srNow
    <3>1. ~ (t < srCompacted - SrFull)
      BY <1>7, <1>9, <2>1
    <3> QED
      BY <1>2, <2>1, <3>1
  <2> QED
    BY <2>1, <2>3, <2>4, <2>5 DEF RawBefore
<1> HIDE DEF threshold, deadline, starts, old
<1>10. Typed'
  <2>1. DOMAIN srRows' \subseteq 0 .. srNow
    <3> SUFFICES ASSUME NEW t \in DOMAIN srRows' PROVE t \in 0 .. srNow
      OBVIOUS
    <3>1. t \in starts => t \in 0 .. srNow
      BY <1>2, <1>5
    <3> QED
      BY <1>1, <1>3, <3>1
  <2>2. ASSUME NEW t \in DOMAIN srRows'
        PROVE  srRows'[t].v \in Cell /\ srRows'[t].span \in {0, SrBucket}
    <3> HIDE DEF Of
    <3> QED
      BY <1>1, <1>3, <1>6
  <2>3. srCompacted' \in -1 .. srNow
    BY <1>2
  <2> QED
    BY <1>2, <2>1, <2>2, <2>3 DEF SrInv, Typed
<1>11. FoundOld'
  <2>1. DOMAIN srFound' = {t \in DOMAIN srGiven' : t < srCompacted' - SrFull}
    BY <1>2, <1>7 DEF threshold
  <2>2. \A t \in DOMAIN srFound' : srFound'[t] \in 0 .. srCompacted'
    BY <1>2, <1>7
  <2> QED
    BY <2>1, <2>2 DEF FoundOld
<1>12. ASSUME NEW t \in DOMAIN srRows', srRows'[t].span = 0
       PROVE  t \in DOMAIN srRows /\ srRows[t].span = 0 /\ srRows'[t] = srRows[t] /\ t >= threshold
  <2>1. t \notin starts
    <3>1. t \in starts => srRows'[t].span = SrBucket
      <4> HIDE DEF Of
      <4> QED
        BY <1>1
    <3> QED
      BY <1>2, <1>12, <3>1
  <2> QED
    BY <1>1, <1>12, <2>1
<1>13. OldAverages'
  BY <1>1, <1>2, <1>5 DEF SrInv, OldAverages
<1>14. Deadline' = deadline /\ AsGiven' = AsGiven
  BY <1>2 DEF Deadline, deadline, AsGiven
<1>15. \A t \in Int : t >= deadline => t >= Deadline \/ t < 0
  BY <1>2 DEF Deadline, deadline
<1>16. PointsStay'
  <2> SUFFICES ASSUME NEW t \in DOMAIN srGiven, t \notin DOMAIN srFound', t >= deadline
               PROVE  t \in DOMAIN srRows' /\ srRows'[t] = AsGiven[t]
    BY <1>2, <1>14 DEF PointsStay
  <2>1. t \in Nat /\ t >= threshold /\ t \notin DOMAIN srFound
    BY <1>2, <1>3, <1>7, <1>8
  <2>2. t \in DOMAIN srRows /\ srRows[t] = AsGiven[t]
    BY <1>15, <2>1 DEF SrInv, PointsAccounted, PointsStay
  <2>3. t \notin starts
    BY <1>2, <1>5, <2>1
  <2>4. t \in DOMAIN srRows'
    BY <1>1, <2>1, <2>2, <2>3
  <2>5. srRows'[t] = srRows[t]
    BY <1>1, <2>3, <2>4
  <2> QED
    BY <2>2, <2>4, <2>5
<1>17. BucketsStand'
  <2> SUFFICES ASSUME NEW t \in DOMAIN srFound', BucketOf(t, SrBucket) >= deadline
               PROVE  /\ BucketOf(t, SrBucket) \in DOMAIN srRows'
                      /\ srRows'[BucketOf(t, SrBucket)].span = SrBucket
    BY <1>14 DEF BucketsStand
  <2> DEFINE b == BucketOf(t, SrBucket)
  <2>1. t \in Nat /\ b \in Nat /\ b <= t
    <3>1. t \in Nat
      BY <1>2, <1>3, <1>7
    <3> QED
      BY <1>2, <3>1, BucketHolds
  <2>2. b >= deadline
    OBVIOUS
  <2>3. b \in starts => b \in DOMAIN srRows' /\ srRows'[b].span = SrBucket
    <3> HIDE DEF Of, b
    <3> QED
      BY <1>1, <2>2
  <2>4. CASE t \in DOMAIN srFound
    <3>1. b \in DOMAIN srRows /\ srRows[b].span = SrBucket
      <4>1. b >= Deadline
        BY <1>15, <2>1, <2>2
      <4> QED
        BY <2>4, <4>1 DEF SrInv, PointsAccounted, BucketsStand
    <3> HIDE DEF b
    <3>2. b \notin starts => b \in DOMAIN srRows' /\ srRows'[b] = srRows[b]
      BY <1>1, <1>2, <2>2, <3>1
    <3> QED
      BY <2>3, <3>1, <3>2 DEF b
  <2>5. CASE t \notin DOMAIN srFound
    <3>1. t >= deadline
      <4> HIDE DEF b
      <4> QED
        BY <1>2, <2>1, <2>2
    <3>2. b \in starts
      BY <1>9, <2>5, <3>1 DEF starts
    <3> QED
      BY <2>3, <3>2
  <2> QED
    BY <2>4, <2>5
<1>18. RowsExact'
  <2>1. ASSUME NEW t \in DOMAIN srRows', srRows'[t].span = 0
        PROVE  t \in DOMAIN srGiven' \ DOMAIN srFound' /\ srRows'[t] = AsGiven'[t]
    <3>1. t \in DOMAIN srRows /\ srRows[t].span = 0 /\ srRows'[t] = srRows[t] /\ t >= threshold
      BY <1>12, <2>1
    <3>2. t \in DOMAIN srGiven /\ srRows[t] = AsGiven[t] /\ t \in Int
      BY <1>3, <3>1 DEF SrInv, PointsAccounted, RowsExact
    <3> QED
      BY <1>2, <1>7, <1>14, <3>1, <3>2
  <2>2. ASSUME NEW b \in DOMAIN srRows', srRows'[b].span # 0
        PROVE  FoundLast(b)' # {} /\ srRows'[b].v = Average(FoundLast(b)', AsGiven')
    <3>1. ASSUME NEW t \in FoundIn(b)'
          PROVE  /\ t \in DOMAIN srFound' /\ BucketOf(t, SrBucket) = b
                 /\ t \in Nat /\ t >= deadline
      <4>1. t \in DOMAIN srFound' /\ BucketOf(t, SrBucket) = b
        BY DEF FoundIn
      <4>2. t \in Nat
        BY <1>2, <1>3, <1>7, <4>1
      <4>3. b \in Int /\ b <= t
        BY <1>2, <4>1, <4>2, BucketHolds
      <4>4. b >= deadline
        BY <1>1
      <4> QED
        BY <1>2, <4>1, <4>2, <4>3, <4>4
    <3>2. CASE b \notin starts
      <4>1. b \in DOMAIN srRows /\ srRows'[b] = srRows[b]
        BY <1>1, <3>2
      <4>2. FoundLast(b) # {} /\ srRows[b].v = Average(FoundLast(b), AsGiven)
        BY <2>2, <4>1 DEF SrInv, PointsAccounted, RowsExact
      <4>3. FoundIn(b)' = FoundIn(b)
        <5>1. ASSUME NEW t \in FoundIn(b)' PROVE t \in DOMAIN srFound
          <6> SUFFICES ASSUME t \notin DOMAIN srFound PROVE FALSE
            OBVIOUS
          <6>1. t \in old
            BY <1>9, <3>1
          <6> QED
            BY <3>1, <3>2, <6>1 DEF starts
        <5> QED
          BY <1>8, <5>1 DEF FoundIn
      <4>4. \A t \in FoundIn(b) : srFound'[t] = srFound[t]
        BY <1>7, <1>8 DEF FoundIn
      <4>5. FoundLast(b)' = FoundLast(b)
        BY <4>3, <4>4 DEF FoundLast
      <4> QED
        BY <1>14, <4>1, <4>2, <4>5
    <3>3. CASE b \in starts
      <4>1. srRows'[b].v = Average(Of(b), srRows)
        <5> HIDE DEF Of
        <5> QED
          BY <1>1, <3>3
      <4>2. ASSUME NEW t \in Of(b)
            PROVE  t \in FoundIn(b)' /\ t \notin DOMAIN srFound /\ srFound'[t] = srNow
        <5>1. t \in old /\ BucketOf(t, SrBucket) = b
          OBVIOUS
        <5>2. t \in DOMAIN srGiven \ DOMAIN srFound /\ t < threshold
          BY <1>4, <5>1
        <5> QED
          BY <1>7, <5>1, <5>2 DEF FoundIn
      <4>3. PICK u \in Of(b) : TRUE
        BY <3>3 DEF starts
      <4>4. srCompacted < srNow
        <5>1. u \in DOMAIN srFound' \ DOMAIN srFound /\ u >= deadline
          BY <3>1, <4>2
        <5> QED
          BY <1>9, <5>1
      <4>5. ASSUME NEW t \in FoundIn(b)'
            PROVE  /\ t \in DOMAIN srFound => srFound'[t] < srNow /\ srFound'[t] \in Int
                   /\ t \notin DOMAIN srFound => srFound'[t] = srNow /\ t \in Of(b)
        <5>1. t \in DOMAIN srFound' /\ BucketOf(t, SrBucket) = b /\ t >= deadline
          BY <3>1
        <5>2. CASE t \in DOMAIN srFound
          BY <1>2, <1>7, <4>4, <5>1, <5>2
        <5>3. CASE t \notin DOMAIN srFound
          <6>1. t \in old
            BY <1>9, <5>1, <5>3
          <6> QED
            BY <1>7, <5>1, <5>3, <6>1
        <5> QED
          BY <5>2, <5>3
      <4> HIDE DEF Of
      <4>6. \A t \in FoundIn(b)' : srFound'[t] \in Int /\ srFound'[t] <= srNow
        BY <1>2, <4>5
      <4>7. FoundLast(b)' = Of(b)
        <5>1. FoundLast(b)' = {t \in FoundIn(b)' : \A x \in FoundIn(b)' : srFound'[x] <= srFound'[t]}
          BY DEF FoundLast
        <5>2. ASSUME NEW t \in Of(b) PROVE t \in FoundLast(b)'
          BY <4>2, <4>6, <5>1
        <5>3. ASSUME NEW t \in FoundLast(b)' PROVE t \in Of(b)
          <6>1. t \in FoundIn(b)' /\ srFound'[u] <= srFound'[t] /\ srFound'[u] = srNow
            BY <4>2, <4>3, <5>1
          <6> QED
            BY <1>2, <4>5, <6>1
        <5> QED
          BY <5>2, <5>3
      <4>8. Average(Of(b), srRows) = Average(Of(b), AsGiven)
        <5>1. \A t \in Of(b) : srRows[t].v = AsGiven[t].v
          BY <1>4 DEF Of
        <5> QED
          BY <5>1, AverageSame
      <4> QED
        BY <1>14, <4>1, <4>3, <4>7, <4>8
    <3> QED
      BY <3>2, <3>3
  <2> QED
    BY <2>1, <2>2 DEF RowsExact
<1> QED
  BY <1>10, <1>11, <1>13, <1>16, <1>17, <1>18 DEF SrInv, PointsAccounted

\* What is accounted for depends on the rows, the points and the compactions alone.
LEMMA SameSeries ==
    ASSUME UNCHANGED <<srRows, srGiven, srCompacted, srFound>>, PointsAccounted
    PROVE  PointsAccounted'
<1>1. Deadline' = Deadline /\ AsGiven' = AsGiven
  BY DEF Deadline, AsGiven
<1>2. \A b : FoundIn(b)' = FoundIn(b)
  BY DEF FoundIn
<1>3. \A b : FoundLast(b)' = FoundLast(b)
  BY <1>2 DEF FoundLast
<1>4. PointsStay' /\ BucketsStand'
  BY <1>1 DEF PointsAccounted, PointsStay, BucketsStand
<1>5. RowsExact'
  BY <1>1, <1>3 DEF PointsAccounted, RowsExact
<1> QED
  BY <1>4, <1>5 DEF PointsAccounted

LEMMA SrStepInv == SrInv /\ [SrNext]_srVars => SrInv'
<1> SUFFICES ASSUME SrInv, [SrNext]_srVars PROVE SrInv'
  OBVIOUS
<1>1. CASE SrTick
  <2>1. /\ srNow' = srNow + 1 /\ srNow + 1 \in 0 .. SrMaxTime /\ srNow \in Nat
        /\ UNCHANGED <<srRows, srGiven, srCompacted, srFound>>
    BY <1>1, SrNumbers DEF SrTick, SrInv, Typed
  <2>2. Typed'
    BY <2>1 DEF SrInv, Typed
  <2>3. FoundOld' /\ OldAverages'
    BY <2>1 DEF SrInv, Typed, FoundOld, OldAverages
  <2>4. PointsAccounted'
    BY <2>1, SameSeries DEF SrInv
  <2> QED
    BY <2>2, <2>3, <2>4 DEF SrInv
<1>2. CASE \E v \in {Sample(x) : x \in SrValues} \cup {Null} : AddTraffic(v) \/ AddHostPoint(v)
  BY <1>2, AddKeeps
<1>3. CASE CompactSeries
  BY <1>3, CompactionKeeps
<1>4. CASE UNCHANGED srVars
  <2>1. PointsAccounted'
    BY <1>4, SameSeries DEF srVars, SrInv
  <2> QED
    BY <1>4, <2>1 DEF srVars, SrInv, Typed, FoundOld, OldAverages
<1> QED
  BY <1>1, <1>2, <1>3, <1>4 DEF SrNext

-----------------------------------------------------------------------------
\* A graph: the starts of its buckets are multiples of its width.
LEMMA Multiples ==
    ASSUME NEW w \in Nat \ {0}, NEW m \in Nat
    PROVE  /\ m % w = 0 => m = (m \div w) * w /\ m \div w \in Nat
           /\ \A k \in Nat : m = k * w => m % w = 0
<1> DEFINE q == m \div w
           r == m % w
<1>1. q \in Int /\ r \in Int /\ m = q * w + r /\ 0 <= r /\ r < w /\ q * w \in Int
  OBVIOUS
<1>2. q \in Nat
  OBVIOUS
<1> HIDE DEF q, r
<1>3. r = 0 => m = q * w
  BY <1>1
<1>4. ASSUME NEW k \in Nat, m = k * w PROVE r = 0
  <2>1. k * w < q * w + w /\ q * w < k * w + w
    BY <1>1, <1>4
  <2>2. k <= q /\ q <= k
    BY <1>1, <2>1, TimesLess
  <2> QED
    BY <1>1, <1>4, <2>2
<1> QED
  BY <1>2, <1>3, <1>4 DEF q, r

LEMMA OfTwo ==
    ASSUME NEW a \in Int, NEW b \in Int
    PROVE  /\ Max({a, b}) \in {a, b} /\ Max({a, b}) >= a /\ Max({a, b}) >= b
           /\ Min({a, b}) \in {a, b} /\ Min({a, b}) <= a /\ Min({a, b}) <= b
<1>1. \E x \in {a, b} : \A y \in {a, b} : x >= y
  OBVIOUS
<1>2. \E x \in {a, b} : \A y \in {a, b} : x <= y
  OBVIOUS
<1> QED
  BY <1>1, <1>2 DEF Max, Min

\* The buckets of a graph are wide enough for what may be shown.
LEMMA SpanFacts ==
    ASSUME NEW window \in Nat
    PROVE  /\ Max({SrMaxPoints, 1}) \in Nat \ {0}
           /\ SpanOf(window, SrMaxPoints) \in Nat \ {0}
           /\ window <= Max({SrMaxPoints, 1}) * SpanOf(window, SrMaxPoints)
<1> DEFINE points == Max({SrMaxPoints, 1})
           step == Max({SrStep, SrSecond})
           thirtieth == Max({window \div 30, SrSecond})
           floor == Min({2 * step, thirtieth})
           ceil == CeilDiv(window, points)
           width == Max({ceil, floor})
<1>1. points \in Nat \ {0}
  <2>1. SrMaxPoints \in Int /\ 1 \in Int
    BY SrNumbers
  <2>2. points \in {SrMaxPoints, 1} /\ points >= 1
    BY <2>1, OfTwo, Zenon
  <2> HIDE DEF points
  <2> QED
    BY <2>1, <2>2
<1>2. step \in Nat \ {0}
  BY OfTwo, SrLengths
<1>3. thirtieth \in Nat \ {0}
  <2>1. window \div 30 \in Int
    OBVIOUS
  <2>2. SrSecond \in Int /\ SrSecond >= 1
    BY SrLengths
  <2>3. thirtieth \in {window \div 30, SrSecond} /\ thirtieth >= SrSecond
    BY <2>1, <2>2, OfTwo, Zenon
  <2> HIDE DEF thirtieth
  <2> QED
    BY <2>1, <2>2, <2>3
<1>4. width = SpanOf(window, SrMaxPoints)
  BY DEF SpanOf
<1> HIDE DEF points, step, thirtieth
<1>5. floor \in Nat \ {0}
  <2>1. 2 * step \in Int /\ thirtieth \in Int /\ 2 * step >= 1 /\ thirtieth >= 1
    BY <1>2, <1>3
  <2>2. floor \in {2 * step, thirtieth}
    BY <2>1, OfTwo, Zenon
  <2> HIDE DEF floor
  <2> QED
    BY <2>1, <2>2
<1>6. ceil \in Int /\ window <= points * ceil
  <2> DEFINE q == (window + points - 1) \div points
  <2>1. window + points - 1 \in Int
    BY <1>1
  <2>2. q \in Int /\ window + points - 1 < q * points + points /\ q * points \in Int
    BY <1>1, <2>1, BucketHolds DEF BucketOf
  <2> HIDE DEF q
  <2>3. window <= q * points /\ q * points = points * q
    BY <1>1, <2>2
  <2> QED
    BY <2>2, <2>3 DEF q, ceil, CeilDiv
<1> HIDE DEF ceil, floor
<1>7. width \in Int /\ width >= ceil /\ width >= floor
  <2>1. ceil \in Int /\ floor \in Int
    BY <1>5, <1>6
  <2>2. width \in {ceil, floor} /\ width >= ceil /\ width >= floor
    BY <2>1, OfTwo, Zenon
  <2> HIDE DEF width
  <2> QED
    BY <2>1, <2>2
<1>8. points * ceil <= points * width
  <2> HIDE DEF width
  <2>1. width = ceil + (width - ceil) /\ width - ceil \in Nat
    BY <1>6, <1>7
  <2>2. points * width = points * ceil + points * (width - ceil) /\ points * (width - ceil) \in Nat
    BY <1>1, <1>6, <2>1
  <2>3. points * ceil \in Int
    BY <1>1, <1>6
  <2> QED
    BY <2>2, <2>3
<1> HIDE DEF width
<1>9. points * ceil \in Int /\ points * width \in Int
  BY <1>1, <1>6, <1>7
<1>10. width \in Nat \ {0} /\ window <= points * width
  BY <1>5, <1>6, <1>7, <1>8, <1>9
<1> QED
  BY <1>1, <1>4, <1>10 DEF points

LEMMA GridFacts ==
    ASSUME NEW since \in Nat, NEW until \in Nat, NEW w \in Nat \ {0}, NEW points \in Nat,
           until - since <= points * w
    PROVE  /\ Cardinality(Grid(since, until, w)) <= points + 1
           /\ \A t \in since .. until : BucketOf(t, w) \in Grid(since, until, w)
<1> DEFINE b == BucketOf(since, w)
           grid == Grid(since, until, w)
           place == [t \in grid |-> (t - b) \div w]
<1>1. b \in Nat /\ since < b + w /\ points * w \in Nat
  BY BucketHolds
<1>2. grid = {t \in b .. until : (t - b) % w = 0}
  BY DEF Grid
<1>3. ASSUME NEW t \in since .. until PROVE BucketOf(t, w) \in grid
  <2> DEFINE c == BucketOf(t, w)
             p == since \div w
             q == t \div w
  <2>1. c \in Int /\ c <= t /\ c = q * w /\ q \in Int /\ b = p * w /\ p \in Int
    <3>1. t \in Int /\ since \in Int
      OBVIOUS
    <3>2. c \in Int /\ c <= t /\ c = q * w /\ q \in Int
      BY <3>1, BucketHolds, Zenon
    <3>3. b = p * w /\ p \in Int
      BY <3>1, BucketHolds, Zenon
    <3> QED
      BY <3>2, <3>3
  <2>2. b <= c /\ p <= q
    BY BucketsInOrder
  <2> HIDE DEF b, c, p, q
  <2>3. c - b = (q - p) * w /\ q - p \in Nat /\ c - b \in Nat
    BY <1>1, <2>1, <2>2
  <2>4. (c - b) % w = 0
    BY <2>3, Multiples
  <2>5. c \in b .. until
    BY <1>1, <2>1, <2>2
  <2> HIDE DEF grid
  <2> QED
    BY <1>2, <2>4, <2>5 DEF c
<1> HIDE DEF b, grid
<1>4. ASSUME NEW t \in grid
      PROVE  place[t] \in 0 .. points /\ t = b + place[t] * w
  <2> DEFINE k == (t - b) \div w
  <2>1. t \in b .. until /\ (t - b) % w = 0 /\ t - b \in Nat
    BY <1>1, <1>2
  <2>2. t - b = k * w /\ k \in Nat
    BY <2>1, Multiples
  <2>3. place[t] = k
    OBVIOUS
  <2> HIDE DEF k
  <2>4. k * w < points * w + w
    BY <1>1, <2>1, <2>2
  <2>5. k <= points
    BY <2>2, <2>4, TimesLess
  <2>6. t = b + k * w
    BY <1>1, <2>1, <2>2
  <2> QED
    BY <2>2, <2>3, <2>5, <2>6
<1>5. place \in Injection(grid, 0 .. points)
  <2>1. place \in [grid -> 0 .. points]
    BY <1>4
  <2>2. \A s, t \in grid : place[s] = place[t] => s = t
    BY <1>4
  <2> QED
    BY <2>1, <2>2 DEF Injection, IsInjective
<1>6. IsFiniteSet(0 .. points) /\ Cardinality(0 .. points) = points + 1
  BY FS_Interval
<1> HIDE DEF place
<1>7. Cardinality(grid) <= points + 1
  BY <1>5, <1>6, FS_Injection
<1> QED
  BY <1>3, <1>7 DEF grid

LEMMA SrInvHonest == SrInv => SeriesHonest
<1> SUFFICES ASSUME SrInv PROVE GraphHonest
  BY DEF SrInv, SeriesHonest
<1> SUFFICES ASSUME NEW period \in SrPeriods, srNow - period >= 0
             PROVE  LET since == srNow - period
                        width == SpanOf(period, SrMaxPoints)
                        graph == Graph(srRows, since, srNow, SrMaxPoints) IN
                    /\ Cardinality(DOMAIN graph) <= Max({SrMaxPoints, 1}) + 1
                    /\ \A t \in DOMAIN srRows : t >= since /\ srRows[t].v.n > 0 =>
                        /\ BucketOf(t, width) \in DOMAIN graph
                        /\ graph[BucketOf(t, width)].n > 0
                    /\ \A b \in DOMAIN graph : graph[b].n > 0 =>
                        \E t \in DOMAIN srRows : t >= since /\ BucketOf(t, width) = b
  BY DEF GraphHonest
<1> DEFINE since == srNow - period
           width == SpanOf(period, SrMaxPoints)
           points == Max({SrMaxPoints, 1})
           graph == Graph(srRows, since, srNow, SrMaxPoints)
           In(b) == {t \in DOMAIN srRows : t >= since /\ t <= srNow /\ BucketOf(t, width) = b}
<1>1. /\ period \in Nat /\ srNow \in Nat /\ srNow <= SrMaxTime /\ SrMaxTime \in Nat
      /\ since \in Nat /\ srNow - since = period
      /\ DOMAIN srRows \subseteq 0 .. srNow /\ \A t \in DOMAIN srRows : srRows[t].v \in Cell
  BY SrLengths, SrNumbers DEF SrInv, Typed
<1>2. graph = [b \in Grid(since, srNow, width) |-> Average(In(b), srRows)]
  BY <1>1 DEF Graph
<1>3. points \in Nat \ {0} /\ width \in Nat \ {0} /\ srNow - since <= points * width
  BY <1>1, SpanFacts
<1> HIDE DEF since, width, points, graph
<1>4. /\ Cardinality(Grid(since, srNow, width)) <= points + 1
      /\ \A t \in since .. srNow : BucketOf(t, width) \in Grid(since, srNow, width)
  BY <1>1, <1>3, GridFacts
<1>5. ASSUME NEW b \in DOMAIN graph
      PROVE  graph[b].n > 0 <=> \E t \in In(b) : srRows[t].v.n > 0
  <2>1. graph[b] = Average(In(b), srRows)
    BY <1>2
  <2>2. In(b) \in SUBSET (0 .. SrMaxTime) /\ \A t \in In(b) : srRows[t].v \in Cell
    BY <1>1
  <2> HIDE DEF In
  <2> QED
    BY <2>1, <2>2, AverageCounts
<1>6. ASSUME NEW t \in DOMAIN srRows, t >= since, srRows[t].v.n > 0
      PROVE  BucketOf(t, width) \in DOMAIN graph /\ graph[BucketOf(t, width)].n > 0
  <2>1. t \in since .. srNow
    BY <1>1, <1>6
  <2>2. BucketOf(t, width) \in DOMAIN graph
    BY <1>2, <1>4, <2>1
  <2>3. t \in In(BucketOf(t, width))
    BY <2>1
  <2> QED
    BY <1>5, <1>6, <2>2, <2>3
<1>7. Cardinality(DOMAIN graph) <= points + 1
  BY <1>2, <1>4
<1>8. \A b \in DOMAIN graph : graph[b].n > 0 =>
          \E t \in DOMAIN srRows : t >= since /\ BucketOf(t, width) = b
  BY <1>5
<1> QED
  BY <1>6, <1>7, <1>8 DEF since, width, points, graph

\* The history is honest: until they expire, the rows are exactly the points no
\* compaction has found old and, for each bucket, the average of all the points of it
\* that the last compaction to find any of them found; and a graph shows the rows there
\* are and no others, in one bucket more than max_points at most.
THEOREM SeriesStaysHonest == SrSpec => []SeriesHonest
<1>1. SrSpec => []SrInv
  BY SrInitInv, SrStepInv, PTL DEF SrSpec
<1> QED
  BY <1>1, SrInvHonest, PTL
=============================================================================
