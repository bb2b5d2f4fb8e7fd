------------------------------ MODULE WanRates ------------------------------
(***************************************************************************)
(* The traffic of the uplink (_collect_interfaces, _collect_traffic_point  *)
(* and _wan_rates of backend/services/collector.py, get_interfaces of      *)
(* backend/services/openwrt.py): each fast round reads the interfaces of   *)
(* the router, picks the uplink among those in the snapshot, and compares  *)
(* its counter with that of the round before.                              *)
(*                                                                         *)
(* A rate is kept as the octets that are divided by the time between two   *)
(* points.  Received and sent octets are treated alike, and one counter    *)
(* stands for both; every interface has a device of its own, and one that  *)
(* is down but in the dump differs in nothing that is read here.           *)
(***************************************************************************)
EXTENDS Naturals, Sequences, FiniteSetsExt

CONSTANTS
    WnInterfaces,  \* the interfaces, in the order of ubus
    WnConfigured,  \* router.wan_interface; WnNone when it is not set
    WnCandidates,  \* router.wan_candidates
    WnNone,        \* None
    WnMaxOctets,   \* bound on the octets of an interface
    WnMaxRounds    \* bound on the rounds

VARIABLES
    wnRouter,  \* the interfaces listed, their counters, and (history) all they ever
               \* carried and how often their counters started again
    wnRows,    \* snapshot["interfaces"], with (history) the state they were read in
    wnStep,    \* what the round does next
    wnLast,    \* _last_wan, with (history) the round it is of
    wnPoint,   \* the last point of the series, with (history) the two readings compared
    wnRound    \* history: the number of the round

wnVars == <<wnRouter, wnRows, wnStep, wnLast, wnPoint, wnRound>>

-----------------------------------------------------------------------------
Names == {WnInterfaces[k] : k \in DOMAIN WnInterfaces}

ASSUME InterfacesListed == WnInterfaces \in Seq(Names)

NoPoint == [octets |-> WnNone, from |-> WnNone, to |-> WnNone]

WnInit ==
    /\ wnRouter = [listed |-> Names, octets |-> [i \in Names |-> 0],
                   carried |-> [i \in Names |-> 0], starts |-> [i \in Names |-> 0]]
    /\ wnRows = <<>>
    /\ wnStep = "interfaces"
    /\ wnLast = WnNone
    /\ wnPoint = NoPoint
    /\ wnRound = 1

Carries(i) ==
    /\ i \in wnRouter.listed /\ wnRouter.carried[i] < WnMaxOctets
    /\ wnRouter' = [wnRouter EXCEPT !.octets[i] = @ + 1, !.carried[i] = @ + 1]
    /\ UNCHANGED <<wnRows, wnStep, wnLast, wnPoint, wnRound>>

\* An interface leaves the dump or comes back to it.
ListedOrNot(i) ==
    /\ wnRouter' = [wnRouter EXCEPT !.listed = IF i \in @ THEN @ \ {i} ELSE @ \cup {i}]
    /\ UNCHANGED <<wnRows, wnStep, wnLast, wnPoint, wnRound>>

\* The counters of a device that is plugged again, or of all of them with the router,
\* start from 0.
StartsAgain(devices) ==
    /\ \A i \in devices : wnRouter.starts[i] = 0
    /\ wnRouter' = [wnRouter EXCEPT
         !.octets = [i \in Names |-> IF i \in devices THEN 0 ELSE @[i]],
         !.starts = [i \in Names |-> IF i \in devices THEN 1 ELSE @[i]]]
    /\ UNCHANGED <<wnRows, wnStep, wnLast, wnPoint, wnRound>>

-----------------------------------------------------------------------------
\* get_interfaces: the interfaces of the dump, each with the counter of its device, at its
\* place in the order of ubus; one whose status was not answered has no statistics, and
\* counts 0.
InterfaceRows(unanswered) ==
    [k \in {k \in DOMAIN WnInterfaces : WnInterfaces[k] \in wnRouter.listed} |->
        LET i == WnInterfaces[k] IN
        [name    |-> i,
         octets  |-> IF i \in unanswered THEN 0 ELSE wnRouter.octets[i],
         carried |-> wnRouter.carried[i], starts |-> wnRouter.starts[i],
         read    |-> i \notin unanswered]]

\* _collect_interfaces.  A dump that is not answered is a router without interfaces.
InterfacesCollected ==
    /\ wnStep = "interfaces" /\ wnStep' = "traffic"
    /\ \/ \E unanswered \in SUBSET wnRouter.listed : wnRows' = InterfaceRows(unanswered)
       \/ wnRows' = <<>>
    /\ UNCHANGED <<wnRouter, wnLast, wnPoint, wnRound>>

\* It raises: the snapshot keeps the rows of an earlier round.
InterfacesFailed ==
    /\ wnStep = "interfaces" /\ wnStep' = "traffic"
    /\ UNCHANGED <<wnRouter, wnRows, wnLast, wnPoint, wnRound>>

\* _pick_wan_interface: the one configured, or the first of the usual names, or the
\* first that has carried something; 0 when there is none.
PickWan(rows) ==
    LET Called(names) == {k \in DOMAIN rows : rows[k].name \in names}
        choices == <<Called({WnConfigured}), Called(WnCandidates),
                     {k \in DOMAIN rows : rows[k].octets > 0}>>
        some == {c \in DOMAIN choices : choices[c] # {}}
    IN  IF some = {} THEN 0 ELSE Min(choices[Min(some)])

\* _wan_rates: nothing to compare with, another interface, a counter that went back.
WanOctets(last, row) ==
    IF last = WnNone \/ last.row.name # row.name \/ row.octets < last.row.octets THEN WnNone
    ELSE row.octets - last.row.octets

\* Slip: a round without an uplink leaves the last reading where it was.
TrafficPointKeeping ==
    LET k == PickWan(wnRows)
        now == [row |-> wnRows[k], round |-> wnRound] IN
    /\ wnStep = "traffic" /\ wnStep' = "interfaces"
    /\ wnRound < WnMaxRounds /\ wnRound' = wnRound + 1
    /\ wnLast' = IF k = 0 THEN wnLast ELSE now
    /\ wnPoint' = IF k = 0 THEN NoPoint
                  ELSE [octets |-> WanOctets(wnLast, now.row), from |-> wnLast, to |-> now]
    /\ UNCHANGED <<wnRouter, wnRows>>

\* _collect_traffic_point: the point goes to the series, its reading is the last one.
TrafficPoint ==
    LET k == PickWan(wnRows)
        now == [row |-> wnRows[k], round |-> wnRound] IN
    /\ wnStep = "traffic" /\ wnStep' = "interfaces"
    /\ wnRound < WnMaxRounds /\ wnRound' = wnRound + 1
    /\ wnLast' = IF k = 0 THEN WnNone ELSE now
    /\ wnPoint' = IF k = 0 THEN NoPoint
                  ELSE [octets |-> WanOctets(wnLast, now.row), from |-> wnLast, to |-> now]
    /\ UNCHANGED <<wnRouter, wnRows>>

WnNext ==
    \/ \E i \in Names : Carries(i) \/ ListedOrNot(i) \/ StartsAgain({i})
    \/ StartsAgain(Names)
    \/ InterfacesCollected \/ InterfacesFailed
    \/ TrafficPoint

WnSpec == WnInit /\ [][WnNext]_wnVars

-----------------------------------------------------------------------------
Octets == 0 .. WnMaxOctets

WanRows == [name : Names, octets : Octets, carried : Octets, starts : {0, 1}, read : BOOLEAN]

WnTypeOK ==
    /\ wnRouter \in [listed : SUBSET Names, octets : [Names -> Octets],
                     carried : [Names -> Octets], starts : [Names -> {0, 1}]]
    /\ \A k \in DOMAIN wnRows : wnRows[k] \in WanRows
    /\ wnStep \in {"interfaces", "traffic"}
    /\ wnLast = WnNone \/ wnLast \in [row : WanRows, round : 1 .. WnMaxRounds]
    /\ wnPoint.octets \in Octets \cup {WnNone}

\* A rate on the graph compares two rounds that follow one another, of the same uplink,
\* and where both counters were read and neither started again it is what the
\* uplink carried between the readings: no rate spans a round without an uplink, whichever
\* interface is picked in each (_wan_rates: "prima lettura, interfaccia di uplink
\* cambiata o contatori azzerati").  A counter that
\* started again and is past its last reading is not told from one that did not.
WanHonest ==
    wnPoint.octets # WnNone =>
        LET from == wnPoint.from  to == wnPoint.to IN
        /\ to.round = from.round + 1 /\ to.row.name = from.row.name
        /\ from.row.read /\ to.row.read /\ from.row.starts = to.row.starts =>
              wnPoint.octets = to.row.carried - from.row.carried

\* Where the counter of the uplink was not read there is no rate (_wan_rates: "In quel
\* caso il grafico mostra un buco, non uno zero inventato").
WanHolesShown ==
    wnPoint.octets # WnNone => wnPoint.from.row.read /\ wnPoint.to.row.read
=============================================================================
