----------------------------- MODULE SnmpRates -----------------------------
(***************************************************************************)
(* The traffic of an interface, from the counters of an SNMP agent         *)
(* (backend/services/snmp.py, SnmpState): the poller asks the agent for    *)
(* its uptime and then for its tables, and turns two readings of an octet  *)
(* counter into a rate; the discovery, meanwhile, says which hosts there   *)
(* are.  The counter begins again at 0 with the agent; it has 64 bits, or  *)
(* 32 and goes round where the agent has no ifXTable or did not answer for *)
(* it this time.                                                           *)
(*                                                                         *)
(* One host, one interface, one direction.  Everything runs on one event   *)
(* loop: an action is the code between two awaits, or something that       *)
(* happens to the agent.  Left out: the rest of the tables, and the host   *)
(* objects, of which the poll may write one that the discovery has just    *)
(* replaced.                                                               *)
(***************************************************************************)
EXTENDS Integers

CONSTANTS
    SpNone,       \* None
    SpRound,      \* where a counter of 32 bits goes round: 2^32
    SpInterval,   \* traffic_interval
    SpMaxOctets,  \* bound on the traffic
    SpMaxTime     \* bound on the clock

ASSUME RoundPositive == SpRound \in Nat \ {0}

VARIABLES
    spNow,       \* the clock
    spTraffic,   \* octets that have really passed
    spBootAt,    \* when the agent started, and the octets that had passed by then
    spKnown,     \* the host is in `hosts`
    spPrev,      \* _prev of the interface
    spLastPoll,  \* _last_poll
    spPoll,      \* where the poll is suspended
    spUptime,    \* the uptime it has been told, None when the answer has none
    spHole,      \* history: since the last reading the agent gave no answer, or the host
                 \* was not known
    spLate,      \* history: the poll was under way when the host was dropped
    spRate       \* history: the last rate, and what it should have been

spAgent == <<spTraffic, spBootAt>>
spHistory == <<spHole, spLate, spRate>>
spVars == <<spNow, spAgent, spKnown, spPrev, spLastPoll, spPoll, spUptime, spHistory>>

-----------------------------------------------------------------------------
\* What the agent answers for a counter of so many bits.
Counter(bits) ==
    IF bits = 32 THEN (spTraffic - spBootAt.octets) % SpRound
    ELSE spTraffic - spBootAt.octets

Uptime == spNow - spBootAt.t

NoRate == [octets |-> SpNone, real |-> 0, told |-> TRUE, exact |-> TRUE, hole |-> FALSE]

SpInit ==
    /\ spNow = 0
    /\ spTraffic = 0
    /\ spBootAt = [t |-> 0, octets |-> 0]
    /\ spKnown = FALSE
    /\ spPrev = SpNone
    /\ spLastPoll = - SpInterval
    /\ spPoll = "idle"
    /\ spUptime = 0
    /\ spHole = FALSE
    /\ spLate = FALSE
    /\ spRate = NoRate

SpTick ==
    /\ spNow < SpMaxTime
    /\ spNow' = spNow + 1
    /\ UNCHANGED <<spAgent, spKnown, spPrev, spLastPoll, spPoll, spUptime, spHistory>>

OctetPasses ==
    /\ spTraffic < SpMaxOctets
    /\ spTraffic' = spTraffic + 1
    /\ UNCHANGED <<spNow, spBootAt, spKnown, spPrev, spLastPoll, spPoll, spUptime,
                   spHistory>>

AgentReboots ==
    /\ spBootAt # [t |-> spNow, octets |-> spTraffic]
    /\ spBootAt' = [t |-> spNow, octets |-> spTraffic]
    /\ UNCHANGED <<spNow, spTraffic, spKnown, spPrev, spLastPoll, spPoll, spUptime,
                   spHistory>>

-----------------------------------------------------------------------------
\* set_discovered: the host appears, or goes and is forgotten.
SetDiscovered(found) ==
    /\ found # spKnown
    /\ spKnown' = found
    /\ spPrev' = IF found THEN spPrev ELSE SpNone
    /\ spHole' = TRUE
    /\ spLate' = (spLate \/ (~ found /\ spPoll # "idle"))
    /\ UNCHANGED <<spNow, spAgent, spLastPoll, spPoll, spUptime, spRate>>

\* due, and no poll under way.
PollStarts ==
    /\ spKnown
    /\ spNow - spLastPoll >= SpInterval
    /\ spPoll = "idle"
    /\ spPoll' = "uptime"
    /\ spLastPoll' = spNow
    /\ UNCHANGED <<spNow, spAgent, spKnown, spPrev, spUptime, spHistory>>

\* The answer may lack sysUpTime.
UptimeTold ==
    /\ spPoll = "uptime"
    /\ spPoll' = "tables"
    /\ spUptime' \in {Uptime, SpNone}
    /\ UNCHANGED <<spNow, spAgent, spKnown, spPrev, spLastPoll, spHistory>>

\* The uptime of the agent has gone down, where it was told both times.
Restarted(prev, cur) ==
    prev.uptime # SpNone /\ cur.uptime # SpNone /\ cur.uptime < prev.uptime

\* Slip: a restart of the agent is not looked for.
RateOctetsRestarted(prev, cur) ==
    LET delta == cur.octets - prev.octets IN
    IF cur.t <= prev.t THEN SpNone
    ELSE IF delta >= 0 THEN delta
    ELSE IF cur.bits = 32 /\ prev.bits = 32 THEN delta + SpRound
    ELSE SpNone

\* rate_bps, as the octets it divides by the time: None where the readings do not
\* compare.  Only a counter that went down is looked at for its width.
RateOctets(prev, cur) ==
    LET delta == cur.octets - prev.octets IN
    IF cur.t <= prev.t \/ Restarted(prev, cur) THEN SpNone
    ELSE IF delta >= 0 THEN delta
    ELSE IF cur.bits = 32 /\ prev.bits = 32 THEN delta + SpRound
    ELSE SpNone

\* What the difference of two counters tells: a counter of 64 bits whatever has passed,
\* unless the one before had 32 and had gone round; one of 32 bits less than a round.
Comparable(prev, cur) ==
    IF cur.bits = 32 THEN cur.traffic - prev.traffic < SpRound
    ELSE prev.bits = 32 => prev.traffic - prev.boot.octets < SpRound

\* _poll_one, with the tables.  The counter has 64 bits when the walk of ifXTable gave
\* both directions (read_interfaces, build_interfaces).  A reading under another name (the
\* interface was renamed, or ifName is missing and ifDescr is another) is not compared.
TablesRead(bits, renamed) ==
    LET prev == IF renamed THEN SpNone ELSE spPrev
        cur == [octets |-> Counter(bits), bits |-> bits, t |-> spNow, uptime |-> spUptime,
                traffic |-> spTraffic, boot |-> spBootAt] IN
    /\ spPoll = "tables"
    /\ spPoll' = "idle"
    /\ spPrev' = cur
    /\ spRate' =
        IF prev = SpNone THEN NoRate
        ELSE [octets |-> RateOctets(prev, cur),
              real |-> cur.traffic - prev.traffic,
              told |-> cur.boot = prev.boot \/ Restarted(prev, cur),
              exact |-> Comparable(prev, cur),
              hole |-> spHole]
    /\ spHole' = FALSE
    /\ UNCHANGED <<spNow, spAgent, spKnown, spLastPoll, spUptime, spLate>>

\* A walk that was cut short is kept (_run): the interface is there without its counter,
\* and the next reading has nothing to compare with.
CounterMissing ==
    /\ spPoll = "tables"
    /\ spPoll' = "idle"
    /\ spPrev' = SpNone
    /\ spRate' = NoRate
    /\ UNCHANGED <<spNow, spAgent, spKnown, spLastPoll, spUptime, spHole, spLate>>

\* SnmpError: the next good reading begins anew.
ReadingFails ==
    /\ spPoll # "idle"
    /\ spPoll' = "idle"
    /\ spPrev' = SpNone
    /\ spHole' = TRUE
    /\ UNCHANGED <<spNow, spAgent, spKnown, spLastPoll, spUptime, spLate, spRate>>

\* Any other error ends in poll's gather, and a walk that was cut short may lack the
\* interface: the reading before stays, and the next good one is compared with it.
ReadingSkipped ==
    /\ spPoll # "idle"
    /\ spPoll' = "idle"
    /\ UNCHANGED <<spNow, spAgent, spKnown, spPrev, spLastPoll, spUptime, spHistory>>

SpNext ==
    \/ SpTick \/ OctetPasses \/ AgentReboots
    \/ \E found \in BOOLEAN : SetDiscovered(found)
    \/ PollStarts \/ UptimeTold
    \/ \E bits \in {32, 64}, renamed \in BOOLEAN : TablesRead(bits, renamed)
    \/ CounterMissing \/ ReadingFails \/ ReadingSkipped

SpSpec == SpInit /\ [][SpNext]_spVars

-----------------------------------------------------------------------------
Readings ==
    [octets : 0 .. SpMaxOctets, bits : {32, 64}, t : 0 .. SpMaxTime,
     uptime : 0 .. SpMaxTime \cup {SpNone}, traffic : 0 .. SpMaxOctets,
     boot : [t : 0 .. SpMaxTime, octets : 0 .. SpMaxOctets]]

SpTypeOK ==
    /\ spNow \in 0 .. SpMaxTime
    /\ spTraffic \in 0 .. SpMaxOctets
    /\ spKnown \in BOOLEAN
    /\ spPrev \in Readings \cup {SpNone}
    /\ spPoll \in {"idle", "uptime", "tables"}
    /\ spUptime \in 0 .. SpMaxTime \cup {SpNone}

\* A rate that is shown is what really passed between the two readings, however many
\* rounds that were skipped lie between them and whatever width each counter had: a
\* counter that goes round is put right and an agent that has started again gives no
\* rate.  And no rate spans a reading the agent did not answer, or a time in which the
\* host was not known.  Except where the code cannot tell: a restart that the uptime,
\* asked before the counters and not always answered, does not show; a counter of 32
\* bits that went round twice, or once before the first reading of 64 bits, whose
\* difference counts every round; a host dropped in the middle of a poll, which leaves
\* its reading behind.  (rate_bps, _poll_one, set_discovered.)
RateHonest ==
    spRate.octets # SpNone =>
        /\ spRate.told /\ spRate.exact => spRate.octets = spRate.real
        /\ spRate.hole => spLate
=============================================================================
