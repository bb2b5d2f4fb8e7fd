------------------------------ MODULE MCReadings ------------------------------
(***************************************************************************)
(* What the backend reads of the network and of its own files, and what it *)
(* remembers of it: the events, the sampled series, the alerts, the SNMP   *)
(* rates, the traffic of the uplink, the topology, the registry of a scan, *)
(* the resources of a host, the secrets, the Docker section, the log a     *)
(* page follows and the hosts of SSH.  They share no state, so they are    *)
(* run one at a time: `part` says which, and the states of the run are the *)
(* sum of those of the parts and not their product.                        *)
(***************************************************************************)
EXTENDS HistoryEvents, HistorySeries, MCAlerts, SnmpRates, SnmpTopology,
        Registry, HostRates, Secrets, MCDocker, LogStream, SshHosts, MCWan

VARIABLE part

readingsVars == <<part, evVars, srVars, alVars, spVars, tpVars, rgVars, hmVars, scVars,
                  dkVars, lsVars, shVars, wnVars>>

\* A host announces one neighbour at most: the first, the last, or none; itself included.
Neighbours == {<<>>} \cup {<<[dev |-> d, port |-> 1]>> : d \in {1, 3}}

\* A catalogue with an entry of a MAC alone, and one where an address has the same MAC.
Entry(a, m) == [ip |-> a, mac |-> m]

Catalogues == {<<Entry(RgNone, "mac1")>>, <<Entry("ip1", "mac1"), Entry(RgNone, "mac1")>>}

\* A secret that is not the password cleared, and all of them written anew.
SecretChanges ==
    {[k \in ScKeys |-> IF k = ScHash THEN "same" ELSE "clear"],
     [k \in ScKeys |-> "new"]}

Kind(text, drop) == [text |-> text, drop |-> drop]

LogKinds == {Kind("x", "nothing"), Kind("y", "nothing"), Kind("f", "filter"), Kind("r", "rule")}

HostVersion(os, machine) == [os |-> os, machine |-> machine]

HostVersions == {HostVersion("auto", "linux"), HostVersion("auto", "windows"),
                 HostVersion("linux", "unknown")}

Parts == {"events", "series", "alerts", "rates", "topology", "registry", "hosts",
          "secrets", "docker", "stream", "ssh", "wan"}

\* What a part starts from in several ways is fixed while another part runs.
ReadingsInit ==
    /\ part \in Parts
    /\ EvInit /\ SrInit /\ AlInit /\ SpInit /\ TpInit /\ RgInit /\ HmInit /\ ScInit
    /\ DkInit /\ LsInit /\ ShInit /\ WnInit
    /\ part # "series" => srTable = "traffic"
    /\ part # "alerts" => alWorld = "source"
    /\ part # "registry" => rgCatalogue = <<Entry(RgNone, "mac1")>>
    /\ part # "secrets" => scFile = NoFile
    /\ part # "docker" => dkConfig.local
    /\ part # "stream" => lsSource = "audit" /\ lsLines = 1
    /\ lsLines = 0 => lsSource = "journal"   \* one source is enough for 0 lines
    /\ part # "ssh" => Version(1) = HostVersion("auto", "linux")

\* One part goes on and the others stay as they are.
RoundOf(name) ==
    /\ part = name /\ UNCHANGED part
    /\ name # "events" => UNCHANGED evVars
    /\ name # "series" => UNCHANGED srVars
    /\ name # "alerts" => UNCHANGED alVars
    /\ name # "rates" => UNCHANGED spVars
    /\ name # "topology" => UNCHANGED tpVars
    /\ name # "registry" => UNCHANGED rgVars
    /\ name # "hosts" => UNCHANGED hmVars
    /\ name # "secrets" => UNCHANGED scVars
    /\ name # "docker" => UNCHANGED dkVars
    /\ name # "stream" => UNCHANGED lsVars
    /\ name # "ssh" => UNCHANGED shVars
    /\ name # "wan" => UNCHANGED wnVars

ReadingsNext ==
    \/ RoundOf("events") /\ EvNext
    \/ RoundOf("series") /\ SrNext
    \/ RoundOf("alerts") /\ AlNext
    \/ RoundOf("rates") /\ SpNext
    \/ RoundOf("topology") /\ TpNext
    \/ RoundOf("registry") /\ RgNext
    \/ RoundOf("hosts") /\ HmNext
    \/ RoundOf("secrets") /\ ScNext
    \/ RoundOf("docker") /\ DkNext
    \/ RoundOf("stream") /\ LsNext
    \/ RoundOf("ssh") /\ ShNext
    \/ RoundOf("wan") /\ WnNext

ReadingsSpec == ReadingsInit /\ [][ReadingsNext]_readingsVars

\* The type invariant of the part that goes on; the others are where they started.
ReadingsTypeOK ==
    /\ part = "events" => EvTypeOK
    /\ part = "series" => SrTypeOK
    /\ part = "alerts" => AlTypeOK
    /\ part = "rates" => SpTypeOK
    /\ part = "topology" => TpTypeOK
    /\ part = "registry" => RgTypeOK
    /\ part = "hosts" => HmTypeOK
    /\ part = "secrets" => ScTypeOK
    /\ part = "docker" => DkTypeOK
    /\ part = "stream" => LsTypeOK
    /\ part = "ssh" => ShTypeOK
    /\ part = "wan" => WnTypeOK
=============================================================================
