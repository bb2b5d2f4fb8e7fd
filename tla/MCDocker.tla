------------------------------- MODULE MCDocker -------------------------------
(* A socket with hosts of SSH, one of them the machine of the backend and   *)
(* one that runs Windows; and an engine with two hosts of SSH, one written  *)
(* under the same address and one that is the same machine under another.   *)
EXTENDS DockerHosts

HostAt(a, os) == [at |-> a, os |-> os]

DockerConfigs == {
    [local |-> TRUE, hosts |-> <<>>,
     ssh |-> <<HostAt("here", "auto"), HostAt("w", "windows")>>],
    [local |-> FALSE, hosts |-> <<[at |-> "a", tcp |-> TRUE]>>,
     ssh |-> <<HostAt("a", "auto"), HostAt("a2", "linux")>>]}

Machine == [here |-> "m", a |-> "n", a2 |-> "n", w |-> "w"]

Runs == [m |-> {"c1"}, n |-> {"c2"}, w |-> {}]
=============================================================================
