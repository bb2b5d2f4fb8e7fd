----------------------------- MODULE DockerHosts -----------------------------
(***************************************************************************)
(* The Docker section of the snapshot (backend/services/docker_client.py   *)
(* and _collect_docker of backend/services/collector.py): the clients made *)
(* from the configuration, the containers each of them lists, and the word *)
(* of the page on which hosts can be reached.                              *)
(*                                                                         *)
(* The clients are shared by the collections that run at once, the slow    *)
(* round and a refresh asked by hand; what a client knows of its host is   *)
(* the outcome of its last request, whoever made it.                       *)
(***************************************************************************)
EXTENDS Naturals, Sequences

CONSTANTS
    DkCollections,  \* collections that may run at once
    DkConfigs,      \* configurations: the local socket, docker.hosts, the hosts of SSH
    DkHere,         \* the address of the machine the backend runs on
    DkMachine,      \* the machine that answers at each address
    DkRuns          \* the containers of each machine

ASSUME ConfigsListed ==
    \A cfg \in DkConfigs :
        /\ cfg.hosts \in Seq([at : DOMAIN DkMachine, tcp : BOOLEAN])
        /\ cfg.ssh \in Seq([at : DOMAIN DkMachine, os : {"auto", "linux", "windows"}])

VARIABLES
    dkConfig,   \* read once, when the clients are made
    dkClient,   \* of each client, whether the last request failed and one ever succeeded
    dkJob,      \* what each collection awaits of each client, and what it has listed
    dkShown     \* _snapshot["docker"]: the containers with their client, and the hosts

dkVars == <<dkConfig, dkClient, dkJob, dkShown>>

-----------------------------------------------------------------------------
(***************************************************************************)
(* The clients.                                                            *)
(***************************************************************************)

\* _build: the socket, the hosts written in docker.hosts, and of the hosts of SSH those
\* not written there, not this machine when the socket covers it, not declared Windows.
\* The numbers of the clients give their order.
BuildClients(cfg) ==
    LET written == {cfg.hosts[k].at : k \in DOMAIN cfg.hosts}
        Found(h) == /\ h.at \notin written
                    /\ ~(cfg.local /\ h.at = DkHere)
                    /\ h.os # "windows"
        last == Len(cfg.hosts)
        socket == IF cfg.local THEN {0} ELSE {}
        ssh == {last + k : k \in {k \in DOMAIN cfg.ssh : Found(cfg.ssh[k])}}
    IN  [k \in socket \cup 1 .. last \cup ssh |->
            IF k = 0 THEN [at |-> DkHere, engine |-> TRUE]
            ELSE IF k <= last THEN [at |-> cfg.hosts[k].at, engine |-> cfg.hosts[k].tcp]
            ELSE [at |-> cfg.ssh[k - last].at, engine |-> FALSE]]

Clients == DOMAIN BuildClients(dkConfig)

IsEngine(k) == BuildClients(dkConfig)[k].engine

Containers(k) == DkRuns[DkMachine[BuildClients(dkConfig)[k].at]]

NothingAsked(cfg) == [step |-> "idle", of |-> [k \in DOMAIN BuildClients(cfg) |-> "done"],
                      got |-> [k \in DOMAIN BuildClients(cfg) |-> {}],
                      failed |-> {}, refused |-> {}, later |-> {}]

DkInit ==
    /\ dkConfig \in DkConfigs
    /\ dkClient = [k \in Clients |-> [error |-> FALSE, ok |-> FALSE]]
    /\ dkJob = [c \in DkCollections |-> NothingAsked(dkConfig)]
    /\ dkShown = [list |-> {}, hosts |-> {}, unlisted |-> {}]

-----------------------------------------------------------------------------
(***************************************************************************)
(* Requests.                                                               *)
(***************************************************************************)

\* The request of a client has succeeded.  `later` is history: the clients that could not
\* be reached for the list of the collection and have answered another request since.
Answers(k, job) ==
    /\ dkClient' = [dkClient EXCEPT ![k] = [error |-> FALSE, ok |-> TRUE]]
    /\ dkJob' = [c \in DkCollections |->
                    IF k \in job[c].failed THEN [job[c] EXCEPT !.later = @ \cup {k}] ELSE job[c]]

\* Slip: the failure is only written in the log.
FailsUnsaid(k, job) == dkJob' = job /\ UNCHANGED dkClient

\* It has failed: the host is out of reach until one succeeds.
Fails(k, job) ==
    /\ dkClient' = [dkClient EXCEPT ![k].error = TRUE]
    /\ dkJob' = job

Waiting(c, step, k, what) == dkJob[c].step = step /\ dkJob[c].of[k] = what

\* A collection asks every client for its list.
BeginLists(c) ==
    /\ dkJob[c].step = "idle"
    /\ dkJob' = [dkJob EXCEPT ![c] = [NothingAsked(dkConfig) EXCEPT
                    !.step = "lists", !.of = [k \in Clients |-> "list"]]]
    /\ UNCHANGED <<dkConfig, dkClient, dkShown>>

\* A client has listed its containers and, if there are any, goes on with their
\* statistics.
Lists(c, k) ==
    /\ Waiting(c, "lists", k, "list")
    /\ Answers(k, [dkJob EXCEPT ![c].of[k] = IF Containers(k) = {} THEN "done" ELSE "stats",
                                ![c].got[k] = Containers(k)])
    /\ UNCHANGED <<dkConfig, dkShown>>

\* No list: over SSH an empty one, from an engine an exception.
ListFails(c, k) ==
    /\ Waiting(c, "lists", k, "list")
    /\ Fails(k, [dkJob EXCEPT ![c].of[k] = "done", ![c].failed = @ \cup {k}])
    /\ UNCHANGED <<dkConfig, dkShown>>

\* An engine answers with what is not a list, or docker ps ends with an error over SSH:
\* the host is in reach and has listed nothing.  `refused` is history: it has been asked
\* nothing else.
ListRefused(c, k) ==
    /\ Waiting(c, "lists", k, "list")
    /\ Answers(k, [dkJob EXCEPT ![c].of[k] = "done", ![c].refused = @ \cup {k}])
    /\ UNCHANGED <<dkConfig, dkShown>>

\* The statistics of an engine, one request for each container that runs: the last
\* outcome stays on the client, and the list is what it was.
EngineStats(c, k) ==
    /\ IsEngine(k) /\ Waiting(c, "lists", k, "stats")
    /\ LET job == [dkJob EXCEPT ![c].of[k] = "done"] IN
       \/ dkJob' = job /\ UNCHANGED dkClient
       \/ Answers(k, job) \/ Fails(k, job)
    /\ UNCHANGED <<dkConfig, dkShown>>

\* Over SSH, one command for all of them.
SshStats(c, k) ==
    /\ ~IsEngine(k) /\ Waiting(c, "lists", k, "stats")
    /\ LET job == [dkJob EXCEPT ![c].of[k] = "done"] IN Answers(k, job) \/ Fails(k, job)
    /\ UNCHANGED <<dkConfig, dkShown>>

\* Every list is in: the networks, which only the engines are asked for.
BeginNetworks(c) ==
    /\ dkJob[c].step = "lists" /\ \A k \in Clients : dkJob[c].of[k] = "done"
    /\ dkJob' = [dkJob EXCEPT ![c].step = "networks",
                              ![c].of = [k \in Clients |-> IF IsEngine(k) THEN "ask" ELSE "done"]]
    /\ UNCHANGED <<dkConfig, dkClient, dkShown>>

Networks(c, k) ==
    /\ Waiting(c, "networks", k, "ask")
    /\ LET job == [dkJob EXCEPT ![c].of[k] = "done"] IN Answers(k, job) \/ Fails(k, job)
    /\ UNCHANGED <<dkConfig, dkShown>>

\* Slip: every client's containers.
MergedTwice(got) == UNION {got[k] \X {k} : k \in Clients}

\* The same container seen by two clients is the first one's.
Merged(got) ==
    UNION {(got[k] \ UNION {got[j] : j \in {j \in Clients : j < k}}) \X {k} : k \in Clients}

\* The section of the snapshot: the containers and what the clients say of their hosts.
\* `unlisted` is history: the clients in reach that have listed nothing, of those refused
\* or reached later.
CollectDocker(c) ==
    /\ dkJob[c].step = "networks" /\ \A k \in Clients : dkJob[c].of[k] = "done"
    /\ dkShown' = [list |-> Merged(dkJob[c].got),
                   hosts |-> {[client |-> k, reachable |-> ~dkClient[k].error,
                               seen |-> dkClient[k].ok] : k \in Clients},
                   unlisted |-> {k \in dkJob[c].refused \cup dkJob[c].later : ~dkClient[k].error}]
    /\ dkJob' = [dkJob EXCEPT ![c] = NothingAsked(dkConfig)]
    /\ UNCHANGED <<dkConfig, dkClient>>

DkNext ==
    \E c \in DkCollections :
        \/ BeginLists(c) \/ BeginNetworks(c) \/ CollectDocker(c)
        \/ \E k \in Clients :
              \/ Lists(c, k) \/ ListFails(c, k) \/ ListRefused(c, k)
              \/ EngineStats(c, k) \/ SshStats(c, k)
              \/ Networks(c, k)

DkSpec == DkInit /\ [][DkNext]_dkVars

-----------------------------------------------------------------------------
DkTypeOK ==
    /\ dkConfig \in DkConfigs
    /\ dkClient \in [Clients -> [error : BOOLEAN, ok : BOOLEAN]]
    /\ \A c \in DkCollections :
          /\ dkJob[c].step \in {"idle", "lists", "networks"}
          /\ dkJob[c].of \in [Clients -> {"list", "stats", "ask", "done"}]
          /\ \A k \in Clients : dkJob[c].got[k] \subseteq Containers(k)
          /\ dkJob[c].later \subseteq dkJob[c].failed
          /\ dkJob[c].failed \cup dkJob[c].refused \subseteq Clients

\* A container is in the list once, however many clients of the configuration reach its
\* machine (docker_client.py: "Lo stesso container non deve comparire due volte"), and a
\* host shown in reach has answered, and its containers are all in the list
\* (docker_client.py:466: "un host irraggiungibile va dichiarato, altrimenti la sua
\* assenza si legge come \"non ha container\"").  But for two cases: the host could not be
\* reached for the list and has answered another request before the hosts were read; and
\* docker ps has ended with an error, or an engine's answer was no list, which no one
\* declares (docker_client.py:306).
DockerHonest ==
    /\ \A x, y \in dkShown.list : x[1] = y[1] => x = y
    /\ \A h \in dkShown.hosts : h.reachable =>
          /\ h.seen
          /\ \/ Containers(h.client) \subseteq {x[1] : x \in dkShown.list}
             \/ h.client \in dkShown.unlisted
=============================================================================
