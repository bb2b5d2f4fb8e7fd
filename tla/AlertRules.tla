----------------------------- MODULE AlertRules -----------------------------
(***************************************************************************)
(* The catalogue of the alert rules (backend/services/alerts.py): which    *)
(* alerts each rule makes out of a snapshot.  An alert is its rule and its *)
(* subject, with the level and the beginning the rule may declare; titles, *)
(* details and advice are left out.                                        *)
(*                                                                         *)
(* A snapshot is a record with one field per section a rule reads, each a  *)
(* sequence of the entries as they were collected; an entry keeps the      *)
(* fields the rules test.  Time is in seconds.                             *)
(***************************************************************************)
EXTENDS Integers, FiniteSets, SequencesExt, Subsequences

CONSTANTS
    AlActive,   \* HANDSHAKE_ATTIVO: how old the handshake of a tunnel that works is
    AlCritical  \* source_critical_after

-----------------------------------------------------------------------------
Alert(rule, subject) == [rule |-> rule, subject |-> subject, level |-> "", since |-> 0]

\* One alert for each entry of a section that the rule fires on.
Fired(section, Test(_), Make(_)) ==
    LET hits == Picked(section, {i \in DOMAIN section : Test(section[i])}) IN
    [i \in DOMAIN hits |-> Make(hits[i])]

\* A rule about the whole: one alert without a subject, or none.
Once(rule, holds) == IF holds THEN <<Alert(rule, "")>> ELSE <<>>

DockerRestartLoop(snap) ==
    Fired(snap.containers,
          LAMBDA c : c.status = "restarting",
          LAMBDA c : Alert("docker.restart_loop", <<c.host, c.name>>))

\* A host that never answered is not one that went down.
DockerHostGiu(snap) ==
    Fired(snap.dockerHosts,
          LAMBDA h : ~ h.reachable /\ h.seen,
          LAMBDA h : Alert("docker.host_giu", h.name))

SystemdGiu(snap) ==
    Fired(snap.systemd,
          LAMBDA u : u.critical /\ ~ u.ok,
          LAMBDA u : Alert("services.systemd_giu", <<u.host, u.name>>))

WindowsGiu(snap) ==
    Fired(snap.windows,
          LAMBDA w : w.critical /\ ~ w.ok,
          LAMBDA w : Alert("services.windows_giu", <<w.host, w.name>>))

HealthcheckGiu(snap) ==
    Fired(snap.healthchecks,
          LAMBDA c : ~ c.ok,
          LAMBDA c : Alert("services.healthcheck_giu", c.name))

\* The collector knows since when; the level grows with the failures in a row.
SorgenteGiu(snap) ==
    Fired(snap.sources,
          LAMBDA s : ~ s.ok,
          LAMBDA s : [rule |-> "collector.sorgente_giu", subject |-> s.name,
                      level |-> IF s.fails >= AlCritical THEN "critical" ELSE "warn",
                      since |-> s.since])

\* _chiave_sicurezza: the subject is the setting that is wrong.
ApiAperta(snap) ==
    Fired(snap.security,
          LAMBDA m : TRUE,
          LAMBDA m : Alert("security.api_aperta", m.setting))

NessunHost(snap) == Once("resources.nessun_host", snap.noHosts)

\* A machine that is off is no alert, whether the reading was skipped or tried.
HostSshGiu(snap) ==
    LET spenti == UNION {snap.devices[i].ips : i \in
                            {j \in DOMAIN snap.devices : ~ snap.devices[j].online}} IN
    Fired(snap.hosts,
          LAMBDA h : ~ h.reachable /\ ~ h.skipped /\ h.ip \notin spenti,
          LAMBDA h : Alert("resources.host_ssh_giu", h.ip))

-----------------------------------------------------------------------------
\* The cards, virtual ones apart, that have an address in a network.
CardsIn(snap, net) ==
    {snap.interfaces[i].name : i \in
        {j \in DOMAIN snap.interfaces :
            ~ snap.interfaces[j].virtual /\ net \in snap.interfaces[j].nets}}

SubnetDuplicata(snap) ==
    Fired(SetToSeq(UNION {snap.interfaces[i].nets : i \in DOMAIN snap.interfaces}),
          LAMBDA net : Cardinality(CardsIn(snap, net)) >= 2,
          LAMBDA net : Alert("host.subnet_duplicata", net))

\* Only a tie is ambiguous.
DefaultRouteMultipla(snap) ==
    Once("host.default_route_multipla",
         \E i, j \in DOMAIN snap.routes :
            /\ i # j
            /\ snap.routes[i].default
            /\ snap.routes[j].default
            /\ snap.routes[i].metric = snap.routes[j].metric)

LinkGiuConIp(snap) ==
    Fired(snap.interfaces,
          LAMBDA f : ~ f.virtual /\ f.state = "down" /\ f.nets # {},
          LAMBDA f : Alert("host.link_giu_con_ip", f.name))

-----------------------------------------------------------------------------
\* The peers of all the tunnels, each with the name of its tunnel.
Peers(snap) ==
    FlattenSeq([i \in DOMAIN snap.tunnels |->
        [k \in DOMAIN snap.tunnels[i].peers |->
            [tunnel |-> snap.tunnels[i].name, peer |-> snap.tunnels[i].peers[k]]]])

\* No relay declared: nothing to watch.  The age of the handshake is computed here, the
\* status of the peer may be as old as the snapshot; down since the last handshake.
RelayGiu(snap, now) ==
    IF snap.relay = "" THEN <<>>
    ELSE Fired(Peers(snap),
               LAMBDA p : /\ p.peer.endpoint = snap.relay
                          /\ p.peer.handshake = 0 \/ now - p.peer.handshake > AlActive,
               LAMBDA p : [Alert("wireguard.relay_giu", <<p.tunnel, snap.relay>>)
                              EXCEPT !.since = p.peer.handshake])

RelayNonTrovato(snap) ==
    LET peers == Peers(snap) IN
    IF /\ snap.relay # "" /\ peers # <<>>
       /\ \A i \in DOMAIN peers : peers[i].peer.endpoint # snap.relay
    THEN <<Alert("wireguard.relay_non_trovato", snap.relay)>>
    ELSE <<>>

PeerMaiConnesso(snap) ==
    Fired(Peers(snap),
          LAMBDA p : p.peer.handshake = 0,
          LAMBDA p : Alert("wireguard.peer_mai_connesso", <<p.tunnel, p.peer.name>>))

-----------------------------------------------------------------------------
\* CATALOGO, in its order.  `min` is the wait a rule asks for, as a kind the constants
\* of the registry give a length to.
Regola(key, level, min, on) == [key |-> key, level |-> level, min |-> min, on |-> on]

CATALOGO == <<
    Regola("docker.restart_loop", "warn", "120", TRUE),
    Regola("docker.host_giu", "critical", "60", TRUE),
    Regola("services.systemd_giu", "critical", "60", TRUE),
    Regola("services.windows_giu", "critical", "60", TRUE),
    Regola("services.healthcheck_giu", "warn", "120", TRUE),
    Regola("collector.sorgente_giu", "warn", "0", TRUE),
    Regola("security.api_aperta", "critical", "0", TRUE),
    Regola("resources.nessun_host", "info", "0", TRUE),
    Regola("resources.host_ssh_giu", "warn", "300", TRUE),
    Regola("host.subnet_duplicata", "warn", "0", TRUE),
    Regola("host.default_route_multipla", "warn", "0", TRUE),
    Regola("host.link_giu_con_ip", "info", "300", TRUE),
    Regola("wireguard.relay_giu", "critical", "300", TRUE),
    Regola("wireguard.relay_non_trovato", "info", "0", TRUE),
    Regola("wireguard.peer_mai_connesso", "info", "0", FALSE)>>

Rule(key) == CHOOSE r \in {CATALOGO[i] : i \in DOMAIN CATALOGO} : r.key = key

Prodotti(key, snap, now) ==
    CASE key = "docker.restart_loop" -> DockerRestartLoop(snap)
      [] key = "docker.host_giu" -> DockerHostGiu(snap)
      [] key = "services.systemd_giu" -> SystemdGiu(snap)
      [] key = "services.windows_giu" -> WindowsGiu(snap)
      [] key = "services.healthcheck_giu" -> HealthcheckGiu(snap)
      [] key = "collector.sorgente_giu" -> SorgenteGiu(snap)
      [] key = "security.api_aperta" -> ApiAperta(snap)
      [] key = "resources.nessun_host" -> NessunHost(snap)
      [] key = "resources.host_ssh_giu" -> HostSshGiu(snap)
      [] key = "host.subnet_duplicata" -> SubnetDuplicata(snap)
      [] key = "host.default_route_multipla" -> DefaultRouteMultipla(snap)
      [] key = "host.link_giu_con_ip" -> LinkGiuConIp(snap)
      [] key = "wireguard.relay_giu" -> RelayGiu(snap, now)
      [] key = "wireguard.relay_non_trovato" -> RelayNonTrovato(snap)
      [] key = "wireguard.peer_mai_connesso" -> PeerMaiConnesso(snap)
=============================================================================
