------------------------------ MODULE MCAlerts ------------------------------
(* Snapshots with one thing wrong, or two, for each rule of the catalogue.  *)
EXTENDS Alerts

Quiet == [
    containers |-> <<[host |-> "h", name |-> "c", status |-> "running"]>>,
    dockerHosts |-> <<[name |-> "h", reachable |-> TRUE, seen |-> TRUE]>>,
    systemd |-> <<[host |-> "h", name |-> "u", critical |-> TRUE, ok |-> TRUE]>>,
    windows |-> <<>>,
    healthchecks |-> <<>>,
    sources |-> <<>>,
    sourceDown |-> FALSE,
    security |-> <<>>,
    noHosts |-> FALSE,
    devices |-> <<[online |-> FALSE, ips |-> {"ip2"}]>>,
    hosts |-> <<>>,
    interfaces |-> <<>>,
    routes |-> <<>>,
    tunnels |-> <<>>,
    relay |-> ""]

Peer(name, endpoint, handshake) ==
    [name |-> name, endpoint |-> endpoint, handshake |-> handshake]

Card(name, state) == [name |-> name, virtual |-> FALSE, state |-> state, nets |-> {"net"}]

Worlds == [
    services |-> [Quiet EXCEPT
        !.containers = <<[host |-> "h", name |-> "c", status |-> "restarting"],
                         [host |-> "k", name |-> "c", status |-> "restarting"]>>,
        !.dockerHosts = <<[name |-> "h", reachable |-> FALSE, seen |-> TRUE],
                          [name |-> "k", reachable |-> FALSE, seen |-> FALSE]>>,
        !.systemd = <<[host |-> "h", name |-> "u", critical |-> TRUE, ok |-> FALSE]>>,
        !.windows = <<[host |-> "w", name |-> "u", critical |-> FALSE, ok |-> FALSE],
                      [host |-> "w", name |-> "v", critical |-> TRUE, ok |-> FALSE]>>,
        !.healthchecks = <<[name |-> "c", ok |-> FALSE], [name |-> "c", ok |-> FALSE]>>],
    network |-> [Quiet EXCEPT
        !.security = <<[setting |-> "auth.method"], [setting |-> "auth.password"]>>,
        !.hosts = <<[ip |-> "ip1", reachable |-> FALSE, skipped |-> FALSE],
                    [ip |-> "ip2", reachable |-> FALSE, skipped |-> FALSE]>>,
        !.interfaces = <<Card("e0", "up"), Card("e1", "down")>>,
        !.routes = <<[default |-> TRUE, metric |-> 1], [default |-> TRUE, metric |-> 2],
                     [default |-> TRUE, metric |-> 1]>>,
        !.relay = "r",
        !.tunnels = <<[name |-> "wg", peers |-> <<Peer("p", "r", 1), Peer("q", "", 0)>>]>>],
    source |-> [Quiet EXCEPT
        !.sourceDown = TRUE,
        !.noHosts = TRUE,
        !.relay = "r",
        !.tunnels = <<[name |-> "wg", peers |-> <<Peer("q", "s", 2)>>]>>]]

Waits == [kind \in {"0", "60", "120", "300"} |->
            IF kind = "0" THEN 0 ELSE IF kind = "300" THEN 2 ELSE 1]

Breaks == {"host.link_giu_con_ip"}

Edits == {
    [NoConfig EXCEPT !.enabled = FALSE],
    [NoConfig EXCEPT !.off = {"docker.restart_loop"}, !.on = {"wireguard.peer_mai_connesso"},
                     !.waits = [k \in {"services.healthcheck_giu"} |-> 3]]}

SilenceSet == {[rule |-> "docker.restart_loop", subject |-> ""],
               [rule |-> "services.healthcheck_giu", subject |-> "c"]}
=============================================================================
