# LAN-Manager in TLA+

LAN-Manager is a dashboard for a home network: a FastAPI backend that collects
devices, services, containers, routers and logs on one asyncio event loop,
serves them over REST and one WebSocket, and edits a few YAML files from the
browser. This directory holds a specification of its core logic, the instances
TLC checks, and proofs for TLAPS.

How to check it:

    tlc -config Services_parts.cfg MCServices.tla         # any run of PROJECT.json
    tlapm CollectorProofs.tla                             # the proofs

`PROJECT.json` lists the components, the runs, for each property a slip of the
code that breaks it, the source lines each definition stands for, the hazards
and the theorems. `src/backend` is written `B/` below.

## 1. Inventory

What the system is made of, what each part keeps, and what can go wrong in it.
The last column names the module.

| Part | State | Operations | What is hard | Module |
|---|---|---|---|---|
| Collector (`B/services/collector.py`) | `_snapshot`, `_slow_task`, `_last_slow`, `_monitor_lock`, per-source state | `run` (fast loop), `_start_slow`, `_collect_slow` and its stages, `refresh_monitor`, `dimentica_servizio`, `rescan_devices`, `publish_cached` | two rounds in flight over one snapshot, a catalogue read before awaits and published after, a lock and a task reference that must not be lost | Collector, CollectorAnswers |
| Services overview (`B/services/services_overview.py`, `service_catalog.py`) | none | build rows and counts from the catalogue and the probes | as above | Collector |
| Service catalogue (`B/services/service_store.py`, `B/routers/services.py`) | `_data`, `services.yaml` | `add`, `remove`, `_save` | read-modify-write by worker threads without a lock, a save that raises | Collector (as a set of rows) |
| Device catalogue (`B/services/device_store.py`, `B/routers/devices.py`) | `_data` (entries, hidden list), `devices.yaml` | `add`, `upsert`, `hide`, `unhide`, `delete`, `_save`, `reload` | the same; one identifier per entry; the hidden mark follows an entry that moves; restarts between memory and file | DeviceStore, DeviceStoreRaces |
| Scanner (`B/services/scanner.py`) | `_lock`, `_registry` | `scan` and its stages, `refresh_catalog` | a scan replaces the registry that edits have updated meanwhile; who finds the lock taken starts no scan | DeviceScan |
| Device registry (`B/services/registry.py`) | rows by IP and by MAC | `upsert` | identity of a device seen by MAC, by IP or both; what is carried over from one scan to the next | Registry; DeviceScan (rows with an IP) |
| Discovery providers (`B/services/discovery.py`) | none | ping sweep, nmap, reverse DNS, SSH, SNMP | I/O and parsing; an answer that was good for the scan before only | Registry (what each writes) |
| Alerts (`B/services/alerts.py`, `B/routers/alerts.py`) | first and last sighting of each alert, the configuration last read | `AlertRegistry.build`, rules, `live_alerts_config`, `silence_alert` | an alert that flaps around the oblivion window and the waiting time; a configuration kept too long; two silences at once | AlertRules, Alerts |
| History (`B/services/history_store.py`) | SQLite tables, memory of the last state of each subject | `mark_devices`, `mark_services`, `record_*`, `compact` | transitions against a memory that is updated before a write that may fail; restart; buckets cut by the threshold | HistoryEvents, HistorySeries |
| Logs (`B/services/log_buffer.py`, `audit.py`, `log_sources.py`, `collector._archivia_log`) | ring buffer with sequence numbers, drain position, audit queue | `append`, `drain`, `tail`, archive | a ring that overflows between drains; lines drained and then lost with a failed write; a page read from two places; a stream that reads the last lines again and again | LogArchive (the backend's log), LogStream |
| Configuration and secrets (`B/services/config_store.py`, `secrets_store.py`, `bootstrap.py`, `restart.py`) | YAML files, backups, generation counter | `save_section`, `update`, `ensure` | read-modify-write of a whole file per section; secrets the browser never sees put back; backups named by the second | ConfigStore, Secrets |
| Authentication (`B/middleware/auth.py`, `B/routers/auth.py`) | signed tokens, login limiter | `login`, `set_password`, request filter | a login and a change of password read the file more than once while worker threads replace it | Secrets |
| Rate limiter and network tools (`B/services/ratelimit.py`, `B/routers/tools.py`) | hits of each key | `hit`, `refund` | sliding window, refund of a hit taken in the meantime by another request; a process whose page has left | ToolRuns |
| Live socket (`B/main.py`, `src/frontend/app.js`) | list of clients; the client's socket and timer | `connect`, `broadcast`, `disconnect`, `connectWS` | iteration over a list that changes during awaits; two sockets of one page | LiveSocket |
| Terminal (`B/services/terminal.py`, `B/routers/terminal.py`) | `_active`; connection, shell, pump and watchdog of each session | open, pump, close | a slot taken before the handshake and given back once by whoever closes first | Terminal |
| SNMP poller (`B/services/snmp.py`) | hosts, previous counters | `poll`, `set_discovered` | poll against replacement of the host list; counters that wrap, change width, start again or are not read; contradicting tables | SnmpRates, SnmpTopology |
| Router clients (`B/services/openwrt.py`) | shared SSH connection, backoff | `run`, `_reset_conn` | one command resets the connection another has just made; a counter that is not answered | RouterSsh, WanRates |
| Docker (`B/services/docker_client.py`) | last outcome of each client | `list_containers`, `list_networks`, `hosts` | two collections over the same clients; one machine under two names; a list that fails in silence | DockerHosts |
| Hosts of SSH (`B/services/ssh_hosts.py`) | configuration last read, detected systems | `live_ssh_config`, `risolvi_os` | a file saved between its stat and its reading; an answer older than the file | SshHosts |
| Host metrics (`B/services/host_metrics.py`) | last reading of each host | `collect` | two collections at once, reboots, failures between two readings | HostRates |
| Health checks, systemd, Windows, WireGuard, WAN | none | poll and parse | I/O and parsing | a probe answers up or down |
| Frontend, translations, nginx, scripts | page state | rendering | none modelled | not modelled |

How they interact. The collector calls every source and owns the snapshot; the
routers read the snapshot, edit the catalogues in worker threads
(`asyncio.to_thread`) and then correct the snapshot by hand
(`dimentica_servizio`, `publish_cached`); the collector broadcasts the snapshot
over the live socket and hands transitions to the history and log lines to the
archive. The hard part of the system is always the same: a value is read, an
await or a thread switch follows, and what was read is published.

What makes each part correct, in a line: one slow round and one manual refresh
at a time, and the overview converges to the catalogue (collector); the counts
are those of the rows (overview); identifiers are unique and an answered edit is saved
unless another thread came in between, hidden devices stay hidden (device catalogue); the page shows the
catalogue and hides what is hidden (scanner); one row per device (registry); an
alert's age is that of its current episode and what is silenced does not ring
(alerts); each transition is written once, and a graph invents nothing (history);
a rate compares two readings that can be compared (SNMP, hosts, uplink); no line is
skipped or archived twice (logs); a save gives no secret to another host and leaves
a backup (configuration); never more than the quota in any window (limiter); every
client that stays is brought up to date (live socket); active sessions never exceed
the limit and every slot returns (terminal).

## 2. Modules

`Collector` – the event loop as seen from the collector. An action is the code
between two awaits.

- `loop`, `due`, `dueSeen` are `run()`: `LoopWake` reads `now` at the top of the
  cycle, `LoopCollected` is the end of the fast collection, where `_start_slow`
  is called if the slow interval had elapsed *on that `now`*, `LoopSent` is the
  end of the broadcast. Time itself is one bit (`IntervalElapses`).
- `stage[p]` is what the round `p` awaits. Slow rounds go host_network, devices,
  docker, services, history, resources, compact; a manual refresh goes docker,
  services, history, resources, send. `_start_slow` and `refresh_monitor` are
  `StartSlow` and `BeginRefresh`: the first tests only the task it started last
  (`slowTask`), the second `_slow_task` and `_monitor_lock`. The "busy" answer
  changes nothing and is no step.
- `seen[p]` is the catalogue the round has read when it began to build the
  overview (`DockerCollected`), published in `OverviewBuilt`, after the awaits
  of the probes; a probe answers up or down. `OverviewFailed` is a build that
  raised: the old section stays.
- `AddService`, `RemoveService`, `PruneSnapshot` are POST and the two halves of
  DELETE: the file in a worker thread, then `dimentica_servizio` on the loop,
  with its own arithmetic on the summary (`Forget`).

`CollectorAnswers` adds three history variables to `Collector`: which
refreshes had begun when each round read the catalogue, and so which of them
are younger than what is on display.

`DeviceStore` – `DeviceStore._data`, `devices.yaml` and the requests that edit
them, each in a thread: look-up (`AddFind`, `EditFind`), change in memory
(`…Mutate`), temporary file (`Dump`), `os.replace` (`Replace`), and the reload
of `refresh_catalog` (`Read`, `Assign`), then the answer. Any save may raise
(`SaveFails`, which leaves the change in memory), the process may stop at any
step (`Restart`). `held` is the object an edit has found: when the list is
replaced or the entry deleted in another thread, the edit goes on with an
object nothing refers to (`Detach`). Of an entry only ip and mac are kept; a
slot is a position in the list; the addresses are those a request can send,
`Keep` for a null, `None` for "", `Bad` for what does not parse. The key of a
request may be `Bad` too: PUT takes any string, and where it finds no entry and the
body gives no address it appends one with the string for its `ip`, which is in
`Keys` for that reason. `_set_identity` lets no other unparsed address in.

`DeviceStoreRaces` – `DeviceStore` with four history variables and no step of its own: which
requests have a look-up the list has moved on from (`stale`), whether an entry was
appended on such a look-up (`mislaid`), in whose way nobody has come (`intact`),
and whether the process has seen no overlap and no failed save (`apart`). What the
catalogue promises is stated in their terms, for requests that overlap.

`DeviceScan` – `DeviceStore` composed with the scanner and the device list of
the snapshot. A scan fills a registry of its own (`reg`): `BeginScan` seeds it
from the catalogue, `Discovered` adds what answers and applies the hidden list,
`Pinged` puts it in the place of `_registry` (`cache`) and publishes it
(`shown`), `EnrichFinds` and `Enriched` are the slow providers. `Assign` is also
`refresh_catalog` of the registry in place; `Respond` also `publish_cached`
and, after an edit of an address, the scan in the background (`rescan`), which
waits where the lock is taken (`RescanWaits`). `overlap` is a history variable.

`Terminal` – the WebSockets of `terminal_ws` with their `TerminalSession` and
its two tasks, and the counter `_active` they share. `at[w]` is what the handler
awaits: a message, the handshake (`connect`, then `shell`), the sending of its
reply, the closing of the socket. `pump[w]` and `dog[w]` are where the tasks of
the session are suspended; `Close` is `TerminalSession.close`, called by all
three, and cancels the tasks: a cancelled task runs no more of its own code. A
failed handshake (`OpenFails`) gives the slot back itself. The browser may leave
at any time (`BrowserLeaves`); the handler finds out only when it reads. `begun`
and `ended` count the audit lines of the session and are history.

`LogArchive` – the log of the backend, each line a number in the order of
logging. `LogBuffer` is `seq`, `flushed` and the set `Ring`; `Drain`, `Written`,
`WriteFails` are the fast loop's `_archivia_log` with the write in its worker
thread; `Restart` empties the buffer and keeps the archive. A record is stamped
before it waits for the handler's lock (`Stamps`). `ReadRing` and `ReadArchive`
are the two readings of the Logs page, with an await in between. `lost` is
history. `LineLife` is the abstract specification: a line is pending until it is
archived or lost, once and for all; `Fate` is the refinement mapping.

`AlertRules` holds each rule of `CATALOGO` as an operator on a snapshot; `Alerts`
the registry: `Round` is `build` on the snapshot of a fast round with the
configuration `live_alerts_config` gives, `SilenceRead` and `SilenceSave` the two
halves of `silence_alert`, `EditFile` an edit of the section or of the file by
hand, `AlRestart` a restart. `alRounds` is history: what each round saw.

`HistoryEvents` – `mark_devices`, `mark_services`, `_potatura_eventi`,
`_prime_stato`: the rows of one change each, the memory of the last state, writes
that raise, restarts from a good file, from one that lost its last transactions,
from one that does not open. `HistorySeries` – one series of one table: points
(`AddTraffic`, `AddHostPoint`), `CompactSeries` (`Aggregate`, `Expire`) and the
graph (`Graph` on the `Grid`). An average is a sum and a count, and `Average` makes it
row by row. The points as they were given and the compaction that found each of them
old are history (`srGiven`, `srFound`).

`SnmpRates` – one interface of one agent: `PollStarts`, `UptimeTold`,
`TablesRead` are the awaits of `_poll_one`, `SetDiscovered` the discovery in
between; a counter of 32 bits is the traffic modulo `SpRound`, which stands for 2^32,
and each reading has the width of the table that answered. A reading may fail with
an `SnmpError`, which forgets the one before (`ReadingFails`), with anything else,
which leaves it (`ReadingSkipped`), or lack the counter (`CounterMissing`); the uptime
may not be told.
`HostRates` – one host and the collections (`HmAsk`, `HmRead`, `Compose`, and
the ways to fail) that a slow round and a refresh may run together. `WanRates` –
`InterfacesCollected` and `TrafficPoint` are the two halves of a fast round;
`InterfaceRows` gives 0 to what was not answered, as `get_interfaces` does.

`SnmpTopology` – `BuildTopology` on any reading of the tables: `LldpLinks` (the
first to announce a device holds it), `FdbLinks`, and `Rings`, which drops, device by
device, the links that close one. `Registry` – the
rows of a scan: `Upsert` with its two indices, the stages of the providers and
what each may write, `CarriedOver` from the scan before, and edits of the catalogue
that `refresh_catalog` applies to the rows in between (`EditCatalogue`). A datum is
the address it is about, so that a datum on the wrong row shows. `NmapHost` finds open
ports or none, for an address that any scan may have left out; SNMP goes through
(`SnmpDone`) or raises or is not installed, and then the summaries carried over stay
(`SnmpSkipped`). Who answered the last time it went through is history (`rgAnswered`);
`RgMuted` are the addresses that never answer it.

`Secrets` – secrets.env, the saves of the Settings page in two halves
(`SaveReads`, `SaveWrites`), the cookies, the attempts, and the event loop, which is in
the middle of one request at a time (`scLoop`): a login checks the password and then
signs the cookie over the hash of that moment (`LoginChecks`, `LoginSigns`), a change of
password is let in, reads the file, replaces it and signs (`PasswordAsked`,
`PasswordReads`, `PasswordWrites` or `PasswordFails`, `PasswordSigns`). A save's thread may
replace the file between any two of these steps; `scOverlap` and `scCrossed` are the
history of it. `ConfigStore` – config.yaml as a list of hosts with a secret each and a
section of networks; a job reads (`SaveHosts`, `SaveNets`, `SaveYaml`, `Setup`,
`RestoreBackup`), copies (`CopyBackup`) and replaces (`Replace`).

`DockerHosts` – `BuildClients` (a client is numbered by its place: 0 the local
socket, then docker.hosts, then the hosts of SSH), then the requests of each collection
(`Lists`, `ListFails`, `ListRefused`, `EngineStats`, `SshStats`, `Networks`), each
of which leaves its outcome on the client, and `CollectDocker`, which merges the
lists and reads those outcomes. `ListRefused` is a `docker ps` that ends with an error,
which leaves none on the client; which clients were refused, and which have answered
another request after their list failed, is history. `SshHosts` – `StatFile` and `ReadFile` of
`live_ssh_config`, with saves in between, and the probe of `risolvi_os`
(`RisolviOs`, `SondaOs`). `LogStream` – `StreamLogs` (the first reading, not
sent), `StreamUnread` (it fails, and what is on the page already is not known) and
`StreamRound`, over the sources `Leggi` reads, which differ in what is left out before
the cut to the last lines and what after. `lsLines` is the number of the request as it
came: `Cut` makes of it the lines of a reading and `Memory` those remembered, each in
its own way, so that a request for 0 lines reads 200 and remembers 4.

`RouterSsh` – the lock and the semaphore as queues of callers, the connections
as names: `GotLock`, `ConnectSucceeds`, `ConnectFails`, `StartCommand`,
`CommandDone`, `CommandGivenUp`, `CommandFailsOnce`, `TryAgain` are the steps of
`run` between its awaits. `LiveSocket` – `lwActive` is the list of clients,
`NextSend` one turn of the loop of `broadcast` over the list as it is then, two
broadcasts at a time. `ToolRuns` – the hits of one client in the window, the
requests that await the check of their target, and the process of each, which
`Ended` kills. Both, as `HistoryEvents` and `AlertRules`, take elements out of a list with
`Picked` of `Subsequences`: what `SelectSeq` gives, written by the places kept and without recursion, so that it
can be reasoned about.

`MCReadings` and `MCServices` put these parts in one specification each. The
parts of either share no state in the code, so one part runs in a behaviour
(`part`, `serving`) and the others stay in their first state: the states add up
and are not multiplied, and what is checked of a part is what a run of its own
would show. Where state is shared the module composes it itself
(`DeviceScan` with `DeviceStore`, `Alerts` with the configuration file,
`Terminal`'s sessions with their counter, `DockerHosts`' collections with their
clients).

`MCCollector`, `MCCollectorAnswers`, `MCDeviceStore`, `MCDeviceStoreRaces`,
`MCDeviceScan`, `MCAlerts`,
`MCDocker`, `MCWan` – definitions the configurations give to constants. Theorems:
`CollectorProofs` (of `Collector`, `CollectorAnswers`), `DeviceStoreProofs` (of
`DeviceStore`, `DeviceStoreRaces`, `DeviceScan`), `LogArchiveProofs` (of `LogArchive`, `LogStream`),
`ConnectionProofs` (of `Terminal`, `RouterSsh`, `SshHosts`, `DockerHosts`),
`RatesProofs` (of `HostRates`, `WanRates`, `SnmpRates`, `SnmpTopology`,
`HistorySeries`), `SettingsProofs` (of `Secrets`, `ConfigStore`), `ListProofs` (of
`LiveSocket`, `ToolRuns`, `HistoryEvents`), `FindingsProofs` (of `Registry`,
`Alerts`). The parts that only run inside `MCReadings` and `MCServices` have
a specification of their own for the theorems (`RoSpec`, `ShSpec`, `DkSpec`,
`HmSpec`, `WnSpec`, `SpSpec`, `TpSpec`, `SrSpec`, `EvSpec`, `RgSpec`, `AlSpec`, `LsSpec`,
`ScSpec`, `CfSpec`, `LwSpec`, `TlSpec`): initial states and next-state relation of the
part, as the run composes them. Operators
marked "Slip" are bugs the code could have had: `PROJECT.json` puts each in place of the definition before which it
stands, and TLC then finds the property violated.

## 3. Runs

| Run | Instance | Distinct states | Shows |
|---|---|---|---|
| `collector_progress` | 1 service, 2 slow tasks, 2 refreshes, fairness | 60 000 | at most one slow round, known to `_slow_task`, and one refresh, which holds the lock; the summary counts the rows; a refresh answers with an overview read after it was asked for (unless its own build raised); the overview catches up with the catalogue; slow rounds go on for ever |
| `store_edits` | 1 IP, 1 MAC, a key that is no address, 2 entries, 2 requests that may overlap, 1 failed save, restarts | 578 000 | identifiers are unique in memory and on disk until an entry is appended on a stale look-up; a change that is answered is in both, unless another request has written in the meantime; the hidden mark follows an entry that moves, and no other |
| `scan_scans` | 1 IP, which may answer, a key that is no address, 1 entry, all edits, fairness | 227 000 | after a scan no edit overlapped, the page is exact; whatever an overlapping edit loses, later scans restore; an address that left and does not answer leaves the page |
| `readings` | the twelve parts of `MCReadings` | 1 527 000 | see below |
| `services` | the six parts of `MCServices`, fairness | 87 000 | see below |
| `collector_deleted`, `store_delete_hidden`, `scan_moved`, `averages`, `silences`, `backoff`, `wan_holes` | small | counterexample | see 6 |

What `readings` shows, part by part.

- events (`EventsTell`): rows of one subject alternate and the memory is the last
  row, through failed writes, power cuts, restarts and pruning, which never
  changes the answer of `device_states`.
- series (`SeriesHonest`): the rows are, at any hour of the compactions, the points
  no compaction has found old and, for each bucket, the average of the points of it that
  the last compaction to find any of them found; a graph shows the rows there are and no
  other. A bucket cut in two by the threshold so loses its first points: the
  property says which, and `averages` that it happens.
- alerts (`SinceIsEpisode`, `ListedRight`): the beginning shown is that of the
  current episode; what stayed for its waiting time rings, what the file
  silences does not, from the first round after a save on.
- rates (`RateHonest`), hosts (`WindowHonest`), uplink (`WanHonest`): a rate
  compares two readings that can be compared, in their order, and is what passed
  between them; an SNMP rate may span rounds that were skipped, and never a reading
  that failed.
- topology (`TopologyForest`): the links are a forest whatever the tables say, and
  none is dropped without a ring.
- registry (`DevicesExact`): one row per device, and nothing on a row that is
  about another, in any order of the sources; a summary is of who answered the last
  time the SNMP provider went through, which may be some scans ago.
- secrets (`SecretsKept`): a save changes what was sent and a change of password the
  hash, unless another writer comes in the middle; the change ends every session, and
  who made it gets a new one.
- docker (`DockerHonest`): a container once, and the containers of every host shown in
  reach, but for a host that answered later than its list or whose `docker ps`
  ended with an error.
- stream (`StreamHonest`): each line once, none that is to be left out, and none
  missing that a reading could reach; what a failed first reading, a clock ahead or a
  request for 0 lines change of that is named.
- ssh (`HostsCurrent`): a use gets the file as it was when it began or newer.

What `services` shows.

- terminal (`LimitKept`, `ClosedCleanly`, `SlotsFreed`): sessions within the
  limit; one closing line each and nothing left running; a browser that leaves, a
  shell that ends and an idle session free their slot.
- log (`LinesAccounted`, `PageWhole`, `LinesSettle`): no line archived twice or
  skipped in silence; the page shows ring and archive without doubles and gaps;
  each line has the life `LineLife` says.
- router (`OneConnection`, `RunAnswers`): one connection at most, none left open
  behind; every command is answered.
- pages (`UpdateReachesAll`, `PageCatchesUp`): a broadcast reaches everybody
  unless the list shrank under it, and then the next one does.
- config (`SecretsStay`, `BackupKept`): no host gets the secret of another, and
  what the file held is in a backup.
- tools (`WindowKept`, `CommandsEnd`): the quota holds in every window; no process
  outlives its time or its page.

Some properties except what the code cannot tell (a counter that went round
twice, two saves within one tick of the file's clock, a refund that took the hit
of another request). Each exception is a conjunct of the property with a name,
and section 6 lists the ones a maintainer may want to remove.

Why the bounds are enough to be interesting. Two slow tasks are needed for one
round to be lost behind another, two refreshes for one to compete for the lock.
In the store two slots, an IP and a MAC let an edit collide with another entry and let
an entry change the field that identifies it, and one failed save is enough
for memory and file to differ while any later operation runs. Of two requests one does
everything and the other adds and edits, which is what comes in the way. `Bound`, a
CONSTRAINT, keeps the states where they have overlapped to one address and no failed
save, and those after a failed save to one request at a time and addresses that parse:
a race is about one entry and one address, and what one request does alone is run
without that limit, up to the failed save included. No entry moves to another address
while requests overlap in these bounds, so the exception of `HiddenFollows` for
requests in between is one the proof needs and the run does not meet. In the scan runs
one entry that may move between an address discovery can find and a key it cannot
covers both ways of being on the page. In the terminal two WebSockets want
one slot, and a socket may come back after it has gone. A ring of two under four
lines overflows before, during and after a drain, with a restart between any two
steps; two ms and a delay of one let two lines share a millisecond, differ, or
come in the wrong order.

In `readings`: three rows and a retention of one day let pruning take a row that
is, or is not, the last of its subject; a bucket of two under a threshold that
moves by one is cut at either point; three worlds of what is wrong fire every
rule, and windows of one under a clock of three let an absence be shorter or
longer; counters go round at two, so one reading of two octets wraps; three
devices are the least for a ring that is not a pair; two addresses with one MAC,
and an entry of a MAC alone, are what `Upsert` may confuse, one of them without an SNMP agent; two collections, two
browsers, two callers are the two actors of each race; a file with or without each secret
and one value more is a change of password that undoes a save; a reading of one line
under three written is a cut, and a memory of one under the two of a request for 0 is
emptied; two interfaces and three points of the
uplink allow a round without it between two with it. In `services`: two callers
and four connections let a dropped one be replaced and dropped again; two clients
under two broadcasts let one leave while the other is awaited; two hosts, lists in
both orders and two jobs let a secret land by place; four requests under a quota
of two overfill a window.

Bounds by name: `MaxLines`, `MaxMs`; `EvDays`, `EvMaxRows`; `SrMaxTime`;
`AlMaxTime`, `AlMaxRounds`, `AlMaxWrites`; `SpMaxOctets`, `SpMaxTime`;
`WnMaxOctets`, `WnMaxRounds`; `HmMaxTime`; `ScMaxValue`, `ScMaxTime`, `ScTries`;
`LsMaxLines`, `LsMaxTime`; `ShMaxSaves`, `ShMaxTicks`; `RoMaxTime`; `LwMaxChange`;
`CfMaxTime`, `CfMaxWrites`; `TlMaxTime`; in the store `Slots` bounds the list
and `SaveErrors` the failed saves. The other variables are finite by themselves.

`DeviceStore` has symmetric slots and IPs (safety only). No run with a liveness
property uses symmetry. Deadlock is checked in the runs of the collector, the
store and the scanner; in the parts a behaviour stops where a bounded clock or a
bounded number of writes does.

Fairness. `Collector`: weak fairness of each step of the loop, of the rounds, of
the prune and of time, which is what the event loop gives (every await is a
subprocess, a request or a sleep with a timeout). Strong fairness of
`OverviewBuilt` says the build does not raise for ever: it raises only while
`services.yaml` cannot be parsed, every probe turning its own failure into a
row that is down. There is no fairness on edits, refresh clicks or failures.
`DeviceScan`: scans end and the slow round starts others (what
`SlowRoundsGoOn` shows of the collector), requests that have begun go through;
no fairness on edits or on what discovery finds. Hence `ScansCatchUp` says of a
hidden device only "again and again": between a slow provider's finding and the end of the
scan the row has no mark, and discovery may find it in every scan.
`Terminal`: handshakes end and what is sent is delivered or dropped, because
`asyncssh.connect` has a timeout and uvicorn pings the WebSockets; `create_process`
has no timeout, and there the host is *assumed* to answer or to drop the
connection (a host that does neither keeps a slot for good). A handler whose
browser has gone fails to read and leaves. Nothing is assumed of a browser that
stays. `LogArchive`: the fast loop goes round and a write returns or raises;
nobody has to log, to read or to restart. `RouterSsh`: a connect and a command end,
since asyncssh has a timeout for the one and `run` for the other. `LiveSocket`: a
send returns or raises, and the fast loop broadcasts again. `ToolRuns`: the server
gives a response its body or closes it, and the timeout of a command expires;
nothing of the process or the page.

## 4. Proofs

`CollectorProofs`, for any finite set of rows and any tasks and requests:

- `TypeCorrect` – `TypeOK`, with the counters natural numbers.
- `SlowRoundsExclusive`, `RefreshesExclusive`, together `RoundsStayExclusive` –
  `RoundsExclusive` is `OneSlowRound` and `OneRefresh`. The first is inductive with
  `TypeOK`: a task starts only when the last one is off, and only `StartSlow` turns
  one on. `OneRefresh` likewise; its first conjunct (the lock is held exactly while
  a refresh runs) is what makes the second one inductive.
- `SummaryCorrect` – `SummaryMatchesRows`, assuming `NamesUnique`. The UI keeps
  (kind, name) unique; a `services.yaml` written by hand need not, and then the
  property fails: `Forget` drops two rows and counts one. The argument is a
  lemma on `Forget` over finite sets: it preserves `Counted`. `view` changes
  only in `OverviewBuilt` (counted by construction) and `PruneSnapshot`.
- `AnswersStayFresh` – the action property `AnswersFresh` of `ASpec`. The invariant:
  a round that builds has read the catalogue after every refresh alive had begun
  (`BuildsAreYoung`), and a refresh past its own build is in `current` or `failed`
  (`AnswerIsReady`). The first stands because a refresh begins only when no
  round runs, which is `RoundsExclusive` and the two guards of `refresh_monitor`; so a
  slow round that publishes in the middle of a refresh is younger than it.

`DeviceStoreProofs`, for any addresses, slots and bound on errors:

- `TypeCorrect` – for any number of concurrent requests. Beside the parsed addresses
  only one kind of string enters the catalogue: the key of a PUT that nothing knows,
  alone on the row `upsert` appends for it (`Keys`, `Row`). What is about to be set as
  an address has been parsed (`AddParsed`).
- `IdentityUnique` – `UniqueIdentity` of `DeviceStoreRaces`, for any number of edits that
  overlap as they like, with failed saves and restarts. It is not inductive alone: a
  thread appends what it validated earlier. The invariant `RaceInv` adds that a
  look-up the list has not moved on from since is still true, and that of a request
  nobody disturbed is still of its entry (`Lookups`); and that the catalogues about
  to be saved are unique like the two that are (`AllUnique`). An entry appended on an
  older look-up is what `mislaid` marks, and the theorem says that nothing else
  makes the catalogue ambiguous.
- `HiddenFollowsEdits` – the action property `HiddenFollows`, from the same
  invariant: of a request nobody got in the way of, in a catalogue that was
  unambiguous.
- `ChangesKept` – `ChangeKept`, for any number of edits that overlap as they like. The
  invariant adds, for a request nobody got in the way of since it came in, what it
  has achieved before it answers: after a dump the temporary file is the memory,
  after `os.replace` the file is, and what a reload has read is what it will assign
  (`Answers`). For a hide it holds while no two requests have overlapped and no
  save has raised (`apart`, `OneAtATime`): then the hidden marks differ between memory
  and file only while a save is pending, and otherwise `hide` may find in memory
  a mark that is not saved. DELETE is not in it: see `store_delete_hidden`.
- `UndisturbedScansExact` – `UndisturbedScanExact` of `DeviceScan`, assuming
  `OneRequest` and `SaveErrors = 0`, as the run does. The invariant `ScanInv`: the
  registries hold well-formed rows (`Registries`), the file lists nothing that memory
  does not but while a change is being written (`FileBehind`), and at every stage of
  a scan that no edit has overlapped its registry holds the catalogue, with the
  hidden mark up to date wherever the stage is past the one that sets it
  (`ScanCovers`).

`ConnectionProofs`, the terminal first, for any finite set of WebSockets and any limit:

- `TypeCorrect` – inductive by itself.
- `SlotsExact`, `LimitHolds` – `SlotsCounted` and `LimitKept`. The counter
  changes with the set of occupants one socket at a time: `OpenStarts` adds one,
  `OpenFails` and `Close` (of a session that has a shell) take one away, and two
  lemmas on cardinality say so. What makes it inductive is `Phases`, which tells
  for each stage of the handler what its session may have: during a handshake
  there is no shell and no task, a session that is over has nothing.
- `OneClosing`, `NothingRunning`, together `SessionsCloseCleanly` –
  `OneClosingLine`, `NothingLeftRunning` and their conjunction `ClosedCleanly`,
  from `Phases`.

`LogArchiveProofs`, for any capacity of the ring, any bounds and any delay:

- `TypeCorrect` – it includes that the mark is never ahead of the lines.
- `NeverArchivedTwice`, `NoLineSkipped`, together `LinesStayAccounted` –
  `ArchivedOnce`, `NothingSkipped` and their conjunction `LinesAccounted`.
  The strengthening: what is archived or on its way is not beyond the mark, what
  is on its way has no row (`MarkBounds`), and what was lost neither waits nor
  is on its way (`LostForGood`).
- `PageShowsTheWhole` – `PageWhole`, from two invariants of its own: no line is
  stamped more than `Late` after one logged later (`InTurn`), and what the ring
  did not hold when it was read precedes what it held (`RingOnTop`).
- `ImplementsLineLife` – the safety part of the refinement `LinesSettle`: initial
  states map to initial states, each step to a step or a stutter. That lines
  settle in the end is left to TLC.
- `StreamStaysHonest` – `StreamHonest` of `LogStream`, for any number of lines a page
  may ask for, any log and any clock of its source. The invariant `StInv`: a reading
  finds a log that only grows (`ReadsRise`), the memory never holds more than it may
  unless 0 lines were asked for, so a round that fails does not empty it
  (`MemoryBounded`), and what it holds was read (`SeenWereRead`); and where the clock
  is within the tolerance, what was read and can be read again is in it
  (`ReadRemembered`). The last is why no line comes twice, and it rests on a count:
  the lines kept of one reading are no more than the cut, which is no more than
  the memory. A request for 0 lines is excepted: the reading is cut at 200 and the
  memory at 4.

`ConnectionProofs`, the connections to others:

- `ConnectionStaysOne` – `OneConnection`, for any finite set of callers and more
  connection names than callers (`ConnsEnough`: a new connection is none of
  those still held). Not inductive alone: two callers could be connecting at once. The
  strengthening is what the lock and the semaphore are for: each caller stands once
  in the queue of what it awaits and in no other (`InLine`), and who connects or
  runs is at the head (`AtWork`). `RouterTakesTurns` and `RouterQueuesExact`
  state the two as results: one attempt and one command at a time, and no path of
  `run` leaves a turn behind.
- `HostsStayCurrent` – `HostsCurrent`, for any versions of the file. What a call
  knows at each of its steps (`CallKnows`), the times of the versions rise with
  their numbers, and the mtime remembered is not later than that of the version
  remembered (`CacheOlder`): the stat comes before the reading.
- `DockerStaysHonest` – `DockerHonest`, for any configurations, machines and
  overlapping collections. A client whose list failed in this collection and that
  has no error now has answered another request since (`later`); the containers
  of one that neither failed nor was refused are all there (`JobHonest`). A list that
  was refused, because `docker ps` ended with an error, is no declared failure in the
  code: `DockerHonest` excepts it by name, with the former, as `unlisted`. `Merged`
  keeps the first of each container because a set of client numbers has a least one.

`RatesProofs`:

- `RatesCompareReadings`, `RatesInRange` – `WindowHonest`, and that a rate is a
  percentage. Two readings of one boot are ordered in both of their counters, those
  on their way (`JobsRead`) and the one of the window (`Window`); what closes a
  window forgets it.
- `UplinkStaysHonest` – `WanHonest`, for any list of interfaces. The counter of an
  interface that did not start again is what it carried, and that of one that did
  differs by a constant, for the router (`CountersTell`), the rows of the round
  and the last point (`RowTells`).
- `SnmpRatesHonest` – `RateHonest`, for any `SpRound` (2^32 in the code), a width of the
  counters that may be another at each reading, and polls that raise what `poll`
  swallows, after which the reading before them stays. The reading kept is the
  traffic since its boot, modulo the round where it is of 32 bits (`PrevShows`),
  and a host that was dropped is marked as long as something of it stays
  (`LeftBehind`). The arithmetic is a lemma (`RoundFacts`): two readings less than a
  round apart differ by what passed or by that less one round.
- `TopologyStaysForest` – `TopologyForest`, for any number of devices and any tables.
  A ring is a set of devices each of which hangs on another of the set, so a
  forest is one without such a set, and a link that closes a ring comes with the set
  that says so (`Rings`). The induction is over the turns of `BuildTopology`:
  what the first turns keep is a forest, and each link left out would close a ring with
  some of them (`TpBuilt`), which more links do not mend.
- `SeriesStaysHonest` – `SeriesHonest`, for any lengths of bucket, raw window and
  retention, any periods, steps and `max_points`, and compactions at any hour. The
  invariant `SrInv` accounts for each point (`PointsAccounted`): until a compaction
  finds it old its row stands as it was written (`PointsStay`); from then until it
  expires its bucket has an average (`BucketsStand`), which is that of the points of
  the bucket found old by the last compaction that found any, of all of them and
  of no other (`RowsExact`). That a bucket cut in two loses its earlier points from the
  average is thus part of the statement, and section 6 says so. An average is of the
  past, so no new point falls on it (`OldAverages`), and what has been found old is
  what is older than the threshold of the last compaction (`FoundOld`). What a graph shows follows from the types
  and the arithmetic of buckets: `BucketsInOrder`, and `GridFacts`, which counts the
  grid by its places.

`SettingsProofs`:

- `SecretsStayAsSent` – the action property `SecretsKept`, for any keys, browsers and
  values. What a save of the page has read is the file, unless another writer has
  replaced it since, and so is what the event loop has read for a change of password
  (`SavesRead`, `LoopReads`); no value is given twice (`ValuesGiven`); and from the
  write of a change to its end no session made before is valid, unless a save has
  brought the old secret back (`AllOut`).
- `SecretsStayTheirs` – `SecretsStay`, for any hosts, lists a page can send
  (`PagesSend`) and number of jobs. Every configuration in the file, the backups and
  the jobs gives each host its own secret or none (`OwnConfigs`, in `CfTypes`); that
  `_merge_secrets` keeps it so is a lemma on `Sources` and the merge.
- `BackupsStay` – `BackupKept`: what was copied, and what the file held before, is in a
  backup or was lost in one of the two named ways (`CopiesSaved`, `PastSaved`).

`ListProofs`:

- Lemmas on `Picked` that both parts need: it is a list of the same things, as long as
  the places are many (`PickedType`), the list itself where every place is kept
  (`PickedAll`), and keeps what it picks, number by number (`PickedAbove`). They
  rest on the k-th place of a set (`NthExists`), which takes the least of the
  numbers at which enough places have come up.
- `BroadcastsReachAll` – `UpdateReachesAll`, for any number of clients and of broadcasts
  under way. While a broadcast is not marked as shortened, each client it owes its
  message to has a place in the list, and if the iteration has come by that
  place, what it has got is as new as the beginning of the broadcast (`Reached`): a list
  that only grows moves nobody, and no message is older than one before it
  (`NotAhead`).
- `QuotaHolds` – `WindowKept`, for any number of requests, quota and window. The
  hits say nothing of which request each is for, so the invariant counts:
  after any time that is not forgotten there are at least as many hits as
  requests let through (`HitsCount`). A refund of a hit of one's own time
  takes one from each side.
- `EventsToldRight` – the action property `EventsTell`, for any subjects, retention and
  number of rows. `EvInv`: the rows are in the order of their days and alternate, and
  while the history is open the memory of a subject is its last row, unless the
  write of it failed. Pruning takes of each subject the beginning of its rows and never
  the last; a power cut takes the end of the list, and the memory is then read back.

`FindingsProofs`:

- `RegistryExact` – `DevicesExact`, for any addresses, MACs and catalogues (a catalogue
  lists entries with an address or a MAC), edits of the catalogue at any time, any
  order of the stages, providers that fail and addresses taken out of the port scan.
  A summary is of a device that answered when the SNMP provider went through its list
  last, which is not the last scan if that one skipped or failed it. What makes it
  inductive is that the indices are exact (`RegistryRight`): a device with an address
  is where the index has it and nowhere else, and one without is the first with
  its MAC. It is carried through `Upsert` and each provider, for the registry of the
  scan and for the one it takes over from.
- `AlertsSinceEpisode`, `AlertsListedRight` – `SinceIsEpisode` and `ListedRight`, for any
  snapshots, rules that raise, configurations, waiting times and oblivion. `AlInv`
  says what the registry remembers in terms of the rounds behind: of each
  alert it knows, the beginning of its episode and the last sighting, and of each it has
  forgotten, that the last episode was broken (`Remembers`); since when a source has
  not answered (`SourceRight`); and that a cached configuration that seems
  fresh is the one in the file, because an edit moves the mtime and a save the count of
  saves (`CacheRight`).

Assumptions on constants say what the values stand for: kinds of configuration
(`ConfigsListed`, `VersionsSay`, `InterfacesListed`, `ChangesListed`,
`TemplateListed`, `RgCataloguesOfEntries`, `TpNeighbours`, `AlSnapshots`,
`AlEditsOfConfigs`), devices numbered in the order of the host list
(`TpDevicesNumbered`), markers that are no values (`NoneAndMask`, `RgKeysApart`,
`EvKinds`), positive durations, cuts and rounds (`SrLengths`, `LsCuts`). TLC evaluates each on its
runs. `OneRequest` and `SaveErrors = 0` are hypotheses of `UndisturbedScansExact`
alone, and hold of the instance in its run: a scan is compared there with a
catalogue that is one, in memory and on disk, once its edits have answered.

Each proof has a lemma for the initial states, one for the steps with a step
for each action, and a temporal conclusion. Where a model goes through data one by one
(`BuildTopology`, `Average`), it does so with a recursive function over an interval,
and the induction is by the least number at which a claim would fail: the
library's induction theorems take an operator, which no prover here can
instantiate.

Only model-checked, and why:

- the liveness properties, which need fairness and ENABLED: `OverviewCatchesUp`,
  `SlowRoundsGoOn`, `ScansCatchUp`, `SlotsFreed`, `RunAnswers`, `PageCatchesUp`,
  `CommandsEnd`, and of `LinesSettle` that a line settles in the end;
- the runs that end in a counterexample, which are claims the code does not keep;
- the type invariants `ReadingsTypeOK`, `ServicesTypeOK`, of which the parts with a
  theorem have their own types proved as a conjunct of the inductive
  invariant. The backoff of `RouterSsh` is left out of it: it is a power of two.

## 5. What is left out

- Of the collector: the contents of the sections no property is about, and the
  composition of its rounds with the parts that have a module of their own
  (the drain of the log, the SNMP poll, the alerts, the uplink). `get_snapshot`
  collects by itself only when no snapshot exists, which the application's
  start-up (`run` first) never lets happen. An exception out of the fast
  collection, which `run` logs before it sleeps, is not a step of its own.
  The limit on refresh clicks only removes behaviours.
- A manual refresh and a slow round may overlap when the loop starts the round
  second; the older reading may be assigned last. This is in the model.
- Containers: discovered, never removed by hand, the same number in each count.
- `DeviceStore` takes the change in memory after the look-up as one step: it
  has no file operation in it. Descriptive fields are overwritten as a whole.
- `Terminal`: the list of hosts, what is typed and printed and its audit; the
  cancellation of the handler at the server's shutdown.
- `LogArchive`: the audit queue (drained likewise, but its lines stay in
  `config/audit.log`), excluded lines, the retention of the archive and the
  limit on the rows read, the following of the log by sequence number.
- `DeviceScan`: devices with an IP only, no failed saves and no restart; what a row
  holds and the providers one by one are in `Registry`, where the catalogue changes
  at any time but an edit does not save, and one scan runs over the one before.
- `Alerts`: wording, order, the levels a configuration may impose. `HistoryEvents`:
  a clock that goes back. `HistorySeries`: one series; the SNMP series are
  aggregated by the same code.
- `SnmpRates`, `HostRates`, `WanRates`: one interface or counter, one direction;
  the quotient by the time; in `WanRates` interfaces that share a device.
- `Secrets`: a password in the environment; a change of password reads the file for
  its two checks in one step.
  `ConfigStore`: the other sections, edits by hand, the schema.
- `LogStream`: the parsers but for the time, the counts of a page. `SshHosts`: what
  is declared of a host is one version, hosts beside the one are left out.
- `DockerHosts`: the actions on a container; the reading of an answer.
- `LiveSocket`, `ToolRuns`, `RouterSsh`: contents of messages, of commands and of
  their output; the timers of the page.

Not modelled: the service probes (stateless I/O and parsing: what they answer is an
input), the frontend, translations, proxy and scripts (rendering and
configuration), the parsing of every command's output, and `services.yaml` as a
file, which its store edits in threads as `DeviceStore` does with `devices.yaml`.

## 6. Where code and documentation part

Seven runs end in a counterexample; each is a finding in `PROJECT.json`.

- `collector_deleted`: a round reads `services.yaml`; DELETE rewrites the file,
  prunes the snapshot and answers; the round publishes the row again. The tests
  and docstrings say it disappears at once. `OverviewCatchesUp` shows that
  the next rounds repair it.
- `store_delete_hidden`: `delete` counts on `hide` to save, and `hide` does not
  save what is hidden already: the entry of a hidden device comes back with the
  reload that follows.
- `scan_moved`: the scan an edit starts finds the lock taken by a scan seeded
  before the edit, waits for it and starts none.
- `averages`: a compaction cuts a bucket in two, and the next one puts the average
  of the rest in the place of the average of the beginning.
- `silences`: two silences at once read the same list, and the later save drops the
  earlier silence, which had answered ok.
- `backoff`: whoever waits for the lock behind a failed connect tries at once.
- `wan_holes`: a counter that was not answered counts 0, and the next round draws
  the whole counter as the traffic of one interval.

The models show other behaviour a maintainer should know. Of overlapping edits, in
`store_edits`: two adds of one address both find it free, which `UniqueIdentity`
excepts as `mislaid`, and the reload of one request undoes the change of another that
still answers with success, which `ChangeKept` excepts because that request is not
`intact`; without the exceptions TLC shows both. A hide repeated after a failed save
answers without saving (`apart` in `ChangeKept`). A PUT whose key is neither known nor
a MAC appends an entry whose address is that string (`Bad` in `Row`). A device added during
the first stages of a scan, or hidden during the pings, is off (on) the page until the
next scan (`CataloguedShown`, `HiddenNotVisible` as invariants of
`DeviceScan_scans.cfg`). With two rows of one name (`NameOf` constant) the
summary is wrong after a DELETE (`SummaryMatchesRows`). An edit refused with 400
that was addressed to an unknown identifier leaves the new entry in memory
(`EditMutate`), and a device deleted and then added again is still hidden
(`AddMutate` leaves `hidden` alone).

What the properties of `readings` and `services` except by name, because the code
does not tell:

- `RateHonest`: an agent that starts again between the question for its uptime and
  that for its counters (or that does not answer the first), or whose host is dropped in
  the middle of a poll; a counter of 32 bits that went round twice between two readings,
  or once before the first reading of 64 bits.
- `WindowHonest`: a boot hidden by a longer uptime. `WanHonest`: a counter of the uplink
  that was not read.
- `DevicesExact`: a summary kept while the SNMP provider is skipped or fails, and the
  ports of an address that has since been taken out of the port scan.
- `DockerHonest`: `docker ps` that ends with an error leaves `last_error` empty, so the
  host is shown in reach without its containers, against what `docker_client.py` says
  of `last_error` (`unlisted`).
- `SeriesHonest`: the first points of a bucket cut by a compaction (`averages`).
- `StreamHonest`: a line the same as another in second, sender and text, one pushed out
  by as many as the cut, a router whose clock is ahead, a request for 0 lines, and a
  first reading that fails: the next round sends the whole log, which the page has.
- `SecretsKept`: a save of the secrets or a change of the password that another writer
  overlaps. The later of the two undoes the other, and a save in the middle of a
  change brings the old hash and the old sessions back.
- `HostsCurrent`: two saves within one tick of the file's time. `BackupKept`: a
  configuration replaced between copy and write, or twice in a second. `WindowKept`: a
  refused request that gives back the hit of another. `EventsTell`: a failed write of
  an event, whose row is never written.

## 7. Plan

Done: all modules of section 2, their runs, and the proofs of section 4: each safety
property that a passing run checks is proved, but for the two type invariants of the
composed runs. Left, if they come to answer a question the modules there do not:
`services.yaml` as a file, and the page's side of the live socket.
