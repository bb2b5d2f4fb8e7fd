----------------------------- MODULE DeviceScan -----------------------------
(***************************************************************************)
(* The scanner (backend/services/scanner.py) and the device catalogue it   *)
(* shows: DeviceStore composed with the scans that run on the event loop   *)
(* and with the device list of the snapshot.                               *)
(*                                                                         *)
(* A scan fills a registry of its own: seeded from the catalogue, filled   *)
(* by the router and the ping sweep, marked with the catalogue's hidden    *)
(* list, pinged, and only then put in the place of _registry, which is     *)
(* what an edit of the catalogue brings up to date (refresh_catalog) and   *)
(* publishes.  From then on the two are one object, which the slow         *)
(* providers go on filling.                                                *)
(*                                                                         *)
(* A device is its address: of the registry (backend/services/registry.py) *)
(* this module keeps the rows with an IP, for which an observation and a   *)
(* catalogue entry meet on the IP alone.  The key an entry was made under  *)
(* may be no address (Bad): it is seeded and shown like one, and no        *)
(* discovery finds it.                                                     *)
(***************************************************************************)
EXTENDS DeviceStore

CONSTANT Answering   \* addresses discovery may find

ASSUME IpsOnly == Macs = {} /\ Answering \subseteq Ips

VARIABLES
    scan,     \* what _scan is awaiting; "idle" when _lock is free
    reg,      \* the registry of a scan that has not been put in place yet
    cache,    \* _registry
    shown,    \* _snapshot["devices"]
    rescan,   \* the scan() an edit has left in the background
    overlap   \* history: the catalogue has changed since the last scan began

scanVars == <<scan, reg, cache, shown, rescan, overlap>>
allVars == <<vars, scanVars>>

Registry == [known : SUBSET Keys, hidden : SUBSET Keys]

Nothing == [known |-> {}, hidden |-> {}]

-----------------------------------------------------------------------------
(***************************************************************************)
(* Registries.                                                             *)
(***************************************************************************)

Catalogued(c) == {Ident(c.devices[s]) : s \in Slots} \ {None}

\* _seed_catalog, and the observations of a source.
Upserted(r, ids) == [r EXCEPT !.known = @ \cup ids]

\* _apply_catalog: the hidden list of the catalogue, on every device.
Applied(r, c) == [r EXCEPT !.hidden = r.known \cap c.hidden]

\* refresh_catalog on the catalogue c.
Refreshed(c) == Applied(Upserted(cache, Catalogued(c)), c)

-----------------------------------------------------------------------------
ScanInit ==
    /\ Init
    /\ scan = "idle"
    /\ reg = Nothing
    /\ cache = Nothing
    /\ shown = Nothing
    /\ rescan = "none"
    /\ overlap = FALSE

\* Slip: a scan goes on with the registry of the one before.
BeginScanFromCache ==
    /\ scan = "idle"
    /\ scan' = "discover"
    /\ reg' = Upserted(cache, Catalogued(memory))
    /\ rescan' = IF rescan = "asked" THEN "awaited" ELSE rescan
    /\ overlap' = FALSE
    /\ UNCHANGED <<vars, cache, shown>>

\* A scan begins: a registry with the catalogue in it.  Whoever calls scan()
\* while one is running (_lock) waits for its end and starts none.
BeginScan ==
    /\ scan = "idle"
    /\ scan' = "discover"
    /\ reg' = Upserted(Nothing, Catalogued(memory))
    /\ rescan' = IF rescan = "asked" THEN "awaited" ELSE rescan
    /\ overlap' = FALSE
    /\ UNCHANGED <<vars, cache, shown>>

\* Router and fast providers have answered; carry over, apply the catalogue.
Discovered ==
    /\ scan = "discover"
    /\ scan' = "ping"
    /\ \E found \in SUBSET Answering :
          reg' = Applied(Upserted(reg, found), memory)
    /\ UNCHANGED <<vars, cache, shown, rescan, overlap>>

\* Every device has been pinged: the registry goes in place and is published.
Pinged ==
    /\ scan = "ping"
    /\ scan' = "enrich"
    /\ cache' = reg
    /\ shown' = reg
    /\ reg' = Nothing
    /\ UNCHANGED <<vars, rescan, overlap>>

\* A slow provider has found a device.
EnrichFinds(x) ==
    /\ scan = "enrich"
    /\ x \notin cache.known
    /\ cache' = Upserted(cache, {x})
    /\ UNCHANGED <<vars, scan, reg, shown, rescan, overlap>>

\* Slip: the enriched registry is published as it is.
EnrichedUnapplied ==
    /\ scan = "enrich"
    /\ scan' = "idle"
    /\ shown' = cache
    /\ rescan' = IF rescan = "awaited" THEN "none" ELSE rescan
    /\ UNCHANGED <<vars, reg, cache, overlap>>

\* The slow providers are done: apply the catalogue, publish, free the lock;
\* who was waiting for the scan goes on.
Enriched ==
    /\ scan = "enrich"
    /\ scan' = "idle"
    /\ cache' = Applied(cache, memory)
    /\ shown' = cache'
    /\ rescan' = IF rescan = "awaited" THEN "none" ELSE rescan
    /\ UNCHANGED <<vars, reg, overlap>>

\* _collect_devices: the slow round stores what scan() has returned.
CollectDevices ==
    /\ scan = "idle"
    /\ shown' = cache
    /\ UNCHANGED <<vars, scan, reg, cache, rescan, overlap>>

\* The background task of an edit calls scan() and finds the lock taken.
RescanWaits ==
    /\ rescan = "asked"
    /\ scan # "idle"
    /\ rescan' = "awaited"
    /\ UNCHANGED <<vars, scan, reg, cache, shown, overlap>>

-----------------------------------------------------------------------------
(***************************************************************************)
(* The steps of a request, with what they do to the scanner.               *)
(***************************************************************************)

Overlaps == overlap' = (overlap \/ (scan # "idle" /\ memory' # memory))

\* Reading the file back is the first half of refresh_catalog.
AssignAndRefresh(r) ==
    /\ Assign(r)
    /\ cache' = Refreshed(memory')
    /\ Overlaps
    /\ UNCHANGED <<scan, reg, shown, rescan>>

\* publish_cached, the answer, and after an edit that sent an address a scan in
\* the background.
RespondAndPublish(r) ==
    /\ Respond(r)
    /\ shown' = cache
    /\ rescan' = IF call[r].op = "edit" /\ (call[r].ip # Keep \/ call[r].mac # Keep)
                 THEN "asked" ELSE rescan
    /\ UNCHANGED <<scan, reg, cache, overlap>>

\* The others do not concern the scanner.
RequestStep(r) ==
    /\ \/ \E k \in Calls(r) : Ask(r, k)
       \/ AddFind(r) \/ AddMutate(r)
       \/ EditFind(r) \/ EditMutate(r)
       \/ HideMutate(r) \/ UnhideMutate(r) \/ DeleteMutate(r)
       \/ Dump(r) \/ Replace(r) \/ SaveFails(r)
       \/ Read(r)
    /\ Overlaps
    /\ UNCHANGED <<scan, reg, cache, shown, rescan>>

ScanNext ==
    \/ BeginScan \/ Discovered \/ Pinged \/ Enriched
    \/ \E x \in Answering : EnrichFinds(x)
    \/ CollectDevices \/ RescanWaits
    \/ \E r \in Requests :
          RequestStep(r) \/ AssignAndRefresh(r) \/ RespondAndPublish(r)

ScanSpec == ScanInit /\ [][ScanNext]_allVars

(***************************************************************************)
(* A scan ends, whatever fails in it, and the slow round of the collector  *)
(* starts another; a request that has begun goes through.  Nobody has to   *)
(* edit the catalogue, discovery has to find nothing.                      *)
(***************************************************************************)
ScanFairness ==
    /\ WF_allVars(BeginScan) /\ WF_allVars(Discovered)
    /\ WF_allVars(Pinged) /\ WF_allVars(Enriched)
    /\ \A r \in Requests :
          /\ WF_allVars(RequestStep(r) /\ pc[r] # "idle")
          /\ WF_allVars(AssignAndRefresh(r))
          /\ WF_allVars(RespondAndPublish(r))

FairScanSpec == ScanSpec /\ ScanFairness

-----------------------------------------------------------------------------
Quiet == \A r \in Requests : pc[r] = "idle"

\* Rows the Devices page lists when hidden devices are not asked for.
Visible == shown.known \ shown.hidden

\* "Catalogo manuale (devices.yaml): device sempre visibili, anche spenti" and
\* "un device appena aggiunto compare offline" (scanner.py): once the edits are
\* answered, every entry of the catalogue is on display.
CataloguedShown == Quiet => Catalogued(disk) \subseteq shown.known

\* "Nasconde un dispositivo (resta escluso anche se ri-scoperto)": once the edits
\* are answered, no hidden device is on display as visible.
HiddenNotVisible == Quiet => Visible \cap disk.hidden = {}

\* Both hold after every scan during which the catalogue did not change: only an
\* edit in the middle of a scan can be undone by it.
UndisturbedScanExact ==
    scan = "idle" /\ ~overlap => CataloguedShown /\ HiddenNotVisible

\* "Un rescan la ricostruisce da zero e la fa sparire subito" (edit_device): when
\* the scan an edit has asked for is over, the address it left is not on display,
\* unless discovery can find it.
LeftAddressGone ==
    [][rescan = "awaited" /\ rescan' = "none" /\ Quiet
          => shown'.known \subseteq Catalogued(memory) \cup Answering]_allVars

\* What the scanner reads ends up on display, whatever edits came in the middle of scans:
\* an entry that stays in the catalogue is shown for good; an address that leaves it, and
\* that discovery does not find, is gone for good; and a device that stays hidden is
\* taken off the visible ones again and again, however often discovery finds it anew.
ScansCatchUp ==
    \A x \in Keys :
        /\ <>[](x \in Catalogued(memory)) => <>[](x \in shown.known)
        /\ <>[](x \notin Catalogued(memory) \cup Answering) => <>[](x \notin shown.known)
        /\ <>[](x \in memory.hidden) => []<>(x \notin Visible)

=============================================================================
