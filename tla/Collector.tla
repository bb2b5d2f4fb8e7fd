------------------------------ MODULE Collector ------------------------------
(***************************************************************************)
(* The background collector (backend/services/collector.py): the fast      *)
(* loop, the slow round it starts in a task of its own, the rounds asked   *)
(* for by POST /api/services/refresh, and the section of the snapshot they *)
(* all write, the services overview.                                       *)
(*                                                                         *)
(* Everything runs on one asyncio event loop: an action is the code        *)
(* between two awaits.  The catalogue (services.yaml) is edited by POST    *)
(* and DELETE /api/services/config and read from disk by every round; how  *)
(* the store writes that file is not this module's subject.                *)
(*                                                                         *)
(* Data is cut down to what the properties tell apart.  A row is an entry  *)
(* of services.yaml that becomes a row of the overview (a systemd unit, a  *)
(* Windows service, a health check); NameOf gives the (kind, name) pair    *)
(* DELETE addresses it by.  Containers are discovered, not catalogued: they *)
(* are never removed from the overview and add the same number to every    *)
(* count, so they are left out.                                            *)
(***************************************************************************)
EXTENDS Integers, FiniteSets

CONSTANTS
    Rows,       \* entries services.yaml may hold
    Names,      \* the (kind, name) pairs
    NameOf,     \* the pair of each row
    SlowTasks,  \* asyncio tasks a slow round can run in
    Requests,   \* concurrent POST /api/services/refresh
    NoTask      \* None, the initial _slow_task

ASSUME RowsFinite == IsFiniteSet(Rows)
ASSUME NameOfType == NameOf \in [Rows -> Names]
ASSUME ActorsDisjoint == SlowTasks \cap Requests = {}
ASSUME NoTaskIsNoTask == NoTask \notin SlowTasks

VARIABLES
    loop,         \* where run() is suspended
    due,          \* time.time() - _last_slow >= collect_interval_slow
    dueSeen,      \* the same test on the `now` run() read at the top of the cycle
    slowTask,     \* _slow_task
    stage,        \* what each round is awaiting; "off" when it is not running
    monitorLock,  \* _monitor_lock.locked()
    seen,         \* the catalogue each building round has read; {} at other times
    catalog,      \* rows in services.yaml
    pruning,      \* DELETEs that wrote the file and have yet to prune the snapshot
    view          \* _snapshot["services"]

vars == <<loop, due, dueSeen, slowTask, stage, monitorLock, seen, catalog,
          pruning, view>>
taskVars == <<slowTask, monitorLock>>
loopVars == <<loop, due, dueSeen>>
catalogVars == <<catalog, pruning>>

Actors == SlowTasks \cup Requests

Stages == {"off", "host_network", "devices", "docker", "services", "history",
           "resources", "compact", "send"}

-----------------------------------------------------------------------------
(***************************************************************************)
(* The services overview.                                                  *)
(***************************************************************************)

\* The overview of the rows rs, of which `up` answered.
Overview(rs, up) ==
    [rows |-> rs, up |-> up,
     total |-> Cardinality(rs),
     ok    |-> Cardinality(up),
     down  |-> Cardinality(rs) - Cardinality(up)]

\* Before the first round the snapshot has no services section at all.
NoOverview == [rows |-> {}, up |-> {}, total |-> 0, ok |-> 0, down |-> 0]

Named(rs, n) == {x \in rs : NameOf[x] = n}

Less(k) == IF k > 0 THEN k - 1 ELSE 0

\* Definitions marked "Slip" are bugs the code could have had, kept to show that
\* a property would notice them; no specification uses them.

\* Slip: the rows go and the summary is left alone.
ForgetRowsOnly(v, n) ==
    [v EXCEPT !.rows = @ \ Named(v.rows, n), !.up = @ \ Named(v.up, n)]

\* dimentica_servizio: every row of that name goes, the counts drop by one.
Forget(v, n) ==
    IF Named(v.rows, n) = {} THEN v
    ELSE LET wasUp == Named(v.up, n) # {}
         IN  [rows  |-> v.rows \ Named(v.rows, n),
              up    |-> v.up \ Named(v.up, n),
              total |-> Less(v.total),
              ok    |-> IF wasUp THEN Less(v.ok) ELSE v.ok,
              down  |-> IF wasUp THEN v.down ELSE Less(v.down)]

-----------------------------------------------------------------------------
Init ==
    /\ loop = "sleep"
    /\ due = TRUE                          \* _last_slow = 0
    /\ dueSeen = FALSE
    /\ slowTask = NoTask
    /\ stage = [p \in Actors |-> "off"]
    /\ monitorLock = FALSE
    /\ seen = [p \in Actors |-> {}]
    /\ catalog \in SUBSET Rows
    /\ pruning = {}
    /\ view = NoOverview

\* Slip: _slow_task is not asked whether it is done().
SlowStarted == slowTask # NoTask

SlowRunning == slowTask # NoTask /\ stage[slowTask] # "off"

\* Slip: _start_slow does not look at the round it started before.
StartSlowAnyway ==
    \E t \in SlowTasks :
        /\ stage[t] = "off"
        /\ slowTask' = t
        /\ stage' = [stage EXCEPT ![t] = "host_network"]
        /\ due' = FALSE

\* _start_slow: one slow round at a time, in a task of its own.
StartSlow ==
    IF SlowRunning
    THEN UNCHANGED <<slowTask, stage, due>>
    ELSE \E t \in SlowTasks :
            /\ stage[t] = "off"
            /\ slowTask' = t
            /\ stage' = [stage EXCEPT ![t] = "host_network"]
            /\ due' = FALSE

-----------------------------------------------------------------------------
(***************************************************************************)
(* run(): collect the fast sources, start the slow round when it is due,   *)
(* broadcast, sleep.                                                       *)
(***************************************************************************)

LoopWake ==
    /\ loop = "sleep"
    /\ loop' = "fast"
    /\ dueSeen' = due
    /\ UNCHANGED <<due, taskVars, stage, seen, catalogVars, view>>

LoopCollected ==
    /\ loop = "fast"
    /\ loop' = "send"
    /\ IF dueSeen THEN StartSlow ELSE UNCHANGED <<slowTask, stage, due>>
    /\ UNCHANGED <<dueSeen, monitorLock, seen, catalogVars, view>>

LoopSent ==
    /\ loop = "send"
    /\ loop' = "sleep"
    /\ UNCHANGED <<due, dueSeen, taskVars, stage, seen, catalogVars, view>>

\* Time passes: collect_interval_slow seconds since the last slow round began.
IntervalElapses ==
    /\ ~due
    /\ due' = TRUE
    /\ UNCHANGED <<loop, dueSeen, taskVars, stage, seen, catalogVars, view>>

-----------------------------------------------------------------------------
(***************************************************************************)
(* refresh_monitor: answers "busy" (no step) while a slow round or another *)
(* refresh is running, otherwise holds _monitor_lock for a whole round.    *)
(***************************************************************************)

\* Slip: a slow round does not make the refresh answer "busy".
BeginRefreshBesideSlow(r) ==
    /\ stage[r] = "off"
    /\ ~monitorLock
    /\ monitorLock' = TRUE
    /\ stage' = [stage EXCEPT ![r] = "docker"]
    /\ UNCHANGED <<loopVars, slowTask, seen, catalogVars, view>>

BeginRefresh(r) ==
    /\ stage[r] = "off"
    /\ ~SlowRunning
    /\ ~monitorLock
    /\ monitorLock' = TRUE
    /\ stage' = [stage EXCEPT ![r] = "docker"]
    /\ UNCHANGED <<loopVars, slowTask, seen, catalogVars, view>>

\* Slip: the lock outlives the refresh.
RefreshSentHoldingLock(r) ==
    /\ stage[r] = "send"
    /\ stage' = [stage EXCEPT ![r] = "off"]
    /\ UNCHANGED <<loopVars, taskVars, seen, catalogVars, view>>

\* The update has been broadcast: release the lock and answer "ok".
RefreshSent(r) ==
    /\ stage[r] = "send"
    /\ stage' = [stage EXCEPT ![r] = "off"]
    /\ monitorLock' = FALSE
    /\ UNCHANGED <<loopVars, slowTask, seen, catalogVars, view>>

-----------------------------------------------------------------------------
(***************************************************************************)
(* The stages of a round.  A failing source is caught in its own           *)
(* _collect_* and the round goes on, so that only the services overview    *)
(* needs a step for success and a step for failure.                        *)
(***************************************************************************)

SlowStage(t, from, to) ==
    /\ stage[t] = from
    /\ stage' = [stage EXCEPT ![t] = to]
    /\ UNCHANGED <<loopVars, taskVars, seen, catalogVars, view>>

HostNetworkCollected(t) == SlowStage(t, "host_network", "devices")

DevicesCollected(t) == SlowStage(t, "devices", "docker")

HistoryCompacted(t) == SlowStage(t, "compact", "off")

\* The containers are in; build_services_overview starts, without an await in
\* between, by reading services.yaml.
DockerCollected(p) ==
    /\ stage[p] = "docker"
    /\ stage' = [stage EXCEPT ![p] = "services"]
    /\ seen' = [seen EXCEPT ![p] = catalog]
    /\ UNCHANGED <<loopVars, taskVars, catalogVars, view>>

\* Slip: the new rows are merged into those on display.
OverviewMerged(p) ==
    /\ stage[p] = "services"
    /\ stage' = [stage EXCEPT ![p] = "history"]
    /\ \E up \in SUBSET seen[p] : view' = Overview(seen[p] \cup view.rows, up)
    /\ seen' = [seen EXCEPT ![p] = {}]
    /\ UNCHANGED <<loopVars, taskVars, catalogVars>>

\* Every probe has answered: the section is replaced as a whole.
OverviewBuilt(p) ==
    /\ stage[p] = "services"
    /\ stage' = [stage EXCEPT ![p] = "history"]
    /\ \E up \in SUBSET seen[p] : view' = Overview(seen[p], up)
    /\ seen' = [seen EXCEPT ![p] = {}]
    /\ UNCHANGED <<loopVars, taskVars, catalogVars>>

\* The build raised: the section stays that of an earlier round.
OverviewFailed(p) ==
    /\ stage[p] = "services"
    /\ stage' = [stage EXCEPT ![p] = "resources"]
    /\ seen' = [seen EXCEPT ![p] = {}]
    /\ UNCHANGED <<loopVars, taskVars, catalogVars, view>>

\* mark_services, in a worker thread, has returned or raised.
HistoryMarked(p) ==
    /\ stage[p] = "history"
    /\ stage' = [stage EXCEPT ![p] = "resources"]
    /\ UNCHANGED <<loopVars, taskVars, seen, catalogVars, view>>

ResourcesCollected(p) ==
    /\ stage[p] = "resources"
    /\ stage' = [stage EXCEPT ![p] = IF p \in SlowTasks THEN "compact" ELSE "send"]
    /\ UNCHANGED <<loopVars, taskVars, seen, catalogVars, view>>

-----------------------------------------------------------------------------
(***************************************************************************)
(* Edits of the catalogue from the Services page.                          *)
(***************************************************************************)

\* POST: add the row, in place of the one that had its name.  The snapshot is
\* left alone: nothing is known yet of the new service.
AddService(x) ==
    /\ x \notin catalog
    /\ catalog' = (catalog \ Named(catalog, NameOf[x])) \cup {x}
    /\ UNCHANGED <<loopVars, taskVars, stage, seen, pruning, view>>

\* DELETE, in a worker thread: the file no longer has the rows of that name.
\* Where there were none the request is a 404 and changes nothing.
RemoveService(n) ==
    /\ Named(catalog, n) # {}
    /\ catalog' = catalog \ Named(catalog, n)
    /\ pruning' = pruning \cup {n}
    /\ UNCHANGED <<loopVars, taskVars, stage, seen, view>>

\* DELETE, back on the event loop: prune the snapshot and answer.
PruneSnapshot(n) ==
    /\ n \in pruning
    /\ pruning' = pruning \ {n}
    /\ view' = Forget(view, n)
    /\ UNCHANGED <<loopVars, taskVars, stage, seen, catalog>>

-----------------------------------------------------------------------------
Round(p) ==
    \/ DockerCollected(p)
    \/ OverviewBuilt(p)
    \/ OverviewFailed(p)
    \/ HistoryMarked(p)
    \/ ResourcesCollected(p)

SlowRound(t) ==
    \/ HostNetworkCollected(t)
    \/ DevicesCollected(t)
    \/ HistoryCompacted(t)
    \/ Round(t)

Next ==
    \/ LoopWake
    \/ LoopCollected
    \/ LoopSent
    \/ IntervalElapses
    \/ \E t \in SlowTasks : SlowRound(t)
    \/ \E r \in Requests : BeginRefresh(r) \/ Round(r) \/ RefreshSent(r)
    \/ \E x \in Rows : AddService(x)
    \/ \E n \in Names : RemoveService(n) \/ PruneSnapshot(n)

Spec == Init /\ [][Next]_vars

(***************************************************************************)
(* The event loop runs every callback that is ready, every await has a     *)
(* timeout, time passes; nobody has to edit the catalogue or press the     *)
(* refresh button.  Strong fairness on OverviewBuilt says that the build   *)
(* does not raise for ever: it only does when services.yaml cannot be      *)
(* parsed, each probe turning its own failure into a row that is down.     *)
(***************************************************************************)
Fairness ==
    /\ WF_vars(LoopWake) /\ WF_vars(LoopCollected) /\ WF_vars(LoopSent)
    /\ WF_vars(IntervalElapses)
    /\ \A t \in SlowTasks : WF_vars(SlowRound(t)) /\ SF_vars(OverviewBuilt(t))
    /\ \A r \in Requests : WF_vars(Round(r)) /\ WF_vars(RefreshSent(r))
    /\ \A n \in Names : WF_vars(PruneSnapshot(n))


-----------------------------------------------------------------------------
OverviewType ==
    [rows : SUBSET Rows, up : SUBSET Rows, total : Nat, ok : Nat, down : Nat]

\* The state is well formed.
TypeOK ==
    /\ loop \in {"sleep", "fast", "send"}
    /\ due \in BOOLEAN
    /\ dueSeen \in BOOLEAN
    /\ slowTask \in SlowTasks \cup {NoTask}
    /\ stage \in [Actors -> Stages]
    /\ monitorLock \in BOOLEAN
    /\ seen \in [Actors -> SUBSET Rows]
    /\ catalog \in SUBSET Rows
    /\ pruning \in SUBSET Names
    /\ view \in OverviewType

\* At most one slow round is alive, and _slow_task is the one: the guard of
\* _start_slow tests only the task it started last, so a round it lost track of
\* would never be waited for again.
OneSlowRound ==
    \A t \in SlowTasks : stage[t] # "off" => t = slowTask

\* At most one manual refresh is alive, and it holds _monitor_lock: two close
\* clicks never open two rounds of SSH towards the same hosts, and the lock
\* never outlives its round (the button would answer "busy" for ever).
OneRefresh ==
    /\ monitorLock <=> \E r \in Requests : stage[r] # "off"
    /\ \A q, r \in Requests : stage[q] # "off" /\ stage[r] # "off" => q = r

\* Rounds exclude each other, slow with slow and refresh with refresh: a round opens
\* SSH towards every host (_start_slow; refresh_monitor answers "busy").
RoundsExclusive == OneSlowRound /\ OneRefresh

Counted(v) ==
    /\ v.up \subseteq v.rows
    /\ v.total = Cardinality(v.rows)
    /\ v.ok = Cardinality(v.up)
    /\ v.down = v.total - v.ok

\* The three numbers of the summary are those of the rows on display, after any
\* interleaving of rounds and of removals that adjust them by hand in
\* dimentica_servizio.
SummaryMatchesRows == Counted(view)

\* What SummaryMatchesRows needs of the catalogue: DELETE takes the rows of a
\* name away together and counts them as one.
NamesUnique == \A x, y \in Rows : NameOf[x] = NameOf[y] => x = y

\* Once a DELETE has answered, the row is not on display until the service is
\* added again (docstrings of dimentica_servizio and of remove_service).
DeletedStaysGone ==
    \A x \in view.rows : x \in catalog \/ NameOf[x] \in pruning

\* Whatever stale rounds and prunes come late, a service deleted for good eventually
\* leaves the overview for good, and one added for good is eventually on display for
\* good ("Applicato al prossimo ciclo", add_service).
OverviewCatchesUp ==
    \A x \in Rows :
        /\ <>[](x \notin catalog) => <>[](x \notin view.rows)
        /\ <>[](x \in catalog) => <>[](x \in view.rows)

\* The slow round is never the last one: none is lost track of or blocked.
SlowRoundsGoOn == []<>SlowRunning /\ []<>~SlowRunning

=============================================================================
