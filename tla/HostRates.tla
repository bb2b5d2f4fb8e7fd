------------------------------ MODULE HostRates ------------------------------
(***************************************************************************)
(* The resources of a host (backend/services/host_metrics.py): each        *)
(* collection reads the counters of the host over SSH and shows how they   *)
(* have grown since the reading it started from.  The slow round and a     *)
(* refresh asked by hand collect at the same time, each host is read       *)
(* behind awaits, and what is read last need not be composed last.         *)
(*                                                                         *)
(* One host and one counter, the busy time of its processor, which stands  *)
(* for the disk counters too: they start again at every boot.              *)
(***************************************************************************)
EXTENDS Naturals

CONSTANTS
    HmCollections,   \* collections that may run at once
    HmNone,          \* no reading, no rate
    HmWindow,        \* _MIN_WINDOW
    HmMaxTime        \* bound on the time, hence on the counters

VARIABLES
    hmTime,      \* time.monotonic() of the backend
    hmHost,      \* the host: boot number, uptime, busy time since the boot; up or down
    hmJob,       \* what each collection is at with the host, and what it has read
    hmPrev,      \* _prev: the reading the next window starts from, with its time
    hmRow,       \* the row of the host in the last collection
    hmBroken     \* history: the last time a collection found no good reading

hmVars == <<hmTime, hmHost, hmJob, hmPrev, hmRow, hmBroken>>

HmInit ==
    /\ hmTime = 1
    /\ hmHost = [boot |-> 1, up |-> 0, busy |-> 0, on |-> TRUE]
    /\ hmJob = [c \in HmCollections |-> [at |-> "idle", got |-> HmNone]]
    /\ hmPrev = HmNone
    /\ hmRow = HmNone
    /\ hmBroken = 0

-----------------------------------------------------------------------------
(***************************************************************************)
(* The host.                                                               *)
(***************************************************************************)

\* Time goes by; the host, when on, is busy or not.
HmTick ==
    /\ hmTime < HmMaxTime
    /\ hmTime' = hmTime + 1
    /\ \E work \in 0..1 :
          hmHost' = IF hmHost.on
                    THEN [hmHost EXCEPT !.up = @ + 1, !.busy = @ + work] ELSE hmHost
    /\ UNCHANGED <<hmJob, hmPrev, hmRow, hmBroken>>

\* It goes off, or comes back from a boot with its counters at zero: an answer on its way
\* arrives, or times out, in less time than a boot takes.
HmSwitch ==
    /\ hmHost' = IF hmHost.on THEN [hmHost EXCEPT !.on = FALSE]
                 ELSE [boot |-> hmHost.boot + 1, up |-> 0, busy |-> 0, on |-> TRUE]
    /\ hmHost'.boot <= 2
    /\ hmHost.on \/ \A c \in HmCollections : hmJob[c].at # "read"
    /\ UNCHANGED <<hmTime, hmJob, hmPrev, hmRow, hmBroken>>

-----------------------------------------------------------------------------
(***************************************************************************)
(* A collection.                                                           *)
(***************************************************************************)

NoRow(state) == [state |-> state, cpu |-> HmNone, from |-> HmNone, to |-> HmNone]

\* collect reaches the host, which the last ping says on or off.
HmAsk(c) ==
    /\ hmJob[c].at = "idle"
    /\ hmJob' = [hmJob EXCEPT ![c].at = "asked"]
    /\ UNCHANGED <<hmTime, hmHost, hmPrev, hmRow, hmBroken>>

\* Slip: a host that was off leaves the window open.
SkipKeepingWindow(c) ==
    /\ hmJob[c].at = "idle"
    /\ hmRow' = NoRow("skipped")
    /\ hmBroken' = hmTime
    /\ UNCHANGED <<hmTime, hmHost, hmJob, hmPrev>>

\* skip_offline: the ping has found it off, and the window is closed.
Skip(c) ==
    /\ hmJob[c].at = "idle"
    /\ hmRow' = NoRow("skipped")
    /\ hmPrev' = HmNone
    /\ hmBroken' = hmTime
    /\ UNCHANGED <<hmTime, hmHost, hmJob>>

\* _fetch: the command has run on the host; the answer is on its way.
HmRead(c) ==
    /\ hmJob[c].at = "asked"
    /\ hmHost.on
    /\ hmJob' = [hmJob EXCEPT ![c] =
                    [at |-> "read",
                     got |-> [boot |-> hmHost.boot, up |-> hmHost.up, busy |-> hmHost.busy]]]
    /\ UNCHANGED <<hmTime, hmHost, hmPrev, hmRow, hmBroken>>

Done(c) == hmJob' = [hmJob EXCEPT ![c] = [at |-> "idle", got |-> HmNone]]

\* No connection, no answer in time, an unknown system: the window is closed.
FetchFails(c) ==
    /\ hmJob[c].at \in {"asked", "read"}
    /\ Done(c)
    /\ hmRow' = NoRow("error")
    /\ hmPrev' = HmNone
    /\ hmBroken' = hmTime
    /\ UNCHANGED <<hmTime, hmHost>>

\* An output that cannot be read: the row says so and the window goes on.
Unreadable(c) ==
    /\ hmJob[c].at = "read"
    /\ Done(c)
    /\ hmRow' = NoRow("error")
    /\ UNCHANGED <<hmTime, hmHost, hmPrev, hmBroken>>

\* What the reading r may be compared with: nothing after a reboot.
Base(r) ==
    IF hmPrev = HmNone \/ (hmPrev.got.up > 0 /\ r.up < hmPrev.got.up) THEN HmNone ELSE hmPrev

Wide(base) == base # HmNone /\ hmTime - base.t >= HmWindow

\* _cpu_percent: the busy part of the time between two readings, or nothing when the
\* counters have not moved or have gone back.
CpuPercent(now, before) ==
    LET total == now.up - before.up
        idle  == (now.up - now.busy) - (before.up - before.busy) IN
    IF total <= 0 \/ idle < 0 THEN HmNone
    ELSE LET used == (total - idle) * 100 IN IF used < 0 THEN 0 ELSE used \div total

\* _componi: the row of a good reading.  The window starts again only when it was used
\* or there was none.
Compose(c) ==
    LET got  == hmJob[c].got
        base == Base(got)
        wide == Wide(base)
        cpu  == IF wide THEN CpuPercent(got, base.got) ELSE HmNone IN
    /\ hmJob[c].at = "read"
    /\ Done(c)
    /\ hmRow' = [state |-> "ok", cpu |-> cpu,
                 from |-> IF wide THEN base ELSE HmNone, to |-> [t |-> hmTime, got |-> got]]
    /\ hmPrev' = IF wide \/ base = HmNone THEN [t |-> hmTime, got |-> got] ELSE hmPrev
    /\ UNCHANGED <<hmTime, hmHost, hmBroken>>

HmNext ==
    \/ HmTick \/ HmSwitch
    \/ \E c \in HmCollections :
          HmAsk(c) \/ Skip(c) \/ HmRead(c) \/ FetchFails(c) \/ Unreadable(c) \/ Compose(c)

HmSpec == HmInit /\ [][HmNext]_hmVars

-----------------------------------------------------------------------------
HmReadings == [boot : 1..2, up : 0..HmMaxTime, busy : 0..HmMaxTime]
HmTimed == [t : 1..HmMaxTime, got : HmReadings]

HmTypeOK ==
    /\ hmTime \in 1..HmMaxTime
    /\ hmHost \in [boot : 1..2, up : 0..HmMaxTime, busy : 0..HmMaxTime, on : BOOLEAN]
    /\ hmJob \in [HmCollections ->
                    [at : {"idle", "asked", "read"}, got : HmReadings \cup {HmNone}]]
    /\ hmPrev \in HmTimed \cup {HmNone}
    /\ hmRow \in [state : {"skipped", "error", "ok"}, cpu : 0..100 \cup {HmNone},
                  from : HmTimed \cup {HmNone}, to : HmTimed \cup {HmNone}] \cup {HmNone}
    /\ hmBroken \in 0..HmMaxTime

\* A rate on display compares two readings of the host in the order they were taken,
\* HmWindow apart at least, with no collection in between that found the host off or
\* mute, even when two collections overlap; never two boots, unless the host has been up
\* by the second at least as long as by the first (host_metrics.py:464: the window must
\* not cover the time the host was off; :535: "altrimenti si disegnano picchi inventati").
WindowHonest ==
    hmRow # HmNone /\ hmRow.cpu # HmNone =>
          LET first == hmRow.from
              last  == hmRow.to IN
          /\ last.t - first.t >= HmWindow
          /\ first.got.boot < last.got.boot => first.got.up <= last.got.up
          /\ first.got.boot <= last.got.boot
          /\ first.got.boot = last.got.boot =>
                hmRow.cpu = ((last.got.busy - first.got.busy) * 100)
                                \div (last.got.up - first.got.up)
          /\ hmBroken <= first.t \/ hmBroken >= last.t
=============================================================================
