---------------------------- MODULE HistoryEvents ----------------------------
(***************************************************************************)
(* The events of the history (backend/services/history_store.py): one row  *)
(* for each change of state of a device or of a service, written from the  *)
(* memory of the last state, and read back into that memory when the       *)
(* process starts.                                                         *)
(*                                                                         *)
(* A subject is a device key or a service (kind, host, name); its state is *)
(* "up" or "down".  The rows are in the order of their ids, and the clock  *)
(* does not go back.  Failures modelled: a write that raises (the memory   *)
(* has moved already), a compaction that rolls back, the loss of the last  *)
(* transactions at a power cut (synchronous=NORMAL), a file that does not  *)
(* open, a memory that cannot be read back.                                *)
(***************************************************************************)
EXTENDS Naturals, Sequences, FiniteSets, Subsequences

CONSTANTS
    Devices,     \* the keys of the devices
    Services,    \* the services
    Nameless,    \* what has no key or no name
    EvDays,      \* bound on the clock
    EvRetain,    \* retain_days
    EvMaxRows    \* bound on the rows

ASSUME EvKinds == Nameless \notin Devices \cup Services
ASSUME EvDurations == EvDays \in Nat /\ EvRetain \in Nat

VARIABLES
    evDb,       \* "open", or "off" when the history could not be opened
    evLast,     \* _last_device and _last_service
    evRows,     \* device_events and service_events
    evNow,      \* the clock
    evUnsure    \* history: subjects whose memory may differ from their last row

evVars == <<evDb, evLast, evRows, evNow, evUnsure>>

-----------------------------------------------------------------------------
Subjects == Devices \cup Services
States == {"up", "down"}

\* A row of the table.  The last field is history: the row before it may be missing.
EventRow == [t : 0 .. EvDays, who : Subjects, ok : States, gap : BOOLEAN]

RowsOf(s, rows) == {i \in DOMAIN rows : rows[i].who = s}

\* SELECT MAX(id) ... GROUP BY: the last row of each subject that has one.
LastRow(s, rows) == CHOOSE i \in RowsOf(s, rows) : \A j \in RowsOf(s, rows) : j <= i

StateRows(rows) ==
    [s \in {x \in Subjects : RowsOf(x, rows) # {}} |-> rows[LastRow(s, rows)]]

EvInit ==
    /\ evDb = "open"
    /\ evLast = [s \in Subjects |-> "none"]
    /\ evRows = <<>>
    /\ evNow = 0
    /\ evUnsure = {}

EvTick ==
    /\ evNow < EvDays
    /\ evNow' = evNow + 1
    /\ UNCHANGED <<evDb, evLast, evRows, evUnsure>>

-----------------------------------------------------------------------------
\* One report after the other: a state equal to the remembered one is no event.
\* The memory moves at once.
MarkOne(acc, r) ==
    IF r.who = Nameless \/ acc.last[r.who] = r.ok
    THEN acc
    ELSE [last |-> [acc.last EXCEPT ![r.who] = r.ok],
          new  |-> Append(acc.new, [t |-> evNow, who |-> r.who, ok |-> r.ok,
                                    gap |-> r.who \in evUnsure])]

Marked(r1, r2) == MarkOne(MarkOne([last |-> evLast, new |-> <<>>], r1), r2)

\* _write never raises: after a failure the rows are not there.
WriteEvents(new, succeeds) ==
    LET subjects == {new[i].who : i \in DOMAIN new} IN
    IF succeeds
    THEN /\ evRows' = evRows \o new
         /\ evUnsure' = evUnsure \ subjects
    ELSE /\ evRows' = evRows
         /\ evUnsure' = evUnsure \cup subjects

Mark(r1, r2) ==
    LET m == Marked(r1, r2) IN
    /\ evDb = "open"
    /\ m.new # <<>>
    /\ Len(evRows) + Len(m.new) <= EvMaxRows
    /\ evLast' = m.last
    /\ \E succeeds \in BOOLEAN : WriteEvents(m.new, succeeds)
    /\ UNCHANGED <<evDb, evNow>>

Reports(who) == [who : who \cup {Nameless}, ok : States]

\* The registry has each device once.
MarkDevices ==
    \E r1, r2 \in Reports(Devices) :
        /\ r1.who # r2.who
        /\ Mark(r1, r2)

\* The overview may list one service twice: the four families are flattened as they
\* come, and each entry is compared with the one before it.
MarkServices == \E r1, r2 \in Reports(Services) : Mark(r1, r2)

-----------------------------------------------------------------------------
\* Slip: a plain DELETE of what is out of the window.
PrunedSlip(rows) == Picked(rows, {i \in DOMAIN rows : rows[i].t + EvRetain >= evNow})

\* The events that compact() keeps: those of the window, and the last of each subject.
Pruned(rows) ==
    Picked(rows, {i \in DOMAIN rows :
                      \/ rows[i].t + EvRetain >= evNow
                      \/ i = LastRow(rows[i].who, rows)})

\* One transaction; a failure rolls it back.
CompactEvents ==
    /\ evDb = "open"
    /\ evRows' = Pruned(evRows)
    /\ UNCHANGED <<evDb, evLast, evNow, evUnsure>>

\* Slip: the memory is not read back.
PrimedSlip(rows) == [s \in Subjects |-> "none"]

\* _prime_stato: what the memory holds after it read the last row of each subject.
Primed(rows) ==
    [s \in Subjects |-> IF RowsOf(s, rows) = {} THEN "none" ELSE rows[LastRow(s, rows)].ok]

\* The process ends and a new one opens the file, which holds a prefix of the
\* transactions.  A read that fails is logged and the memory starts empty.
ReopenGood ==
    \E kept \in 0 .. Len(evRows) :
        /\ evRows' = SubSeq(evRows, 1, kept)
        /\ evDb' = "open"
        /\ \/ /\ evLast' = Primed(evRows')
              /\ evUnsure' = {}
           \/ /\ evLast' = [s \in Subjects |-> "none"]
              /\ evUnsure' = {s \in Subjects : RowsOf(s, evRows') # {}}
        /\ UNCHANGED evNow

\* The file does not open or fails quick_check: it is set aside and a new one made.
ReopenQuarantined ==
    /\ evRows' = <<>>
    /\ evDb' = "open"
    /\ evLast' = [s \in Subjects |-> "none"]
    /\ evUnsure' = {}
    /\ UNCHANGED evNow

\* It cannot be set aside, or no new one can be made: every operation is a no-op.
ReopenOff ==
    /\ evDb' = "off"
    /\ evLast' = [s \in Subjects |-> "none"]
    /\ evUnsure' = {}
    /\ UNCHANGED <<evRows, evNow>>

EvNext ==
    \/ EvTick
    \/ MarkDevices
    \/ MarkServices
    \/ CompactEvents
    \/ ReopenGood
    \/ ReopenQuarantined
    \/ ReopenOff

EvSpec == EvInit /\ [][EvNext]_evVars

-----------------------------------------------------------------------------
EvTypeOK ==
    /\ evDb \in {"open", "off"}
    /\ evLast \in [Subjects -> States \cup {"none"}]
    /\ evRows \in Seq(EventRow)
    /\ evNow \in 0 .. EvDays
    /\ evUnsure \subseteq Subjects

\* The rows of one subject alternate: whatever was pruned, lost at a power cut or read
\* back at a start, no row repeats the state of the row before it, unless a write of
\* that subject failed or its memory could not be read back in between.
\* (mark_devices, mark_services, _prime_stato, _potatura_eventi.)
EventsAlternate ==
    \A s \in Subjects : \A i, j \in RowsOf(s, evRows) :
        (i < j /\ ~ \E k \in RowsOf(s, evRows) : i < k /\ k < j)
            => evRows[i].ok # evRows[j].ok \/ evRows[j].gap

\* The memory is the last row, so a restart invents no change and misses none.
MemoryIsLastRow ==
    evDb = "open" =>
        \A s \in Subjects \ evUnsure :
            IF RowsOf(s, evRows) = {}
            THEN evLast[s] = "none"
            ELSE evLast[s] = StateRows(evRows)[s].ok

EventsExact == EventsAlternate /\ MemoryIsLastRow

\* Pruning never changes the answer of device_states and service_states: since when
\* each device and each service is in the state it is in.
PruningKeepsStates == CompactEvents => StateRows(evRows') = StateRows(evRows)

\* The events tell each change once, and since when each subject is as it is, whatever
\* is pruned, lost or read back at a start.  (No row is there at the first start.)
EventsTell == [][EventsExact' /\ PruningKeepsStates]_evVars
=============================================================================
