----------------------------- MODULE LogArchive -----------------------------
(***************************************************************************)
(* The log of the backend: the ring buffer every thread logs into          *)
(* (backend/services/log_buffer.py), its transfer to the archive by the    *)
(* fast loop of the collector (_archivia_log), the archive in SQLite       *)
(* (history_store.add_log_lines), and the page that shows the two as one   *)
(* (log_sources._leggi_backend).                                           *)
(*                                                                         *)
(* A line is a number: lines are numbered in the order they were logged,   *)
(* over all the runs of the process, and `base` is where this one began.   *)
(* Its `seq` is its number in this run, and the deque holds the last       *)
(* Capacity of these.  LogBuffer's lock makes append, drain and tail one   *)
(* step each.  Left out: level and text, the lines that logs.exclude       *)
(* discards, the audit queue (whose source of truth is a file), the        *)
(* retention of the archive.                                               *)
(***************************************************************************)
EXTENDS Integers, FiniteSets

CONSTANTS
    Capacity,  \* lines the ring holds
    MaxLines,  \* bound on the lines logged
    MaxMs,     \* bound on the clock
    Late       \* ms that a record may wait, once made, for the handler's lock

ASSUME CapacityPositive == Capacity \in Nat \ {0}
ASSUME BoundsNat == MaxLines \in Nat /\ MaxMs \in Nat \ {0}
ASSUME LateNat == Late \in Nat

VARIABLES
    base,     \* lines logged by earlier runs of the process
    seq,      \* _seq
    flushed,  \* _flushed
    writing,  \* lines drained and on their way to the archive
    rows,     \* the archive: how many rows each line has in it
    ms,       \* ts_ms of each line
    now,      \* the clock
    reader,   \* a request that has read the ring and has yet to read the archive
    lost      \* history: lines that fell off the ring or out of a failed write

logVars == <<base, seq, flushed, writing, rows, ms, now, reader, lost>>
bufferVars == <<base, seq, flushed>>

-----------------------------------------------------------------------------
Lines == 1 .. MaxLines

Logged == base + seq

\* The seqs the deque holds, and those drain() would return.
Ring == {k \in 1 .. seq : k > seq - Capacity}

Undrained == {k \in Ring : k > flushed}

\* The lines with these seqs.
LinesOf(ks) == {base + k : k \in ks}

NoReader == [at |-> "idle", live |-> {}, upto |-> 0, since |-> 0]

LogInit ==
    /\ base = 0
    /\ seq = 0
    /\ flushed = 0
    /\ writing = {}
    /\ rows = [l \in Lines |-> 0]
    /\ ms = [l \in Lines |-> 0]
    /\ now = 1
    /\ reader = NoReader
    /\ lost = {}

Tick ==
    /\ now < MaxMs
    /\ now' = now + 1
    /\ UNCHANGED <<bufferVars, writing, rows, ms, reader, lost>>

\* The times a record appended now may carry.
Stamps == {t \in 1 .. now : now - t <= Late}

\* LogBuffer.add: beyond Capacity the deque drops its oldest line.  The record was
\* stamped when it was made, and other threads may have appended in the meantime.
Log ==
    /\ Logged < MaxLines
    /\ seq' = seq + 1
    /\ \E t \in Stamps : ms' = [ms EXCEPT ![Logged + 1] = t]
    /\ lost' = lost \cup LinesOf(Undrained \ Ring')
    /\ UNCHANGED <<base, flushed, writing, rows, now, reader>>

\* Definitions marked "Slip" are bugs the code could have had, kept to show that
\* a property would notice them; no specification uses them.

\* Slip: the mark advances by as many lines as were drained.
DrainByCount ==
    /\ writing = {}
    /\ Undrained # {}
    /\ writing' = LinesOf(Undrained)
    /\ flushed' = flushed + Cardinality(Undrained)
    /\ UNCHANGED <<base, seq, rows, ms, now, reader, lost>>

\* drain: the lines after the mark, which moves to the last one in the ring.
\* (Where there are none the mark is there already.)
Drain ==
    /\ writing = {}
    /\ Undrained # {}
    /\ writing' = LinesOf(Undrained)
    /\ flushed' = seq
    /\ UNCHANGED <<base, seq, rows, ms, now, reader, lost>>

\* Slip: the mark moves when the write returns, to the last line there is then.
WrittenSkipping ==
    /\ writing # {}
    /\ rows' = [l \in Lines |-> IF l \in writing THEN rows[l] + 1 ELSE rows[l]]
    /\ writing' = {}
    /\ flushed' = seq
    /\ UNCHANGED <<base, seq, ms, now, reader, lost>>

\* add_log_lines: one transaction, in a worker thread.
Written ==
    /\ writing # {}
    /\ rows' = [l \in Lines |-> IF l \in writing THEN rows[l] + 1 ELSE rows[l]]
    /\ writing' = {}
    /\ UNCHANGED <<bufferVars, ms, now, reader, lost>>

\* The transaction fails, or there is no database: the lines are gone.
WriteFails ==
    /\ writing # {}
    /\ writing' = {}
    /\ lost' = lost \cup writing
    /\ UNCHANGED <<bufferVars, rows, ms, now, reader>>

\* Slip: the mark survives the buffer it is about.
RestartKeepingMark ==
    /\ base' = Logged
    /\ seq' = 0
    /\ writing' = {}
    /\ lost' = lost \cup writing \cup LinesOf(Undrained)
    /\ reader' = NoReader
    /\ UNCHANGED <<flushed, rows, ms, now>>

\* The process restarts with an empty buffer.
Restart ==
    /\ base' = Logged
    /\ seq' = 0
    /\ flushed' = 0
    /\ writing' = {}
    /\ lost' = lost \cup writing \cup LinesOf(Undrained)
    /\ reader' = NoReader
    /\ UNCHANGED <<rows, ms, now>>

-----------------------------------------------------------------------------
(***************************************************************************)
(* The Logs page.                                                          *)
(***************************************************************************)

\* The lines since `since` are asked for: tail(), then an await.
ReadRing ==
    /\ reader.at = "idle"
    /\ \E since \in 1 .. now :
          reader' = [at |-> "archive", live |-> LinesOf(Ring), upto |-> Logged,
                     since |-> since]
    /\ UNCHANGED <<bufferVars, writing, rows, ms, now, lost>>

ReadArchive ==
    /\ reader.at = "archive"
    /\ reader' = NoReader
    /\ UNCHANGED <<bufferVars, writing, rows, ms, now, lost>>

InWindow == {l \in Lines : l <= Logged /\ rows[l] > 0 /\ ms[l] >= reader.since}

\* Slip: the archive is read up to the oldest live line, included.
FromArchiveInclusive == {l \in InWindow : \A v \in reader.live : ms[l] <= ms[v]}

\* What it finds in the archive, unless that cannot be read: what is older than
\* every live line.
FromArchive == {l \in InWindow : \A v \in reader.live : ms[l] < ms[v]}

-----------------------------------------------------------------------------
LogNext ==
    \/ Tick \/ Log
    \/ Drain \/ Written \/ WriteFails
    \/ Restart
    \/ ReadRing \/ ReadArchive

LogSpec == LogInit /\ [][LogNext]_logVars

(***************************************************************************)
(* The fast loop goes round whatever fails in it, and a write returns or   *)
(* raises.  Nobody has to log, read or restart.                            *)
(***************************************************************************)
LogFairness == WF_logVars(Drain) /\ WF_logVars(Written \/ WriteFails)

-----------------------------------------------------------------------------
\* The state is well formed; in particular the mark is never ahead of the lines
\* logged, or the next ones would not be drained.
LogTypeOK ==
    /\ base \in 0 .. MaxLines
    /\ seq \in 0 .. MaxLines
    /\ flushed \in 0 .. seq
    /\ base + seq \in 0 .. MaxLines
    /\ writing \in SUBSET Lines
    /\ rows \in [Lines -> Nat]
    /\ ms \in [Lines -> 0 .. MaxMs]
    /\ now \in 1 .. MaxMs
    /\ reader \in [at : {"idle", "archive"}, live : SUBSET Lines,
                   upto : 0 .. MaxLines, since : 0 .. MaxMs]
    /\ lost \in SUBSET Lines

\* No line is archived twice, however far the transfer lags behind a ring that
\* overflows ("chiamarla due volte di fila non riscrive le stesse righe", drain).
ArchivedOnce == \A l \in Lines : rows[l] <= 1

\* A line is never skipped in silence: until it is archived it is in the ring and
\* still to be drained, or on its way, or it fell off a full ring, out of a failed
\* write or with the process.
NothingSkipped ==
    \A l \in 1 .. Logged :
        \/ rows[l] > 0
        \/ l \in LinesOf(Undrained) \cup writing
        \/ l \in lost

\* Every line logged is in the archive once, or still on its way to it once, or was lost
\* in a way that is known (drain and _archivia_log).
LinesAccounted == ArchivedOnce /\ NothingSkipped

\* The line is cut off by the live line v, logged after it: stamped when v was, or
\* late by no more than a record may be.
CutOff(l) == \E v \in reader.live : l < v /\ 0 <= ms[l] - ms[v] /\ ms[l] - ms[v] <= Late

\* The page shows a line as live or as archived and never as both ("le due sorgenti
\* si fondono e non si sommano"), and it leaves out no line of the archive that was
\* there before the request, whatever is archived between the two readings; save
\* those made in the millisecond of the oldest live line, or out of their turn.
PageWhole ==
    reader.at = "archive" =>
        /\ reader.live \cap FromArchive = {}
        /\ \A l \in InWindow :
              l \in reader.live \cup FromArchive \/ l > reader.upto \/ CutOff(l)

Fate == [l \in Lines |->
            IF l > Logged        THEN "unborn"
            ELSE IF rows[l] > 0  THEN "archived"
            ELSE IF l \in lost   THEN "lost"
            ELSE "pending"]

Life == INSTANCE LineLife WITH fate <- Fate

\* Each line has the life LineLife promises, and settles in the end.
LinesSettle == Life!Spec

=============================================================================
