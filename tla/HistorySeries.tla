---------------------------- MODULE HistorySeries ----------------------------
(***************************************************************************)
(* The sampled series of the history (backend/services/history_store.py):  *)
(* points are added raw, a compaction turns the points older than a        *)
(* threshold into one average for each bucket and drops what is past the   *)
(* window of retention, and a graph asks for the series at a fixed step    *)
(* (routers/history.py).                                                   *)
(*                                                                         *)
(* One series of one table.  A row is keyed by its time and holds an       *)
(* average as a sum and a count, so that it stays exact; a count of 0 is   *)
(* NULL, the honest hole.  srSpan of a row is 0 for a raw point.           *)
(***************************************************************************)
EXTENDS Integers, FiniteSets, FiniteSetsExt, Functions

CONSTANTS
    SrMaxTime,   \* bound on the clock
    SrValues,    \* what a sample may read
    SrBucket,    \* bucket_seconds
    SrFull,      \* full_hours: what stays raw
    SrRetain,    \* retain_days
    SrStep,      \* the interval between two samples
    SrSecond,    \* one second, the narrowest a graph goes
    SrPeriods,   \* PERIODI: the windows a page may ask for
    SrMaxPoints  \* history.max_points

\* compact takes one day, hour and second at least; _finestra knows positive windows.
ASSUME SrLengths ==
    /\ SrBucket \in Nat \ {0} /\ SrFull \in Nat \ {0} /\ SrRetain \in Nat \ {0}
    /\ SrStep \in Nat /\ SrSecond \in Nat \ {0} /\ SrPeriods \subseteq Nat
ASSUME SrNumbers == SrMaxTime \in Nat /\ SrValues \subseteq Nat /\ SrMaxPoints \in Int

VARIABLES
    srTable,   \* "traffic" or "host_metrics", never changes
    srRows,    \* the rows of the table, by time
    srNow,     \* the clock
    srGiven,   \* history: the points handed to the store, by time
    srCompacted, \* history: when the last compaction was, -1 when there was none
    srFound    \* history: when the compaction was that found a point old, by its time

srVars == <<srTable, srRows, srNow, srGiven, srCompacted, srFound>>

-----------------------------------------------------------------------------
Null == [sum |-> 0, n |-> 0]

Sample(v) == [sum |-> v, n |-> 1]

SrInit ==
    /\ srTable \in {"traffic", "host_metrics"}
    /\ srRows = <<>>
    /\ srNow = 0
    /\ srGiven = <<>>
    /\ srCompacted = -1
    /\ srFound = <<>>

SrTick ==
    /\ srNow < SrMaxTime
    /\ srNow' = srNow + 1
    /\ UNCHANGED <<srTable, srRows, srGiven, srCompacted, srFound>>

Put(rows, t, row) == [x \in DOMAIN rows \cup {t} |-> IF x = t THEN row ELSE rows[x]]

Missing(t) == t \notin DOMAIN srGiven

\* add_traffic: INSERT OR REPLACE, at the time of the point.
AddTraffic(v) ==
    /\ srTable = "traffic"
    /\ Missing(srNow)
    /\ srRows' = Put(srRows, srNow, [v |-> v, span |-> 0])
    /\ srGiven' = Put(srGiven, srNow, v)
    /\ UNCHANGED <<srTable, srNow, srCompacted, srFound>>

\* add_host_points: INSERT OR IGNORE of the last point of the host, which the
\* collector may hand over again: a key that is there keeps its row.
AddHostPoint(v) ==
    /\ srTable = "host_metrics"
    /\ srNow \in DOMAIN srGiven => srGiven[srNow] = v
    /\ srRows' = IF srNow \in DOMAIN srRows
                 THEN srRows
                 ELSE Put(srRows, srNow, [v |-> v, span |-> 0])
    /\ srGiven' = Put(srGiven, srNow, v)
    /\ UNCHANGED <<srTable, srNow, srCompacted, srFound>>

-----------------------------------------------------------------------------
BucketOf(t, width) == (t \div width) * width

\* AVG: the rows with a NULL do not count, and with no other row it is NULL.
Average(times, rows) ==
    LET Before[t \in 0 .. SrMaxTime + 1] ==
            IF t = 0 THEN Null
            ELSE IF t - 1 \in times
            THEN [sum |-> Before[t - 1].sum + rows[t - 1].v.sum,
                  n   |-> Before[t - 1].n + rows[t - 1].v.n]
            ELSE Before[t - 1]
    IN  Before[SrMaxTime + 1]

RawBefore(rows, threshold) == {t \in DOMAIN rows : rows[t].span = 0 /\ t < threshold}

\* Slip: the averages are made but the points stay, up to the threshold included.
AggregateSlip(rows, threshold) ==
    Restrict(rows, DOMAIN rows \ RawBefore(rows, threshold))

\* _aggrega: one average per bucket of the raw points before the threshold, INSERT OR
\* REPLACE at the start of the bucket, then the points go.
Aggregate(rows, threshold) ==
    LET old == RawBefore(rows, threshold)
        starts == {BucketOf(t, SrBucket) : t \in old}
        Made(b) == [v    |-> Average({t \in old : BucketOf(t, SrBucket) = b}, rows),
                    span |-> SrBucket]
        all == [t \in DOMAIN rows \cup starts |-> IF t \in starts THEN Made(t) ELSE rows[t]]
    IN  Restrict(all, {t \in DOMAIN all : ~ (all[t].span = 0 /\ t < threshold)})

Expire(rows, deadline) == Restrict(rows, {t \in DOMAIN rows : t >= deadline})

\* compact: one transaction; when it fails nothing has changed.
CompactSeries ==
    /\ srRows' = Expire(Aggregate(srRows, srNow - SrFull), srNow - SrRetain)
    /\ srCompacted' = srNow
    /\ srFound' = [t \in {u \in DOMAIN srGiven : u < srNow - SrFull} |->
                      IF t \in DOMAIN srFound THEN srFound[t] ELSE srNow]
    /\ UNCHANGED <<srTable, srNow, srGiven>>

SrNext ==
    \/ SrTick
    \/ \E v \in {Sample(x) : x \in SrValues} \cup {Null} : AddTraffic(v) \/ AddHostPoint(v)
    \/ CompactSeries

SrSpec == SrInit /\ [][SrNext]_srVars

-----------------------------------------------------------------------------
CeilDiv(a, b) == (a + b - 1) \div b

\* _span: wide enough for max_points, not narrower than two samples, and that floor no
\* wider than a thirtieth of the window.
SpanOf(window, points) ==
    LET floor == Min({2 * Max({SrStep, SrSecond}), Max({window \div 30, SrSecond})})
    IN  Max({CeilDiv(window, Max({points, 1})), floor})

\* Slip: the grid starts where the window does.
GridSlip(since, until, width) ==
    {t \in since .. until : (t - since) % width = 0}

\* The buckets a graph has: every one from the one the window starts in.
Grid(since, until, width) ==
    {t \in BucketOf(since, width) .. until : (t - BucketOf(since, width)) % width = 0}

\* _campioni: the average of the rows of each bucket, None where there is none.
Graph(rows, since, until, points) ==
    LET width == SpanOf(until - since, points)
        In(b) == {t \in DOMAIN rows : t >= since /\ t <= until /\ BucketOf(t, width) = b}
    IN  [b \in Grid(since, until, width) |-> Average(In(b), rows)]

-----------------------------------------------------------------------------
Cell == [sum : Nat, n : Nat]

SrTypeOK ==
    /\ srTable \in {"traffic", "host_metrics"}
    /\ srNow \in 0 .. SrMaxTime
    /\ DOMAIN srRows \subseteq 0 .. SrMaxTime
    /\ \A t \in DOMAIN srRows : srRows[t].v \in Cell /\ srRows[t].span \in {0, SrBucket}
    /\ DOMAIN srGiven \subseteq 0 .. SrMaxTime
    /\ srCompacted \in -1 .. SrMaxTime
    /\ DOMAIN srFound \subseteq DOMAIN srGiven
    /\ \A t \in DOMAIN srFound : srFound[t] \in 0 .. SrMaxTime

\* What the last compaction let go.
Deadline == IF srCompacted < 0 THEN 0 ELSE srCompacted - SrRetain

\* The points as they were given.
AsGiven == [t \in DOMAIN srGiven |-> [v |-> srGiven[t], span |-> 0]]

\* The old points of a bucket, and those of them that were found last.
FoundIn(b) == {t \in DOMAIN srFound : BucketOf(t, SrBucket) = b}

FoundLast(b) == {t \in FoundIn(b) : \A u \in FoundIn(b) : srFound[u] <= srFound[t]}

\* Until it expires, a point no compaction has found old is there as it was given.
PointsStay ==
    \A t \in DOMAIN srGiven \ DOMAIN srFound :
        t >= Deadline => t \in DOMAIN srRows /\ srRows[t] = AsGiven[t]

\* Until it expires, the bucket of a point that was found old has an average.
BucketsStand ==
    \A t \in DOMAIN srFound :
        LET b == BucketOf(t, SrBucket) IN
        b >= Deadline => b \in DOMAIN srRows /\ srRows[b].span = SrBucket

\* A raw row is a point that was given and not found old; an average is that of the
\* points of its bucket which the last compaction to find any of them found, of all of
\* them and of no other.
RowsExact ==
    \A t \in DOMAIN srRows :
        IF srRows[t].span = 0
        THEN t \in DOMAIN srGiven \ DOMAIN srFound /\ srRows[t] = AsGiven[t]
        ELSE FoundLast(t) # {} /\ srRows[t].v = Average(FoundLast(t), AsGiven)

\* What was given is accounted for, whatever the hour of each compaction: a point is
\* raw until a compaction finds it old, and then counts in the average of its bucket
\* until it expires or a later compaction finds other points of that bucket, whose
\* average replaces the row and with it the point.  (_aggrega and the deletes of
\* compact; the second way to leave is what AveragesWhole is about.)
PointsAccounted == PointsStay /\ BucketsStand /\ RowsExact

\* A graph is honest: every row of its window that holds a value shows in its bucket,
\* no bucket shows a value without a row, and there is one bucket more than max_points
\* at most.  (_campioni and _span: the grid of the rows and that of the answer agree.)
GraphHonest ==
    \A period \in SrPeriods :
        LET since == srNow - period
            width == SpanOf(period, SrMaxPoints)
            graph == Graph(srRows, since, srNow, SrMaxPoints) IN
        since >= 0 =>
            /\ Cardinality(DOMAIN graph) <= Max({SrMaxPoints, 1}) + 1
            /\ \A t \in DOMAIN srRows : t >= since /\ srRows[t].v.n > 0 =>
                /\ BucketOf(t, width) \in DOMAIN graph
                /\ graph[BucketOf(t, width)].n > 0
            /\ \A b \in DOMAIN graph : graph[b].n > 0 =>
                \E t \in DOMAIN srRows : t >= since /\ BucketOf(t, width) = b

\* The series are honest: the rows are exactly the points and the averages that the
\* points and the hours of the compactions make, and a graph shows the rows there are
\* and no others.  (_aggrega, compact, _campioni.)
SeriesHonest == PointsAccounted /\ GraphHonest

\* The points of a bucket, up to a time.
GivenIn(b, before) ==
    {t \in DOMAIN srGiven : t < before /\ BucketOf(t, SrBucket) = b /\ srGiven[t].n = 1}

\* What the comment of _aggrega says: the points older than the threshold are replaced
\* by their average.
AveragesWhole ==
    \A b \in DOMAIN srRows :
        LET times == GivenIn(b, srCompacted - SrFull) IN
        srRows[b].span # 0 =>
            srRows[b].v = [sum |-> FoldSet(LAMBDA t, acc : acc + srGiven[t].sum, 0, times),
                           n   |-> Cardinality(times)]
=============================================================================
