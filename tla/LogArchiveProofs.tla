-------------------------- MODULE LogArchiveProofs --------------------------
(***************************************************************************)
(* Proofs about LogArchive, for any capacity of the ring and any number of *)
(* lines, and about LogStream, for any log and any memory of the stream.   *)
(***************************************************************************)
EXTENDS LogArchive, LogStream, FiniteSetTheorems, WellFoundedInduction, TLAPS

-----------------------------------------------------------------------------
\* Line l is in the ring and has yet to be drained.
Waiting(l) == /\ l \in Int /\ base < l /\ l <= Logged
              /\ base + flushed < l /\ Logged - Capacity < l

\* The lines up to the mark, and only those, may be on their way or archived;
\* what is on its way has no row yet.
MarkBounds ==
    /\ \A l \in Lines : rows[l] <= 1
    /\ \A l \in Lines : rows[l] > 0 => l <= base + flushed
    /\ \A l \in writing : l <= base + flushed /\ rows[l] = 0

\* A line that was given up is not on its way to anywhere.
LostForGood == \A l \in lost : l <= Logged /\ l \notin writing /\ ~Waiting(l)

\* NothingSkipped, with Waiting.
Accounted ==
    \A l \in Lines : l <= Logged => rows[l] > 0 \/ Waiting(l) \/ l \in writing \/ l \in lost

IInv == LogTypeOK /\ MarkBounds /\ LostForGood /\ Accounted

\* What most steps need of the types.
Numbers ==
    /\ base \in Int /\ seq \in Int /\ flushed \in Int /\ Logged \in Int
    /\ 0 <= base /\ 0 <= flushed /\ flushed <= seq /\ base + seq <= MaxLines
    /\ Logged = base + seq
    /\ rows \in [Lines -> Nat]
    /\ writing \subseteq Lines /\ lost \subseteq Lines

LEMMA TypesGiveNumbers == LogTypeOK => Numbers
    BY BoundsNat DEF LogTypeOK, Logged, Numbers

\* Waiting is what drain() would return.
LEMMA WaitingIsUndrained ==
    ASSUME LogTypeOK
    PROVE  \A l : l \in LinesOf(Undrained) <=> Waiting(l)
<1> USE CapacityPositive, BoundsNat DEF LogTypeOK
<1> SUFFICES ASSUME NEW l PROVE l \in LinesOf(Undrained) <=> Waiting(l)
    OBVIOUS
<1>1. ASSUME l \in LinesOf(Undrained) PROVE Waiting(l)
    BY <1>1 DEF LinesOf, Undrained, Ring, Waiting, Logged
<1>2. ASSUME Waiting(l) PROVE l \in LinesOf(Undrained)
    <2>1. l - base \in Undrained
        BY <1>2 DEF Undrained, Ring, Waiting, Logged
    <2>2. l = base + (l - base)
        BY <1>2 DEF Waiting
    <2> QED
        BY <2>1, <2>2 DEF LinesOf
<1> QED
    BY <1>1, <1>2

\* The lines an append pushes out of the ring are those that stop waiting.
LEMMA PushedOut ==
    ASSUME LogTypeOK, Log
    PROVE  \A l : l \in LinesOf(Undrained \ Ring') <=> Waiting(l) /\ ~Waiting(l)'
<1> USE CapacityPositive, BoundsNat DEF LogTypeOK
<1>0. seq' = seq + 1 /\ base' = base /\ flushed' = flushed
    BY DEF Log
<1> SUFFICES ASSUME NEW l
             PROVE  l \in LinesOf(Undrained \ Ring') <=> Waiting(l) /\ ~Waiting(l)'
    OBVIOUS
<1>1. ASSUME l \in LinesOf(Undrained \ Ring') PROVE Waiting(l) /\ ~Waiting(l)'
    BY <1>0, <1>1 DEF LinesOf, Undrained, Ring, Waiting, Logged
<1>2. ASSUME Waiting(l), ~Waiting(l)' PROVE l \in LinesOf(Undrained \ Ring')
    <2>1. l - base \in Undrained \ Ring'
        BY <1>0, <1>2 DEF Undrained, Ring, Waiting, Logged
    <2>2. l = base + (l - base)
        BY <1>2 DEF Waiting
    <2> QED
        BY <2>1, <2>2 DEF LinesOf
<1> QED
    BY <1>1, <1>2

-----------------------------------------------------------------------------
LEMMA InitHolds == LogInit => IInv
    BY CapacityPositive, BoundsNat
    DEF LogInit, IInv, LogTypeOK, MarkBounds, LostForGood, Accounted, Waiting, Logged, Lines, NoReader

LEMMA StepKeepsTypes ==
    ASSUME IInv, [LogNext]_logVars
    PROVE  LogTypeOK'
<1> USE CapacityPositive, BoundsNat DEF Lines, Logged
<1>0. LogTypeOK
    BY DEF IInv
<1>w. LinesOf(Undrained) \subseteq Lines
    <2>1. /\ base \in Int /\ seq \in Int /\ base + seq <= MaxLines
          /\ base >= 0 /\ seq >= 0
        BY <1>0 DEF LogTypeOK
    <2>2. \A k \in Undrained : base + k \in Lines
        BY <2>1 DEF Undrained, Ring
    <2> QED
        BY <2>2 DEF LinesOf
<1>1. CASE Tick
    BY <1>0, <1>1 DEF Tick, LogTypeOK, bufferVars
<1>2. CASE Log
    <2>1. LinesOf(Undrained \ Ring') \subseteq Lines
        BY <1>w DEF LinesOf
    <2>2. ms' \in [Lines -> 0 .. MaxMs]
        <3>1. PICK t \in Stamps : ms' = [ms EXCEPT ![Logged + 1] = t]
            BY <1>2 DEF Log
        <3>2. t \in 0 .. MaxMs
            BY <1>0 DEF Stamps, LogTypeOK
        <3> QED
            BY <1>0, <3>1, <3>2 DEF LogTypeOK
    <2>3. seq' \in 0 .. MaxLines /\ flushed' \in 0 .. seq' /\ base' + seq' \in 0 .. MaxLines
        BY <1>0, <1>2 DEF Log, LogTypeOK
    <2>4. lost' \in SUBSET Lines
        BY <1>0, <1>2, <2>1 DEF Log, LogTypeOK
    <2> QED
        BY <1>0, <1>2, <2>2, <2>3, <2>4 DEF Log, LogTypeOK
<1>3. CASE Drain
    BY <1>0, <1>3, <1>w DEF Drain, LogTypeOK
<1>4. CASE Written
    <2>1. rows' \in [Lines -> Nat]
        BY <1>0, <1>4 DEF Written, LogTypeOK
    <2> QED
        BY <1>0, <1>4, <2>1 DEF Written, LogTypeOK, bufferVars
<1>5. CASE WriteFails
    BY <1>0, <1>5 DEF WriteFails, LogTypeOK, bufferVars
<1>6. CASE Restart
    <2>1. /\ base' \in 0 .. MaxLines /\ seq' \in 0 .. MaxLines
          /\ flushed' \in 0 .. seq' /\ base' + seq' \in 0 .. MaxLines
        BY <1>0, <1>6 DEF Restart, LogTypeOK
    <2>2. lost' \in SUBSET Lines /\ writing' \in SUBSET Lines
        BY <1>0, <1>6, <1>w DEF Restart, LogTypeOK
    <2>3. reader' \in [at : {"idle", "archive"}, live : SUBSET Lines,
                       upto : 0 .. MaxLines, since : 0 .. MaxMs]
        BY <1>6 DEF Restart, NoReader
    <2> QED
        BY <1>0, <1>6, <2>1, <2>2, <2>3 DEF Restart, LogTypeOK
<1>7. CASE ReadRing
    <2>1. LinesOf(Ring) \subseteq Lines
        BY <1>0 DEF LinesOf, Ring, LogTypeOK
    <2>2. Logged \in 0 .. MaxLines
        BY <1>0 DEF LogTypeOK
    <2>3. PICK since \in 1 .. now :
             reader' = [at |-> "archive", live |-> LinesOf(Ring), upto |-> Logged,
                        since |-> since]
        BY <1>7 DEF ReadRing
    <2>4. since \in 0 .. MaxMs
        BY <1>0 DEF LogTypeOK
    <2>5. reader' \in [at : {"idle", "archive"}, live : SUBSET Lines,
                       upto : 0 .. MaxLines, since : 0 .. MaxMs]
        BY <2>1, <2>2, <2>3, <2>4
    <2> QED
        BY <1>0, <1>7, <2>5 DEF ReadRing, LogTypeOK, bufferVars
<1>8. CASE ReadArchive
    BY <1>0, <1>8 DEF ReadArchive, LogTypeOK, NoReader, bufferVars
<1>9. CASE UNCHANGED logVars
    BY <1>0, <1>9 DEF logVars, LogTypeOK
<1> QED
    BY <1>1, <1>2, <1>3, <1>4, <1>5, <1>6, <1>7, <1>8, <1>9 DEF LogNext

LEMMA StepKeepsMark ==
    ASSUME IInv, [LogNext]_logVars
    PROVE  MarkBounds'
<1> USE CapacityPositive, BoundsNat DEF Lines, Numbers
<1>0. LogTypeOK /\ MarkBounds
    BY DEF IInv
<1>t. Numbers
    BY <1>0, TypesGiveNumbers
<1>2. CASE Log
    BY <1>0, <1>t, <1>2 DEF Log, MarkBounds
<1>3. CASE Drain
    <2>1. \A l \in writing' : Waiting(l)
        BY <1>0, <1>3, WaitingIsUndrained DEF Drain
    <2>2. \A l \in writing' : l \in Lines /\ l <= base + seq /\ rows[l] = 0
        BY <1>0, <1>t, <2>1 DEF Waiting, Logged, MarkBounds
    <2> QED
        BY <1>0, <1>t, <1>3, <2>2 DEF Drain, MarkBounds
<1>4. CASE Written
    BY <1>0, <1>t, <1>4 DEF Written, MarkBounds, bufferVars
<1>5. CASE WriteFails
    BY <1>0, <1>t, <1>5 DEF WriteFails, MarkBounds, bufferVars
<1>6. CASE Restart
    BY <1>0, <1>t, <1>6 DEF Restart, MarkBounds, Logged
<1>7. CASE UNCHANGED <<bufferVars, writing, rows>>
    BY <1>0, <1>7 DEF MarkBounds, bufferVars
<1> QED
    BY <1>2, <1>3, <1>4, <1>5, <1>6, <1>7
    DEF LogNext, Tick, ReadRing, ReadArchive, logVars, bufferVars

LEMMA StepKeepsLost ==
    ASSUME IInv, [LogNext]_logVars
    PROVE  LostForGood'
<1> USE CapacityPositive, BoundsNat DEF Lines, Numbers
<1>0. LogTypeOK /\ MarkBounds /\ LostForGood
    BY DEF IInv
<1>t. Numbers
    BY <1>0, TypesGiveNumbers
<1>2. CASE Log
    <2> SUFFICES ASSUME NEW l \in lost'
                 PROVE  l <= Logged' /\ l \notin writing' /\ ~Waiting(l)'
        BY DEF LostForGood
    <2>1. CASE l \in lost
        BY <1>0, <1>t, <1>2, <2>1 DEF Log, LostForGood, Waiting, Logged
    <2>2. CASE l \in LinesOf(Undrained \ Ring')
        <3>1. Waiting(l) /\ ~Waiting(l)'
            BY <1>0, <1>2, <2>2, PushedOut
        <3>2. l \notin writing
            BY <1>0, <1>t, <3>1 DEF Waiting, MarkBounds
        <3>3. l <= Logged'
            BY <1>0, <1>t, <1>2, <3>1 DEF Log, Waiting, Logged
        <3> QED
            BY <1>2, <3>1, <3>2, <3>3 DEF Log
    <2> QED
        BY <1>2, <2>1, <2>2 DEF Log
<1>3. CASE Drain
    <2>1. \A l \in lost : l \notin writing'
        BY <1>0, <1>3, WaitingIsUndrained DEF Drain, LostForGood
    <2>2. \A l : ~Waiting(l)'
        BY <1>0, <1>t, <1>3 DEF Drain, Waiting, Logged
    <2> QED
        BY <1>0, <1>3, <2>1, <2>2 DEF Drain, LostForGood, Logged
<1>4. CASE Written
    BY <1>0, <1>4 DEF Written, LostForGood, Waiting, Logged, bufferVars
<1>5. CASE WriteFails
    BY <1>0, <1>t, <1>5 DEF WriteFails, LostForGood, MarkBounds, Waiting, Logged, bufferVars
<1>6. CASE Restart
    <2>1. \A l : ~Waiting(l)'
        BY <1>0, <1>t, <1>6 DEF Restart, Waiting, Logged
    <2>2. Logged' = Logged
        BY <1>0, <1>t, <1>6 DEF Restart, Logged
    <2>3. \A l \in LinesOf(Undrained) : l <= Logged
        BY <1>0, WaitingIsUndrained DEF Waiting
    <2>4. \A l \in writing : l <= Logged
        BY <1>0 DEF MarkBounds, Logged, LogTypeOK
    <2> QED
        BY <1>0, <1>6, <2>1, <2>2, <2>3, <2>4 DEF Restart, LostForGood
<1>7. CASE UNCHANGED <<bufferVars, writing, lost>>
    BY <1>0, <1>7 DEF LostForGood, Waiting, Logged, bufferVars
<1> QED
    BY <1>2, <1>3, <1>4, <1>5, <1>6, <1>7
    DEF LogNext, Tick, ReadRing, ReadArchive, logVars, bufferVars

LEMMA StepAccounts ==
    ASSUME IInv, [LogNext]_logVars
    PROVE  Accounted'
<1> USE CapacityPositive, BoundsNat DEF Lines, Numbers
<1>0. LogTypeOK /\ MarkBounds /\ Accounted
    BY DEF IInv
<1>t. Numbers
    BY <1>0, TypesGiveNumbers
<1>2. CASE Log
    <2> SUFFICES ASSUME NEW l \in Lines, l <= Logged'
                 PROVE  (rows[l] > 0 \/ Waiting(l) \/ l \in writing \/ l \in lost)'
        BY DEF Accounted
    <2>1. CASE l = Logged + 1
        <3>1. Waiting(l)'
            BY <1>0, <1>t, <1>2, <2>1 DEF Log, Waiting, Logged
        <3> QED
            BY <3>1
    <2>2. CASE Waiting(l) /\ ~Waiting(l)'
        <3>1. l \in LinesOf(Undrained \ Ring')
            BY <1>0, <1>2, <2>2, PushedOut
        <3> QED
            BY <1>2, <3>1 DEF Log
    <2>3. CASE l <= Logged /\ ~Waiting(l)
        BY <1>0, <1>2, <2>3 DEF Accounted, Log
    <2>4. l = Logged + 1 \/ l <= Logged
        BY <1>0, <1>t, <1>2 DEF Log, Logged
    <2> QED
        BY <2>1, <2>2, <2>3, <2>4
<1>3. CASE Drain
    <2>1. \A l : Waiting(l) => l \in writing'
        BY <1>0, <1>3, WaitingIsUndrained DEF Drain
    <2> QED
        BY <1>0, <1>3, <2>1 DEF Drain, Accounted, Logged
<1>4. CASE Written
    <2>1. \A l \in Lines : rows[l] > 0 => rows'[l] > 0
        BY <1>0, <1>t, <1>4 DEF Written
    <2>2. \A l \in Lines : l \in writing => rows'[l] > 0
        BY <1>0, <1>t, <1>4 DEF Written
    <2> QED
        BY <1>0, <1>4, <2>1, <2>2 DEF Written, Accounted, Waiting, Logged, bufferVars
<1>5. CASE WriteFails
    BY <1>0, <1>5 DEF WriteFails, Accounted, Waiting, Logged, bufferVars
<1>6. CASE Restart
    <2>1. \A l : Waiting(l) => l \in lost'
        BY <1>0, <1>6, WaitingIsUndrained DEF Restart
    <2>2. Logged' = Logged
        BY <1>0, <1>t, <1>6 DEF Restart, Logged
    <2> QED
        BY <1>0, <1>6, <2>1, <2>2 DEF Restart, Accounted
<1>7. CASE UNCHANGED <<bufferVars, writing, rows, lost>>
    BY <1>0, <1>7 DEF Accounted, Waiting, Logged, bufferVars
<1> QED
    BY <1>2, <1>3, <1>4, <1>5, <1>6, <1>7
    DEF LogNext, Tick, ReadRing, ReadArchive, logVars, bufferVars

LEMMA Inductive == LogSpec => []IInv
<1>1. LogInit => IInv
    BY InitHolds
<1>2. IInv /\ [LogNext]_logVars => IInv'
    BY StepKeepsTypes, StepKeepsMark, StepKeepsLost, StepAccounts DEF IInv
<1> QED
    BY <1>1, <1>2, PTL DEF LogSpec

-----------------------------------------------------------------------------
\* The state is well formed, and the mark never runs ahead of the lines.
THEOREM TypeCorrect == LogSpec => []LogTypeOK
<1>1. IInv => LogTypeOK
    BY DEF IInv
<1> QED
    BY <1>1, Inductive, PTL

\* No line is archived twice, for any capacity and any delay of the transfer.
THEOREM NeverArchivedTwice == LogSpec => []ArchivedOnce
<1>1. IInv => ArchivedOnce
    BY DEF IInv, MarkBounds, ArchivedOnce
<1> QED
    BY <1>1, Inductive, PTL

\* Every line is archived, or still on its way, or was lost in a known manner.
THEOREM NoLineSkipped == LogSpec => []NothingSkipped
<1>1. IInv => NothingSkipped
    <2> SUFFICES ASSUME IInv, NEW l \in 1 .. Logged
                 PROVE  rows[l] > 0 \/ l \in LinesOf(Undrained) \cup writing \/ l \in lost
        BY DEF NothingSkipped
    <2>1. l \in Lines /\ l <= Logged
        BY CapacityPositive, BoundsNat DEF IInv, LogTypeOK, Lines, Logged
    <2> QED
        BY <2>1, WaitingIsUndrained DEF IInv, Accounted
<1> QED
    BY <1>1, Inductive, PTL

\* Both: every line is accounted for, and once.
THEOREM LinesStayAccounted == LogSpec => []LinesAccounted
BY NeverArchivedTwice, NoLineSkipped, PTL DEF LinesAccounted

-----------------------------------------------------------------------------
(***************************************************************************)
(* The page.  No line is stamped more than Late after one logged later,    *)
(* and what the ring did not hold when it was read is older, in the order  *)
(* of logging, than all it held.                                           *)
(***************************************************************************)

InTurn ==
    /\ \A l \in Lines : l <= Logged => ms[l] <= now
    /\ \A l, v \in Lines : l < v /\ v <= Logged => ms[l] - ms[v] <= Late

RingOnTop ==
    reader.at = "archive" =>
        /\ reader.upto <= Logged
        /\ \A v \in reader.live : v \in Lines /\ v <= reader.upto
        /\ \A v \in reader.live, l \in Lines : l <= reader.upto => l < v \/ l \in reader.live

LEMMA StampsInTurn ==
    ASSUME LogTypeOK, InTurn, [LogNext]_logVars
    PROVE  InTurn'
<1> USE BoundsNat, LateNat DEF Lines
<1>t. /\ base \in Int /\ seq \in Int /\ Logged \in Int /\ Logged = base + seq
      /\ now \in Int /\ ms \in [Lines -> Int]
    BY DEF LogTypeOK, Logged
<1>1. CASE Tick
    <2>1. ms' = ms /\ Logged' = Logged /\ now' = now + 1
        BY <1>1 DEF Tick, bufferVars, Logged
    <2> QED
        BY <1>t, <2>1 DEF InTurn
<1>2. CASE Log
    <2>1. PICK t \in Stamps : ms' = [ms EXCEPT ![Logged + 1] = t]
        BY <1>2 DEF Log
    <2>2. t \in Int /\ t <= now /\ now - t <= Late
        BY <1>t, <2>1 DEF Stamps
    <2>3. Logged' = Logged + 1 /\ now' = now
        BY <1>t, <1>2 DEF Log, Logged
    <2>4. \A l \in Lines : ms'[l] = IF l = Logged + 1 THEN t ELSE ms[l]
        BY <1>t, <2>1
    <2>5. \A l \in Lines : l <= Logged' => ms'[l] <= now'
        BY <1>t, <2>2, <2>3, <2>4 DEF InTurn
    <2>6. ASSUME NEW l \in Lines, NEW v \in Lines, l < v, v <= Logged'
          PROVE  ms'[l] - ms'[v] <= Late
        <3>1. CASE v = Logged + 1
            <4>1. ms'[v] = t /\ ms'[l] = ms[l] /\ ms[l] <= now
                BY <1>t, <2>4, <2>6, <3>1 DEF InTurn
            <4>2. ms[l] \in Int
                BY <1>t
            <4> QED
                BY <1>t, <2>2, <4>1, <4>2
        <3>2. CASE v # Logged + 1
            <4>1. v <= Logged /\ ms'[v] = ms[v] /\ ms'[l] = ms[l]
                BY <1>t, <2>3, <2>4, <2>6, <3>2
            <4> QED
                BY <2>6, <4>1 DEF InTurn
        <3> QED
            BY <3>1, <3>2
    <2> QED
        BY <2>5, <2>6 DEF InTurn
<1>3. CASE Restart
    <2>1. Logged' = Logged /\ ms' = ms /\ now' = now
        BY <1>t, <1>3 DEF Restart, Logged
    <2> QED
        BY <2>1 DEF InTurn
<1>4. CASE ms' = ms /\ now' = now /\ base' = base /\ seq' = seq
    BY <1>4 DEF InTurn, Logged
<1> QED
    BY <1>1, <1>2, <1>3, <1>4
    DEF LogNext, logVars, bufferVars, Drain, Written, WriteFails, ReadRing, ReadArchive

LEMMA RingStaysOnTop ==
    ASSUME LogTypeOK, RingOnTop, [LogNext]_logVars
    PROVE  RingOnTop'
<1> USE CapacityPositive, BoundsNat DEF Lines
<1>t. base \in Int /\ seq \in Int /\ Logged \in Int /\ Logged = base + seq /\ 0 <= base
      /\ 0 <= seq /\ base + seq <= MaxLines
    BY DEF LogTypeOK, Logged
<1>1. CASE ReadRing
    <2>1. /\ reader'.live = LinesOf(Ring) /\ reader'.upto = Logged /\ Logged' = Logged
        BY <1>1 DEF ReadRing, bufferVars, Logged
    <2>2. \A l : l \in LinesOf(Ring) => l \in Int /\ l > base /\ l > Logged - Capacity /\ l <= Logged
        BY <1>t DEF LinesOf, Ring
    <2>3. ASSUME NEW l \in Int, l > base, l > Logged - Capacity, l <= Logged
          PROVE  l \in LinesOf(Ring)
        <3>1. l - base \in Ring
            BY <1>t, <2>3 DEF Ring
        <3>2. l = base + (l - base)
            BY <1>t
        <3> QED
            BY <3>1, <3>2 DEF LinesOf
    <2>4. \A v \in LinesOf(Ring), l \in Lines : l <= Logged => l < v \/ l \in LinesOf(Ring)
        BY <1>t, <2>2, <2>3
    <2> QED
        BY <1>t, <2>1, <2>2, <2>4 DEF RingOnTop
<1>2. CASE ReadArchive \/ Restart
    BY <1>2 DEF ReadArchive, Restart, NoReader, RingOnTop
<1>3. CASE reader' = reader /\ Logged <= Logged' /\ Logged' \in Int
    <2>1. reader.upto \in Int
        BY DEF LogTypeOK
    <2> QED
        BY <1>t, <1>3, <2>1 DEF RingOnTop
<1>4. CASE Log
    <2>1. Logged <= Logged' /\ Logged' \in Int
        BY <1>t, <1>4 DEF Log, Logged
    <2> QED
        BY <1>3, <1>4, <2>1 DEF Log
<1>5. CASE base' = base /\ seq' = seq /\ reader' = reader
    <2>1. Logged <= Logged' /\ Logged' \in Int
        BY <1>t, <1>5 DEF Logged
    <2> QED
        BY <1>3, <1>5, <2>1
<1> QED
    BY <1>1, <1>2, <1>4, <1>5 DEF LogNext, logVars, bufferVars, Tick, Drain, Written, WriteFails

\* The page shows each line once and leaves out no older line of the archive, for
\* any capacity and any delay of the records, whatever happens between its two
\* readings.
THEOREM PageShowsTheWhole == LogSpec => []PageWhole
<1>1. LogInit => InTurn /\ RingOnTop
    BY BoundsNat, LateNat DEF LogInit, InTurn, RingOnTop, NoReader, Logged, Lines
<1>2. LogTypeOK /\ InTurn /\ RingOnTop /\ [LogNext]_logVars => InTurn' /\ RingOnTop'
    BY StampsInTurn, RingStaysOnTop
<1>3. LogTypeOK /\ InTurn /\ RingOnTop => PageWhole
    <2> SUFFICES ASSUME LogTypeOK, InTurn, RingOnTop, reader.at = "archive"
                 PROVE  /\ reader.live \cap FromArchive = {}
                        /\ \A l \in InWindow : \/ l \in reader.live \cup FromArchive
                                               \/ l > reader.upto \/ CutOff(l)
        BY DEF PageWhole
    <2>t. /\ ms \in [Lines -> Int] /\ Logged \in Int /\ reader.upto \in Int
          /\ reader.live \subseteq Lines /\ InWindow \subseteq Lines
        BY DEF LogTypeOK, Logged, InWindow
    <2>1. reader.live \cap FromArchive = {}
        <3> SUFFICES ASSUME NEW l \in reader.live, l \in FromArchive PROVE FALSE
            OBVIOUS
        <3>1. ms[l] < ms[l]
            BY DEF FromArchive
        <3>2. ms[l] \in Int
            BY <2>t
        <3> QED
            BY <3>1, <3>2
    <2>2. ASSUME NEW l \in InWindow, l \notin reader.live, l \notin FromArchive,
                 ~(l > reader.upto)
          PROVE  CutOff(l)
        <3>1. PICK v \in reader.live : ~(ms[l] < ms[v])
            BY <2>2 DEF FromArchive
        <3>2. l \in Lines /\ v \in Lines /\ l \in Int /\ v \in Int
            BY <2>t DEF Lines
        <3>3. l < v /\ v <= Logged
            BY <2>t, <2>2, <3>2 DEF RingOnTop
        <3>4. ms[l] - ms[v] <= Late
            BY <3>2, <3>3 DEF InTurn
        <3>5. ms[l] \in Int /\ ms[v] \in Int
            BY <2>t, <3>2
        <3>6. 0 <= ms[l] - ms[v]
            BY <3>1, <3>5
        <3> QED
            BY <3>3, <3>4, <3>6 DEF CutOff
    <2> QED
        BY <2>1, <2>2
<1> QED
    BY <1>1, <1>2, <1>3, TypeCorrect, PTL DEF LogSpec

-----------------------------------------------------------------------------
(***************************************************************************)
(* The lives of the lines are those LineLife allows: LinesSettle but for   *)
(* its liveness.                                                           *)
(***************************************************************************)

LEMMA FateSteps ==
    ASSUME IInv, IInv', [LogNext]_logVars
    PROVE  [Life!Next]_Fate
<1> USE CapacityPositive, BoundsNat
<1>1. Fate' \in [Life!Lines -> Life!Fates]
    BY DEF Fate, Life!Lines, Life!Fates, Lines
<1>2. ASSUME NEW l \in Life!Lines PROVE Fate'[l] \in Life!After(Fate[l])
    <2>0. l \in Lines /\ LogTypeOK
        BY DEF Life!Lines, Lines, IInv
    <2>1. l <= Logged => l <= Logged'
        <3>1. base \in Int /\ seq \in Int /\ l \in Int
            BY <2>0 DEF LogTypeOK, Lines
        <3>2. CASE Log
            BY <3>1, <3>2 DEF Log, Logged
        <3>3. CASE Restart
            BY <3>1, <3>3 DEF Restart, Logged
        <3>4. CASE ~Log /\ ~Restart
            BY <3>1, <3>4
            DEF LogNext, logVars, bufferVars, Logged, Tick, Drain, Written, WriteFails, ReadRing, ReadArchive
        <3> QED
            BY <3>2, <3>3, <3>4
    <2>2. rows[l] > 0 => rows'[l] > 0
        BY <2>0
        DEF LogNext, logVars, bufferVars, LogTypeOK, Tick, Log, Drain, Written, WriteFails,
            Restart, ReadRing, ReadArchive
    <2>3. l \in lost => l \in lost'
        BY DEF LogNext, logVars, Tick, Log, Drain, Written, WriteFails, Restart, ReadRing, ReadArchive
    <2>4. l \in lost => ~(rows[l] = 0 /\ rows'[l] > 0)
        BY <2>0
        DEF LogNext, logVars, bufferVars, IInv, LostForGood, LogTypeOK, Tick, Log, Drain, Written,
            WriteFails, Restart, ReadRing, ReadArchive
    <2>5. ~(l <= Logged) => rows'[l] = 0 /\ l \notin lost'
        <3> SUFFICES ASSUME ~(l <= Logged) PROVE rows'[l] = 0 /\ l \notin lost'
            OBVIOUS
        <3>1. rows[l] = 0 /\ l \notin lost /\ l \notin writing /\ ~Waiting(l)
            <4>1. base \in Int /\ seq \in Int /\ flushed \in Int /\ l \in Int /\ flushed <= seq
                BY <2>0 DEF LogTypeOK, Lines
            <4>2. ~(l <= base + flushed)
                BY <4>1 DEF Logged
            <4>3. rows[l] \in Nat
                BY <2>0 DEF LogTypeOK
            <4>4. rows[l] = 0 /\ l \notin writing
                BY <2>0, <4>2, <4>3 DEF IInv, MarkBounds
            <4> QED
                BY <4>4 DEF IInv, LostForGood, Waiting
        <3>2. l \notin LinesOf(Undrained)
            BY <2>0, <3>1, WaitingIsUndrained
        <3>3. CASE Log
            BY <2>0, <3>1, <3>3, PushedOut DEF Log
        <3>4. CASE ~Log
            BY <2>0, <3>1, <3>2, <3>4
            DEF LogNext, logVars, bufferVars, LogTypeOK, Tick, Drain, Written, WriteFails, Restart,
                ReadRing, ReadArchive
        <3> QED
            BY <3>3, <3>4
    <2>6. Fate[l] = (IF l > Logged THEN "unborn" ELSE IF rows[l] > 0 THEN "archived"
                     ELSE IF l \in lost THEN "lost" ELSE "pending")
        BY <2>0 DEF Fate
    <2>7. Fate'[l] = (IF l > Logged' THEN "unborn" ELSE IF rows'[l] > 0 THEN "archived"
                      ELSE IF l \in lost' THEN "lost" ELSE "pending")
        BY <2>0 DEF Fate, Lines
    <2>8. /\ rows[l] \in Nat /\ rows'[l] \in Nat
          /\ Logged \in Int /\ Logged' \in Int /\ l \in Int
        BY <2>0 DEF IInv, LogTypeOK, Logged, Lines
    <2> QED
        BY <2>1, <2>2, <2>3, <2>4, <2>5, <2>6, <2>7, <2>8 DEF Life!After
<1> QED
    BY <1>1, <1>2 DEF Life!Next

\* The archive implements the life of a line: it begins unborn, is pending once
\* logged, and what is archived or lost stays so.
THEOREM ImplementsLineLife == LogSpec => Life!Init /\ [][Life!Next]_Fate
<1>1. LogInit => Life!Init
    BY BoundsNat DEF LogInit, Life!Init, Fate, Life!Lines, Lines, Logged
<1>2. IInv /\ IInv' /\ [LogNext]_logVars => [Life!Next]_Fate
    BY FateSteps
<1> QED
    BY <1>1, <1>2, Inductive, PTL DEF LogSpec

-----------------------------------------------------------------------------
(***************************************************************************)
(* The page that follows a log.                                            *)
(***************************************************************************)

\* How long the log was when the stream last read it.
ReadUpTo == IF lsReads = <<>> THEN 0 ELSE lsReads[Len(lsReads)]

StTyped ==
    /\ lsSource \in LsSources /\ lsLines \in Int /\ lsAhead \in Nat /\ lsNow \in Nat
    /\ lsLog \in Seq([kind : LsKinds, stamp : Nat]) /\ Len(lsLog) <= LsMaxLines
    /\ \A i \in DOMAIN lsLog : lsLog[i].stamp <= lsNow + lsAhead
    /\ lsStep \in {"off", "on", "ended"}
    /\ lsReads \in Seq(Nat) /\ lsFrom \in Nat /\ lsUnread \in BOOLEAN
    /\ lsSent \in [1 .. LsMaxLines -> Nat]

\* The readings find a log that only grows, and nothing is sent without one.
ReadsRise ==
    /\ \A m, n \in DOMAIN lsReads : m <= n => lsReads[m] <= lsReads[n]
    /\ ReadUpTo <= Len(lsLog) /\ Known <= ReadUpTo
    /\ lsStep = "off" => lsReads = <<>> /\ ~lsUnread
    /\ \A i \in 1 .. LsMaxLines : lsSent[i] > 0 => i <= ReadUpTo

\* The memory is never fuller than it may be, so that a failed round never empties it,
\* unless the request asks for 0 lines.
MemoryBounded == IsFiniteSet(lsSeen) /\ (lsLines # 0 => Cardinality(lsSeen) <= Memory)

\* What is remembered is a line that was read.
SeenWereRead ==
    \A key \in lsSeen :
        \E j \in DOMAIN lsLog :
            /\ j <= ReadUpTo /\ Visible(j)
            /\ key.stamp = lsLog[j].stamp /\ key.text = lsLog[j].kind.text

\* What was read, and can be read again, is remembered.
ReadRemembered ==
    lsAhead <= LsTolerance /\ lsLines # 0 =>
        \A i \in Leggi : i <= Known \/ lsSent[i] > 0 => Chiave(i) \in lsSeen

StInv ==
    StTyped /\ ReadsRise /\ MemoryBounded /\ SeenWereRead /\ ReadRemembered /\ StreamHonest

\* A reading has one line at least, and the memory holds as many, unless 0 are asked for.
LEMMA MemoryRoom ==
    ASSUME lsLines \in Int
    PROVE  /\ Cut \in Nat \ {0} /\ Memory \in Nat
           /\ lsLines # 0 => Cut <= Memory
<1>1. Cut \in Nat \ {0} /\ (lsLines # 0 => Cut <= 1 \/ Cut <= lsLines)
  BY LsCuts DEF Cut
<1>2. \A a \in Nat \ {0}, b \in Int : b <= a * (IF b > 1 THEN b ELSE 1)
                                    /\ 1 <= a * (IF b > 1 THEN b ELSE 1)
                                    /\ a * (IF b > 1 THEN b ELSE 1) \in Nat
  <2>1. \A a, b \in Nat \ {0} : a * b \in Nat /\ b <= a * b
    OBVIOUS
  <2> SUFFICES ASSUME NEW a \in Nat \ {0}, NEW b \in Int
               PROVE  b <= a * (IF b > 1 THEN b ELSE 1) /\ 1 <= a * (IF b > 1 THEN b ELSE 1)
                      /\ a * (IF b > 1 THEN b ELSE 1) \in Nat
    OBVIOUS
  <2> DEFINE most == IF b > 1 THEN b ELSE 1
  <2>2. most \in Nat \ {0} /\ b <= most /\ 1 <= most
    OBVIOUS
  <2> HIDE DEF most
  <2>3. a * most \in Nat /\ most <= a * most
    BY <2>1, <2>2
  <2>4. b <= a * most /\ 1 <= a * most /\ a * most \in Nat
    BY <2>2, <2>3
  <2> QED
    BY <2>4 DEF most
<1>3. lsLines <= Memory /\ 1 <= Memory /\ Memory \in Nat
  BY <1>2, LsCuts DEF Memory
<1> QED
  BY <1>1, <1>3

\* The set of the last lines that count is no larger than the cut, and its keys are no more.
LEMMA LeggiFew ==
    ASSUME StTyped
    PROVE  /\ IsFiniteSet(Leggi)
           /\ IsFiniteSet({Chiave(i) : i \in Leggi})
           /\ Cardinality({Chiave(i) : i \in Leggi}) <= Cut
<1>0. Cut \in Nat \ {0}
  BY MemoryRoom DEF StTyped
<1> DEFINE above(i) == {j \in DOMAIN lsLog : j > i /\ Counts(j)}
<1>1. IsFiniteSet(DOMAIN lsLog) /\ DOMAIN lsLog \subseteq Nat /\ Leggi \subseteq DOMAIN lsLog
  <2>1. DOMAIN lsLog = 1 .. Len(lsLog) /\ Len(lsLog) \in Nat
    BY DEF StTyped
  <2>2. IsFiniteSet(1 .. Len(lsLog))
    BY <2>1, FS_Interval
  <2> QED
    BY <2>1, <2>2 DEF Leggi
<1>2. IsFiniteSet(Leggi)
  BY <1>1, FS_Subset
<1>3. Cardinality(Leggi) <= Cut
  <2>1. CASE Leggi = {}
    BY <1>0, <2>1, FS_EmptySet
  <2>2. CASE Leggi # {}
    <3>1. PICK i \in Leggi : \A j \in Leggi : i <= j
      <4>1. Leggi \subseteq Nat
        BY <1>1
      <4>2. PICK i \in Leggi : \A j \in Leggi : ~ (<<j, i>> \in OpToRel(<, Nat))
        BY <2>2, <4>1, NatLessThanWellFounded, WFMin
      <4>3. \A j \in Leggi : ~ (j < i)
        BY <4>1, <4>2, Zenon DEF OpToRel
      <4>4. \A j \in Leggi : j \in Nat
        BY <4>1
      <4> QED
        BY <4>3, <4>4
    <3>2. IsFiniteSet(above(i)) /\ Cardinality(above(i)) \in Nat
      BY <1>1, FS_Subset, FS_CardinalityType
    <3>3. Cardinality(above(i)) < Cut
      BY <3>1 DEF Leggi
    <3>4. Leggi \subseteq above(i) \cup {i}
      <4> SUFFICES ASSUME NEW j \in Leggi, j # i PROVE j \in above(i)
        OBVIOUS
      <4>1. i <= j /\ i \in Nat /\ j \in Nat /\ j \in DOMAIN lsLog /\ Counts(j)
        BY <1>1, <3>1 DEF Leggi
      <4> QED
        BY <4>1
    <3>5. i \notin above(i)
      BY <1>1, <3>1
    <3>6. /\ IsFiniteSet(above(i) \cup {i})
          /\ Cardinality(above(i) \cup {i}) = Cardinality(above(i)) + 1
      <4> HIDE DEF above
      <4> QED
        BY <3>2, <3>5, FS_AddElement
    <3>7. Cardinality(Leggi) <= Cardinality(above(i) \cup {i})
      <4> HIDE DEF above
      <4> QED
        BY <3>4, <3>6, FS_Subset
    <3>8. Cardinality(Leggi) \in Nat
      BY <1>2, FS_CardinalityType
    <3> HIDE DEF above
    <3> QED
      BY <3>2, <3>3, <3>6, <3>7, <3>8, <1>0
  <2> QED
    BY <2>1, <2>2
<1>4. /\ IsFiniteSet({Chiave(i) : i \in Leggi})
      /\ Cardinality({Chiave(i) : i \in Leggi}) <= Cardinality(Leggi)
  <2> DEFINE keys == {Chiave(i) : i \in Leggi}
             key == [i \in Leggi |-> Chiave(i)]
  <2>1. key \in Surjection(Leggi, keys)
    BY DEF Surjection
  <2> HIDE DEF key
  <2> QED
    BY <1>2, <2>1, FS_Surjection
<1>5. Cardinality({Chiave(i) : i \in Leggi}) \in Nat /\ Cardinality(Leggi) \in Nat
  BY <1>2, <1>4, FS_CardinalityType
<1> QED
  BY <1>2, <1>3, <1>4, <1>5, <1>0

\* A key is that of a line as it was written, whenever it is read.
LEMMA KeyFacts ==
    ASSUME NEW i
    PROVE  /\ Chiave(i).stamp = lsLog[i].stamp /\ Chiave(i).text = lsLog[i].kind.text
           /\ StTyped /\ i \in DOMAIN lsLog /\ lsAhead <= LsTolerance /\ lsLines # 0 =>
                 Chiave(i) = [year |-> "this", stamp |-> lsLog[i].stamp,
                              text |-> lsLog[i].kind.text]
<1>1. StTyped /\ i \in DOMAIN lsLog /\ lsAhead <= LsTolerance => Anno(lsLog[i].stamp) = "this"
  <2> SUFFICES ASSUME StTyped, i \in DOMAIN lsLog, lsAhead <= LsTolerance
               PROVE  ~ (lsLog[i].stamp > lsNow + LsTolerance)
    BY DEF Anno
  <2>1. lsLog[i] \in [kind : LsKinds, stamp : Nat]
    <3> DEFINE Line == [kind : LsKinds, stamp : Nat]
    <3>1. lsLog \in Seq(Line)
      BY DEF StTyped
    <3> HIDE DEF Line
    <3>2. lsLog[i] \in Line
      BY <3>1
    <3> QED
      BY <3>2 DEF Line
  <2>2. /\ lsLog[i].stamp \in Nat /\ lsNow \in Nat /\ lsAhead \in Nat
        /\ lsLog[i].stamp <= lsNow + lsAhead
    BY <2>1 DEF StTyped
  <2> QED
    BY <2>2, LsCuts
<1> QED
  BY <1>1 DEF Chiave

\* A line that may be shown counts, whatever is left out and where.
LEMMA ShownCounts ==
    ASSUME StTyped, NEW i, Visible(i)
    PROVE  Counts(i)
<1>1. lsSource \in {"router", "journal", "plain", "backend", "audit"}
  BY LsPlaces DEF StTyped
<1>2. AtSource[lsSource] \subseteq NeverShown[lsSource]
  BY <1>1 DEF AtSource, NeverShown
<1> QED
  BY <1>2 DEF Visible, Counts
-----------------------------------------------------------------------------
LEMMA StInitInv == LsInit => StInv
<1> SUFFICES ASSUME LsInit PROVE StInv
  OBVIOUS
<1>1. StTyped
  <2>1. lsAhead \in Nat
    BY LsPlaces DEF LsInit
  <2>2. lsLog = <<>> /\ lsReads = <<>> /\ Len(lsLog) = 0 /\ DOMAIN lsLog = {}
    BY DEF LsInit
  <2>3. lsLines \in Int /\ lsUnread \in BOOLEAN
    BY LsCuts DEF LsInit
  <2> QED
    BY <2>1, <2>2, <2>3, LsBounds DEF LsInit, StTyped
<1>2. Leggi = {} /\ ReadUpTo = 0
  BY DEF LsInit, Leggi, ReadUpTo
<1>3. IsFiniteSet(lsSeen) /\ Cardinality(lsSeen) = 0
  BY FS_EmptySet DEF LsInit
<1>6. lsLines \in Int
  BY LsCuts DEF LsInit
<1>4. ReadsRise /\ MemoryBounded /\ SeenWereRead /\ ReadRemembered
  BY <1>2, <1>3, <1>6, MemoryRoom
  DEF LsInit, Known, ReadsRise, MemoryBounded, SeenWereRead, ReadRemembered
<1>5. StreamHonest
  BY DEF LsInit, StreamHonest, Known
<1> QED
  BY <1>1, <1>4, <1>5 DEF StInv

\* While neither the log nor the memory changes, and no reading is made, all stays true.
LEMMA QuietStream ==
    ASSUME StInv, UNCHANGED <<lsSource, lsLines, lsAhead, lsLog, lsSeen, lsReads, lsSent>>,
           UNCHANGED Known, lsFrom' \in Nat, lsUnread' \in BOOLEAN,
           UNCHANGED lsStep => UNCHANGED lsUnread,
           lsNow' \in Nat, lsNow <= lsNow', lsStep' \in {"on", "ended"} \/ UNCHANGED lsStep
    PROVE  StInv'
<1> USE DEF StInv
<1>1. StTyped'
  <2>1. ASSUME NEW i \in DOMAIN lsLog PROVE lsLog[i].stamp <= lsNow' + lsAhead
    <3> DEFINE Line == [kind : LsKinds, stamp : Nat]
    <3>1. lsLog \in Seq(Line)
      BY DEF StTyped
    <3>2. lsLog[i] \in Line
      <4> HIDE DEF Line
      <4> QED
        BY <3>1
    <3>3. lsLog[i].stamp \in Nat /\ lsLog[i].stamp <= lsNow + lsAhead
      BY <3>2 DEF StTyped
    <3> QED
      BY <3>3 DEF StTyped
  <2> QED
    BY <2>1 DEF StTyped
<1>2. Leggi' = Leggi /\ ReadUpTo' = ReadUpTo
  BY DEF Leggi, Counts, Visible, ReadUpTo, Cut
<1>3. ReadsRise' /\ MemoryBounded' /\ SeenWereRead'
  BY <1>2 DEF ReadsRise, MemoryBounded, SeenWereRead, Visible, Memory
<1>4. ReadRemembered'
  <2> SUFFICES ASSUME lsAhead <= LsTolerance, lsLines # 0, NEW i \in Leggi, i <= Known \/ lsSent[i] > 0
               PROVE  Chiave(i)' \in lsSeen
    BY <1>2 DEF ReadRemembered
  <2>1. Chiave(i) \in lsSeen
    BY DEF ReadRemembered
  <2>2. i \in DOMAIN lsLog
    BY DEF Leggi
  <2>3. Chiave(i) = [year |-> "this", stamp |-> lsLog[i].stamp, text |-> lsLog[i].kind.text]
    BY <2>2, KeyFacts
  <2>4. Chiave(i)' = [year |-> "this", stamp |-> lsLog[i].stamp, text |-> lsLog[i].kind.text]
    <3>1. Anno(lsLog[i].stamp)' = "this"
      <4>1. lsLog[i].stamp <= lsNow' + lsAhead /\ lsLog[i].stamp \in Nat /\ lsAhead \in Nat
        <5> DEFINE Line == [kind : LsKinds, stamp : Nat]
        <5>1. lsLog \in Seq(Line)
          BY DEF StTyped
        <5>2. lsLog[i] \in Line
          <6> HIDE DEF Line
          <6> QED
            BY <2>2, <5>1
        <5> QED
          BY <1>1, <2>2, <5>2 DEF StTyped
      <4> QED
        BY <4>1, LsCuts DEF Anno
    <3> QED
      BY <3>1 DEF Chiave
  <2> QED
    BY <2>1, <2>3, <2>4
<1>5. StreamHonest'
  <2>1. ASSUME NEW i PROVE Visible(i)' = Visible(i) /\ Pushed(i)' = Pushed(i) /\ Twin(i)' = Twin(i)
    BY DEF Visible, Pushed, FirstReading, Counts, Twin, Cut
  <2> QED
    BY <2>1 DEF StreamHonest
<1> QED
  BY <1>1, <1>3, <1>4, <1>5

\* A failed round leaves the memory as it was.
LEMMA MemoryKept ==
    ASSUME MemoryBounded, lsLines \in Int, lsLines # 0
    PROVE  SeenAfter({}) = lsSeen
<1>1. lsSeen \cup {Chiave(i) : i \in {}} = lsSeen
  OBVIOUS
<1>2. Cardinality(lsSeen) \in Nat /\ Cardinality(lsSeen) <= Memory
  BY FS_CardinalityType DEF MemoryBounded
<1>3. ~ (Cardinality(lsSeen) > Memory)
  BY <1>2, MemoryRoom
<1> QED
  BY <1>1, <1>3 DEF SeenAfter

\* What the readings found is where it was, whatever is written after it.
LEMMA LineWrittenKeeps ==
    ASSUME StInv, NEW kind \in LsKinds, LineWritten(kind)
    PROVE  StInv'
<1> USE DEF StInv
<1> DEFINE Line == [kind : LsKinds, stamp : Nat]
           line == [kind |-> kind, stamp |-> lsNow + lsAhead]
           n == Len(lsLog)
<1>0. lsNow \in Nat /\ lsAhead \in Nat
  BY DEF StTyped
<1>1. /\ lsLog \in Seq(Line) /\ line \in Line /\ lsLog' = Append(lsLog, line)
      /\ n \in Nat /\ n < LsMaxLines
  BY <1>0 DEF LineWritten, StTyped
<1>2. /\ lsLog' \in Seq(Line) /\ Len(lsLog') = n + 1
      /\ DOMAIN lsLog = 1 .. n /\ DOMAIN lsLog' = 1 .. (n + 1)
      /\ \A i \in 1 .. n : lsLog'[i] = lsLog[i] /\ lsLog[i] \in Line
      /\ lsLog'[n + 1] = line
  <2> HIDE DEF Line, line
  <2> QED
    BY <1>1
<1>3. /\ UNCHANGED <<lsSource, lsLines, lsAhead, lsNow, lsStep, lsSeen, lsFrom, lsUnread, lsReads, lsSent>>
      /\ Known' = Known /\ Cut' = Cut /\ Memory' = Memory /\ Cut \in Nat \ {0}
  <2>1. UNCHANGED <<lsSource, lsLines, lsAhead, lsNow, lsStep, lsSeen, lsFrom, lsUnread, lsReads, lsSent>>
    BY DEF LineWritten, lsHistory
  <2> QED
    BY <2>1, MemoryRoom DEF Known, Cut, Memory, StTyped
<1>4. /\ ReadUpTo' = ReadUpTo /\ ReadUpTo <= n /\ ReadUpTo \in Nat /\ Known \in Nat
      /\ \A k \in DOMAIN lsReads : lsReads[k] \in Nat /\ lsReads[k] <= n
  <2>1. lsReads \in Seq(Nat) /\ Known \in Nat
    BY DEF StTyped, Known
  <2>2. ReadUpTo' = ReadUpTo /\ ReadUpTo <= n
    BY <1>3 DEF ReadUpTo, ReadsRise
  <2>3. ASSUME NEW k \in DOMAIN lsReads PROVE lsReads[k] \in Nat /\ lsReads[k] <= n
    <3>1. Len(lsReads) \in DOMAIN lsReads /\ k <= Len(lsReads) /\ lsReads # <<>>
      BY <2>1, <2>3
    <3>2. lsReads[k] <= lsReads[Len(lsReads)] /\ lsReads[k] \in Nat
      BY <2>1, <2>3, <3>1 DEF ReadsRise
    <3>3. lsReads[Len(lsReads)] <= n /\ lsReads[Len(lsReads)] \in Nat
      BY <2>1, <2>2, <3>1 DEF ReadUpTo
    <3> QED
      BY <1>1, <3>2, <3>3
  <2>4. ReadUpTo \in Nat
    BY <2>1, <2>3 DEF ReadUpTo
  <2> QED
    BY <2>1, <2>2, <2>3, <2>4
<1>5. ASSUME NEW i \in 1 .. n
      PROVE  Counts(i)' = Counts(i) /\ Visible(i)' = Visible(i) /\ Chiave(i)' = Chiave(i)
  BY <1>2, <1>3 DEF Counts, Visible, Chiave, Anno
<1>6. StTyped'
  <2>1. ASSUME NEW i \in DOMAIN lsLog' PROVE lsLog'[i].stamp <= lsNow + lsAhead
    <3>1. CASE i = n + 1
      <4>1. lsLog'[i] = line /\ line.stamp = lsNow + lsAhead
        BY <1>2, <3>1
      <4> QED
        BY <1>0, <4>1
    <3>2. CASE i # n + 1
      <4>1. i \in 1 .. n /\ i \in DOMAIN lsLog /\ lsLog'[i] = lsLog[i]
        BY <1>1, <1>2, <2>1, <3>2
      <4>2. \A j \in DOMAIN lsLog : lsLog[j].stamp <= lsNow + lsAhead
        BY DEF StTyped
      <4> QED
        BY <4>1, <4>2
    <3> QED
      BY <3>1, <3>2
  <2> QED
    BY <1>1, <1>2, <1>3, <2>1, LsBounds DEF StTyped
<1>7. ReadsRise'
  BY <1>1, <1>2, <1>3, <1>4 DEF ReadsRise
<1>8. MemoryBounded' /\ SeenWereRead'
  <2>1. MemoryBounded'
    BY <1>3 DEF MemoryBounded
  <2>2. ASSUME NEW key \in lsSeen
        PROVE  \E j \in DOMAIN lsLog' : /\ j <= ReadUpTo /\ Visible(j)'
                    /\ key.stamp = lsLog'[j].stamp /\ key.text = lsLog'[j].kind.text
    <3>1. PICK j \in DOMAIN lsLog : /\ j <= ReadUpTo /\ Visible(j)
                    /\ key.stamp = lsLog[j].stamp /\ key.text = lsLog[j].kind.text
      BY DEF SeenWereRead
    <3>2. j \in 1 .. n /\ j \in DOMAIN lsLog'
      BY <1>1, <1>2, <3>1
    <3> QED
      BY <1>2, <1>5, <3>1, <3>2
  <2> QED
    BY <1>3, <1>4, <2>1, <2>2 DEF SeenWereRead
<1>9. ReadRemembered'
  <2> SUFFICES ASSUME lsAhead <= LsTolerance, lsLines # 0, NEW i \in Leggi', i <= Known \/ lsSent[i] > 0
               PROVE  Chiave(i)' \in lsSeen
    BY <1>3 DEF ReadRemembered
  <2>1. i \in 1 .. (n + 1)
    BY <1>2 DEF Leggi
  <2>2. i \in 1 .. n
    <3>1. i \in 1 .. LsMaxLines /\ Known <= ReadUpTo
      BY <1>1, <2>1, LsBounds DEF ReadsRise
    <3>2. i <= ReadUpTo
      <4>1. CASE lsSent[i] > 0
        BY <3>1, <4>1 DEF ReadsRise
      <4>2. CASE i <= Known
        BY <1>4, <2>1, <3>1, <4>2
      <4> QED
        BY <4>1, <4>2
    <3> QED
      BY <1>1, <1>4, <2>1, <3>2
  <2>3. i \in Leggi
    <3> DEFINE above == {j \in 1 .. n : j > i /\ Counts(j)}
               after == {j \in DOMAIN lsLog' : j > i /\ Counts(j)'}
    <3>1. Counts(i) /\ Visible(i) /\ Cardinality(after) < Cut
      BY <1>3, <1>5, <2>2 DEF Leggi
    <3>2. above \subseteq after
      BY <1>1, <1>2, <1>5
    <3>3. IsFiniteSet(after) /\ IsFiniteSet(above)
      <4>1. after \subseteq 1 .. (n + 1)
        BY <1>2
      <4>2. 1 \in Int /\ n + 1 \in Int
        BY <1>1
      <4>3. IsFiniteSet(1 .. (n + 1))
        <5> HIDE DEF n
        <5> QED
          BY <4>2, FS_Interval
      <4> HIDE DEF above, after
      <4> QED
        BY <3>2, <4>1, <4>3, FS_Subset
    <3>4. /\ Cardinality(above) <= Cardinality(after)
          /\ Cardinality(above) \in Nat /\ Cardinality(after) \in Nat
      <4> HIDE DEF above, after
      <4> QED
        BY <3>2, <3>3, FS_Subset, FS_CardinalityType
    <3>5. Cardinality(above) < Cut
      <4> HIDE DEF above, after
      <4> QED
        BY <1>3, <3>1, <3>4
    <3> QED
      BY <1>2, <2>2, <3>1, <3>5 DEF Leggi
  <2> QED
    BY <1>5, <2>2, <2>3 DEF ReadRemembered
<1>10. StreamHonest'
  <2>1. lsAhead <= LsTolerance /\ lsLines # 0 =>
            \A i \in DOMAIN lsLog' : lsSent[i] <= (IF i <= Known THEN 0 ELSE 1)
    <3> SUFFICES ASSUME lsAhead <= LsTolerance, lsLines # 0, NEW i \in DOMAIN lsLog'
                 PROVE  lsSent[i] <= (IF i <= Known THEN 0 ELSE 1)
      OBVIOUS
    <3>1. CASE i = n + 1
      <4>1. i \in 1 .. LsMaxLines /\ ~ (i <= ReadUpTo) /\ ~ (i <= Known)
        BY <1>1, <1>4, <3>1, LsBounds DEF ReadsRise
      <4>2. lsSent[i] \in Nat
        BY <4>1 DEF StTyped
      <4> QED
        BY <4>1, <4>2 DEF ReadsRise
    <3>2. CASE i # n + 1
      <4>1. i \in DOMAIN lsLog
        BY <1>1, <1>2, <3>2
      <4> QED
        BY <4>1 DEF StreamHonest
    <3> QED
      BY <3>1, <3>2
  <2>2. ASSUME NEW i \in (Known + 1) .. ReadUpTo, lsReads # <<>>, Visible(i)'
        PROVE  lsSent[i] > 0 \/ Pushed(i)' \/ Twin(i)'
    <3>1. i \in 1 .. n /\ i \in (Known + 1) .. lsReads[Len(lsReads)]
      BY <1>1, <1>4, <2>2 DEF ReadUpTo
    <3>2. lsSent[i] > 0 \/ Pushed(i) \/ Twin(i)
      BY <1>5, <2>2, <3>1 DEF StreamHonest
    <3>3. ASSUME Pushed(i) PROVE Pushed(i)'
      <4>1. PICK k \in DOMAIN lsReads :
                /\ FirstReading(i, k)
                /\ Cardinality({j \in (i + 1) .. lsReads[k] : Counts(j)}) >= Cut
        BY <3>3 DEF Pushed
      <4>2. ASSUME NEW j \in (i + 1) .. lsReads[k] PROVE Counts(j)' = Counts(j)
        <5>1. j \in 1 .. n
          BY <1>1, <1>4, <3>1, <4>2
        <5> QED
          BY <1>5, <5>1
      <4>3. {j \in (i + 1) .. lsReads[k] : Counts(j)}
                = {j \in (i + 1) .. lsReads[k] : Counts(j)'}
        BY <4>2
      <4>4. FirstReading(i, k)'
        BY <1>3, <4>1 DEF FirstReading
      <4> QED
        BY <1>3, <4>1, <4>3, <4>4 DEF Pushed
    <3>4. ASSUME Twin(i) PROVE Twin(i)'
      <4>1. PICK m \in DOMAIN lsReads, j \in 1 .. (i - 1) :
                /\ lsReads[m] < i /\ j <= lsReads[m] /\ Visible(j)
                /\ lsLog[j].stamp = lsLog[i].stamp /\ lsLog[j].kind.text = lsLog[i].kind.text
        BY <3>4 DEF Twin
      <4>2. j \in 1 .. n
        BY <1>1, <3>1, <4>1
      <4>3. Visible(j)' /\ lsLog'[j] = lsLog[j] /\ lsLog'[i] = lsLog[i]
        BY <1>2, <1>5, <3>1, <4>1, <4>2
      <4> QED
        BY <1>3, <4>1, <4>3 DEF Twin
    <3> QED
      BY <3>2, <3>3, <3>4
  <2>3. ASSUME NEW i \in DOMAIN lsLog', lsSent[i] > 0 PROVE Visible(i)'
    <3>1. i \in 1 .. LsMaxLines
      BY <1>1, <1>2, LsBounds
    <3>2. i <= ReadUpTo
      BY <2>3, <3>1 DEF ReadsRise
    <3>3. i \in 1 .. n
      BY <1>1, <1>4, <3>1, <3>2
    <3> QED
      BY <1>2, <1>5, <2>3, <3>3 DEF StreamHonest
  <2>4. lsReads # <<>> =>
            \A i \in (Known + 1) .. lsReads[Len(lsReads)] :
                Visible(i)' => lsSent[i] > 0 \/ Pushed(i)' \/ Twin(i)'
    BY <2>2 DEF ReadUpTo
  <2> QED
    BY <1>3, <2>1, <2>3, <2>4 DEF StreamHonest
<1> QED
  BY <1>6, <1>7, <1>8, <1>9, <1>10

\* What a line is, and what a reading finds, is the same while the log and the clock are.
LEMMA SameLog ==
    ASSUME UNCHANGED lsLogVars
    PROVE  /\ Leggi' = Leggi
           /\ \A i : Counts(i)' = Counts(i) /\ Visible(i)' = Visible(i) /\ Chiave(i)' = Chiave(i)
           /\ Cut' = Cut /\ Memory' = Memory /\ lsLines' = lsLines
<1>1. ASSUME NEW i
      PROVE  Counts(i)' = Counts(i) /\ Visible(i)' = Visible(i) /\ Chiave(i)' = Chiave(i)
  BY DEF lsLogVars, Counts, Visible, Chiave, Anno
<1>2. Leggi' = Leggi
  BY DEF lsLogVars, Leggi, Counts, Visible, Cut
<1>3. Cut' = Cut /\ Memory' = Memory /\ lsLines' = lsLines
  BY DEF lsLogVars, Cut, Memory
<1> QED
  BY <1>1, <1>2, <1>3

\* What a reading finds may be shown, and is in the log.
LEMMA FoundFacts ==
    ASSUME StTyped, NEW i \in Leggi
    PROVE  i \in DOMAIN lsLog /\ i \in 1 .. Len(lsLog) /\ i \in 1 .. LsMaxLines /\ Visible(i)
<1>1. i \in DOMAIN lsLog /\ Visible(i)
  BY DEF Leggi
<1>2. Len(lsLog) \in Nat /\ Len(lsLog) <= LsMaxLines /\ DOMAIN lsLog = 1 .. Len(lsLog)
  BY DEF StTyped
<1> QED
  BY <1>1, <1>2, LsBounds

\* The first reading remembers what it found, and nothing else is asked of it.
LEMMA StreamLogsKeeps == ASSUME StInv, StreamLogs PROVE StInv'
<1> USE DEF StInv
<1> DEFINE n == Len(lsLog)
<1>1. /\ UNCHANGED lsLogVars /\ UNCHANGED lsSent /\ lsStep' = "on"
      /\ lsSeen' = {Chiave(i) : i \in Leggi} /\ lsFrom' = n /\ lsReads' = <<n>>
      /\ lsReads = <<>> /\ lsUnread' = FALSE /\ lsLines \in Int
      /\ Known' = n /\ Cut' = Cut /\ Memory' = Memory /\ lsLines' = lsLines
  BY SameLog DEF StreamLogs, ReadsRise, StTyped, Known
<1>2. n \in Nat /\ n <= LsMaxLines /\ DOMAIN lsLog = 1 .. n
  BY DEF StTyped
<1>3. \A i \in 1 .. LsMaxLines : lsSent[i] = 0
  <2>1. ASSUME NEW i \in 1 .. LsMaxLines PROVE lsSent[i] = 0
    <3>1. lsSent[i] \in Nat /\ ~ (i <= ReadUpTo)
      BY <1>1, LsBounds DEF StTyped, ReadUpTo
    <3> QED
      BY <3>1 DEF ReadsRise
  <2> QED
    BY <2>1
<1>4. ReadUpTo' = n /\ Len(lsReads') = 1 /\ lsReads'[1] = n /\ DOMAIN lsReads' = {1}
      /\ lsReads' \in Seq(Nat) /\ lsReads' # <<>>
  BY <1>1, <1>2 DEF ReadUpTo
<1>5. StTyped'
  <2> HIDE DEF n
  <2>1. n = Len(lsLog)
    BY DEF n
  <2> QED
    BY <1>1, <1>2, <1>4, <2>1 DEF StTyped, lsLogVars
<1>6. ReadsRise'
  <2>1. Len(lsLog') = n
    BY <1>1 DEF lsLogVars
  <2> HIDE DEF n
  <2> QED
    BY <1>1, <1>2, <1>3, <1>4, <2>1 DEF ReadsRise
<1>7. MemoryBounded'
  <2>1. /\ IsFiniteSet(lsSeen') /\ Cardinality(lsSeen') <= Cut
        /\ Cardinality(lsSeen') \in Nat
    BY <1>1, LeggiFew, FS_CardinalityType
  <2> QED
    BY <1>1, <2>1, MemoryRoom DEF MemoryBounded
<1>8. SeenWereRead'
  <2> SUFFICES ASSUME NEW i \in Leggi
               PROVE  \E j \in DOMAIN lsLog : /\ j <= n /\ Visible(j)
                         /\ Chiave(i).stamp = lsLog[j].stamp
                         /\ Chiave(i).text = lsLog[j].kind.text
    BY <1>1, <1>4, SameLog DEF SeenWereRead, lsLogVars
  <2> QED
    BY <1>2, FoundFacts, KeyFacts
<1>9. ReadRemembered'
  BY <1>1, SameLog DEF ReadRemembered
<1>10. StreamHonest'
  <2>1. \A i \in DOMAIN lsLog : lsSent[i] = 0
    BY <1>2, <1>3, LsBounds
  <2>2. \A i \in (n + 1) .. n : FALSE
    BY <1>2
  <2>3. DOMAIN lsLog' = DOMAIN lsLog /\ lsSent' = lsSent
    BY <1>1 DEF lsLogVars
  <2> HIDE DEF n
  <2> QED
    BY <1>1, <1>4, <2>1, <2>2, <2>3 DEF StreamHonest
<1> QED
  BY <1>5, <1>6, <1>7, <1>8, <1>9, <1>10

\* A round adds its reading to those there were, unless it found nothing written since.
LEMMA RoundReads ==
    ASSUME StTyped, ReadsRise, StreamRound
    PROVE  /\ lsReads' \in Seq(Nat) /\ lsReads' # <<>> /\ ReadUpTo' = Len(lsLog)
           /\ \A m \in DOMAIN lsReads : m \in DOMAIN lsReads' /\ lsReads'[m] = lsReads[m]
           /\ \A m, k \in DOMAIN lsReads' : m <= k => lsReads'[m] <= lsReads'[k]
           /\ \A i \in 1 .. Len(lsLog) :
                 i > ReadUpTo =>
                     \E k \in DOMAIN lsReads' : FirstReading(i, k)' /\ lsReads'[k] = Len(lsLog)
<1> DEFINE n == Len(lsLog)
           r == Len(lsReads)
<1>1. n \in Nat /\ lsReads \in Seq(Nat) /\ r \in Nat /\ DOMAIN lsReads = 1 .. r
  BY DEF StTyped
<1>2. /\ \A m \in 1 .. r : lsReads[m] \in Nat
      /\ \A m, k \in 1 .. r : m <= k => lsReads[m] <= lsReads[k]
  BY <1>1 DEF ReadsRise
<1>3. CASE lsReads # <<>> /\ lsReads[r] = n
  <2>1. lsReads' = lsReads
    BY <1>3 DEF StreamRound
  <2>2. ReadUpTo = n /\ ReadUpTo' = n
    BY <1>3, <2>1 DEF ReadUpTo
  <2>3. \A i \in 1 .. n : ~ (i > ReadUpTo)
    BY <1>1, <2>2
  <2> QED
    BY <1>1, <1>2, <1>3, <2>1, <2>2, <2>3
<1>4. CASE ~ (lsReads # <<>> /\ lsReads[r] = n)
  <2>1. lsReads' = Append(lsReads, n)
    BY <1>4 DEF StreamRound
  <2>2. /\ lsReads' \in Seq(Nat) /\ Len(lsReads') = r + 1 /\ lsReads'[r + 1] = n
        /\ \A m \in 1 .. r : lsReads'[m] = lsReads[m]
        /\ DOMAIN lsReads' = 1 .. (r + 1) /\ lsReads' # <<>>
    <3> HIDE DEF n
    <3> QED
      BY <1>1, <2>1
  <2>3. ReadUpTo' = n
    BY <2>2 DEF ReadUpTo
  <2>4. \A m \in 1 .. r : lsReads[m] <= ReadUpTo
    <3>1. ASSUME NEW m \in 1 .. r PROVE lsReads[m] <= ReadUpTo
      <4>1. r \in 1 .. r /\ m <= r /\ lsReads # <<>>
        BY <1>1
      <4> QED
        BY <1>2, <4>1 DEF ReadUpTo
    <3> QED
      BY <3>1
  <2>5. ReadUpTo \in Nat /\ ReadUpTo <= n
    <3>1. lsReads # <<>> => r \in 1 .. r
      BY <1>1
    <3> QED
      BY <1>2, <3>1 DEF ReadUpTo, ReadsRise
  <2>6. ASSUME NEW m \in DOMAIN lsReads', NEW k \in DOMAIN lsReads', m <= k
        PROVE  lsReads'[m] <= lsReads'[k]
    <3>1. CASE k \in 1 .. r
      <4>1. m \in 1 .. r
        BY <1>1, <2>2, <2>6, <3>1
      <4> QED
        BY <1>2, <2>2, <2>6, <3>1, <4>1
    <3>2. CASE k = r + 1 /\ m \in 1 .. r
      BY <1>1, <1>2, <2>2, <2>4, <2>5, <3>2
    <3>3. CASE k = r + 1 /\ m = r + 1
      BY <1>1, <2>2, <3>3
    <3> QED
      BY <1>1, <2>2, <3>1, <3>2, <3>3
  <2>7. ASSUME NEW i \in 1 .. n, i > ReadUpTo, NEW k, k = r + 1
        PROVE  FirstReading(i, k)' /\ k \in DOMAIN lsReads' /\ lsReads'[k] = n
    <3>1. \A m \in 1 .. r : lsReads'[m] < i
      BY <1>1, <1>2, <2>2, <2>4, <2>5, <2>7
    <3>2. 1 .. (k - 1) = 1 .. r /\ lsReads'[k] >= i /\ k \in 1 .. (r + 1)
      BY <1>1, <2>2, <2>7
    <3> QED
      BY <2>2, <2>7, <3>1, <3>2 DEF FirstReading
  <2>8. \A m \in DOMAIN lsReads : m \in DOMAIN lsReads' /\ lsReads'[m] = lsReads[m]
    BY <1>1, <2>2
  <2>9. \A i \in 1 .. n :
            i > ReadUpTo => \E k \in DOMAIN lsReads' : FirstReading(i, k)' /\ lsReads'[k] = n
    BY <2>7
  <2> QED
    BY <2>2, <2>3, <2>6, <2>8, <2>9
<1> QED
  BY <1>3, <1>4

\* What a round found is remembered, the memory is as large as it may be, and what is in
\* it was read.
LEMMA RoundMemory ==
    ASSUME StTyped, MemoryBounded, SeenWereRead, ReadsRise, StreamRound
    PROVE  /\ \A i \in Leggi : Chiave(i) \in lsSeen'
           /\ MemoryBounded' /\ SeenWereRead'
<1> DEFINE keys == {Chiave(i) : i \in Leggi}
           visti == lsSeen \cup keys
<1>1. lsSeen' = IF Cardinality(visti) > Memory THEN keys ELSE visti
  BY DEF StreamRound, SeenAfter
<1>2. /\ IsFiniteSet(keys) /\ Cardinality(keys) <= Cut /\ Cardinality(keys) \in Nat
      /\ IsFiniteSet(visti) /\ Cardinality(visti) \in Nat
  <2>1. IsFiniteSet(keys) /\ Cardinality(keys) <= Cut
    BY LeggiFew
  <2> HIDE DEF keys
  <2>2. IsFiniteSet(visti)
    BY <2>1, FS_Union DEF MemoryBounded
  <2> HIDE DEF visti
  <2> QED
    BY <2>1, <2>2, FS_CardinalityType
<1>3. MemoryBounded'
  <2>1. Memory' = Memory /\ lsLines' = lsLines /\ lsLines \in Int
    BY SameLog DEF StreamRound, StTyped
  <2> HIDE DEF keys, visti
  <2> QED
    BY <1>1, <1>2, <2>1, MemoryRoom DEF MemoryBounded
<1>4. SeenWereRead'
  <2>0. /\ UNCHANGED lsLogVars /\ ReadUpTo' = Len(lsLog) /\ ReadUpTo <= Len(lsLog)
        /\ ReadUpTo \in Nat /\ DOMAIN lsLog = 1 .. Len(lsLog) /\ Len(lsLog) \in Nat
    <3>1. lsReads # <<>> => lsReads[Len(lsReads)] \in Nat
      <4>1. lsReads \in Seq(Nat)
        BY DEF StTyped
      <4> QED
        BY <4>1
    <3> QED
      BY <3>1, RoundReads DEF StreamRound, StTyped, ReadsRise, ReadUpTo
  <2>1. ASSUME NEW key \in visti
        PROVE  \E j \in DOMAIN lsLog : /\ j <= Len(lsLog) /\ Visible(j)
                    /\ key.stamp = lsLog[j].stamp /\ key.text = lsLog[j].kind.text
    <3>1. CASE key \in lsSeen
      BY <2>0, <3>1 DEF SeenWereRead
    <3>2. CASE key \in keys
      <4>1. PICK i \in Leggi : key = Chiave(i)
        BY <3>2
      <4> QED
        BY <2>0, <4>1, FoundFacts, KeyFacts
    <3> QED
      BY <3>1, <3>2
  <2>2. lsSeen' \subseteq visti
    <3> HIDE DEF keys
    <3> QED
      BY <1>1
  <2>3. lsLog' = lsLog /\ \A j : Visible(j)' = Visible(j)
    BY <2>0, SameLog DEF lsLogVars
  <2> HIDE DEF visti
  <2> QED
    BY <2>0, <2>1, <2>2, <2>3 DEF SeenWereRead
<1>5. ASSUME NEW i \in Leggi PROVE Chiave(i) \in lsSeen'
  <2>1. Chiave(i) \in keys /\ keys \subseteq visti
    OBVIOUS
  <2> HIDE DEF keys, visti
  <2> QED
    BY <1>1, <2>1
<1> QED
  BY <1>3, <1>4, <1>5

LEMMA StreamRoundKeeps == ASSUME StInv, StreamRound PROVE StInv'
<1> USE DEF StInv
<1> DEFINE n == Len(lsLog)
<1>1. /\ UNCHANGED lsLogVars /\ UNCHANGED <<lsStep, lsFrom, lsUnread>> /\ lsStep = "on"
      /\ lsLog' = lsLog /\ lsAhead' = lsAhead
      /\ \A i \in 1 .. LsMaxLines :
            lsSent'[i] = IF i \in Leggi /\ Chiave(i) \notin lsSeen /\ lsSent[i] < 2
                         THEN lsSent[i] + 1 ELSE lsSent[i]
  BY DEF StreamRound, lsLogVars, StTyped
<1>2. /\ n \in Nat /\ n <= LsMaxLines /\ DOMAIN lsLog = 1 .. n
      /\ \A i \in 1 .. LsMaxLines : lsSent[i] \in Nat
      /\ Known \in Nat /\ lsReads \in Seq(Nat) /\ ReadUpTo <= n /\ Known <= ReadUpTo
      /\ Known' = Known /\ Cut' = Cut /\ lsLines' = lsLines /\ lsFrom \in Nat /\ Cut \in Nat \ {0}
      /\ lsUnread \in BOOLEAN /\ lsLines \in Int
  <2>1. n \in Nat /\ n <= LsMaxLines /\ DOMAIN lsLog = 1 .. n
    BY DEF StTyped
  <2>2. ReadUpTo <= n /\ Known <= ReadUpTo
    BY DEF ReadsRise
  <2>3. (\A i \in 1 .. LsMaxLines : lsSent[i] \in Nat) /\ lsFrom \in Nat /\ lsReads \in Seq(Nat)
    BY DEF StTyped
  <2>4. Known \in Nat /\ Known' = Known /\ lsUnread \in BOOLEAN /\ lsLines \in Int
    BY <1>1, <2>3 DEF Known, StTyped
  <2>5. Cut' = Cut /\ lsLines' = lsLines /\ Cut \in Nat \ {0}
    BY <1>1, <2>4, SameLog, MemoryRoom
  <2> QED
    BY <2>1, <2>2, <2>3, <2>4, <2>5
<1>3. ReadUpTo \in Nat
  BY <1>2 DEF ReadUpTo
<1>4. /\ lsReads' \in Seq(Nat) /\ lsReads' # <<>> /\ ReadUpTo' = n
      /\ \A m \in DOMAIN lsReads : m \in DOMAIN lsReads' /\ lsReads'[m] = lsReads[m]
      /\ \A m, k \in DOMAIN lsReads' : m <= k => lsReads'[m] <= lsReads'[k]
  BY RoundReads
<1>5. ASSUME NEW i \in 1 .. LsMaxLines
      PROVE  /\ lsSent'[i] \in Nat /\ lsSent[i] <= lsSent'[i]
             /\ lsSent'[i] > 0 => lsSent[i] > 0 \/ i \in Leggi
  BY <1>1, <1>2
<1>6. StTyped'
  <2>1. lsSent' \in [1 .. LsMaxLines -> Nat]
    <3>1. DOMAIN lsSent = 1 .. LsMaxLines
      BY DEF StTyped
    <3>2. lsSent' = [i \in 1 .. LsMaxLines |-> lsSent'[i]]
      BY <3>1 DEF StreamRound
    <3> QED
      BY <1>5, <3>2
  <2> QED
    BY <1>1, <1>2, <1>4, <2>1 DEF StTyped, lsLogVars
<1>7. ReadsRise'
  <2>1. ASSUME NEW i \in 1 .. LsMaxLines, lsSent'[i] > 0 PROVE i <= n
    <3>1. lsSent[i] > 0 => i <= ReadUpTo
      BY DEF ReadsRise
    <3>2. i \in Leggi => i \in 1 .. n
      BY FoundFacts
    <3> QED
      BY <1>2, <1>3, <1>5, <2>1, <3>1, <3>2, LsBounds
  <2>2. Known <= n
    BY <1>2, <1>3
  <2> HIDE DEF n
  <2>3. n = Len(lsLog)
    BY DEF n
  <2> QED
    BY <1>1, <1>2, <1>4, <2>1, <2>2, <2>3 DEF ReadsRise
<1>8. MemoryBounded' /\ SeenWereRead' /\ \A i \in Leggi : Chiave(i) \in lsSeen'
  BY RoundMemory
<1>9. ReadRemembered'
  BY <1>1, <1>8, SameLog DEF ReadRemembered
<1>10. StreamHonest'
  <2>1. ASSUME lsAhead <= LsTolerance, lsLines # 0, NEW i \in DOMAIN lsLog
        PROVE  lsSent'[i] <= (IF i <= Known THEN 0 ELSE 1)
    <3>1. i \in 1 .. LsMaxLines /\ lsSent[i] <= (IF i <= Known THEN 0 ELSE 1)
      BY <1>2, <2>1, LsBounds DEF StreamHonest
    <3>2. i \in Leggi /\ Chiave(i) \notin lsSeen => lsSent[i] = 0 /\ ~ (i <= Known)
      BY <1>2, <2>1, <3>1 DEF ReadRemembered
    <3> QED
      BY <1>1, <1>2, <3>1, <3>2
  <2>2. ASSUME NEW i \in DOMAIN lsLog, lsSent'[i] > 0 PROVE Visible(i)
    <3>1. i \in 1 .. LsMaxLines
      BY <1>2, LsBounds
    <3> QED
      BY <1>5, <2>2, <3>1, FoundFacts DEF StreamHonest
  <2>3. ASSUME NEW i \in (Known + 1) .. n, Visible(i)
        PROVE  lsSent'[i] > 0 \/ Pushed(i)' \/ Twin(i)'
    <3>0. i \in 1 .. n /\ i \in DOMAIN lsLog /\ i \in 1 .. LsMaxLines
      BY <1>2, <2>3, LsBounds
    <3>1. CASE i <= ReadUpTo
      <4>1. lsReads # <<>> /\ i \in (Known + 1) .. lsReads[Len(lsReads)]
        BY <1>2, <1>3, <2>3, <3>0, <3>1 DEF ReadUpTo
      <4>2. lsSent[i] > 0 \/ Pushed(i) \/ Twin(i)
        BY <2>3, <4>1 DEF StreamHonest
      <4>3. CASE lsSent[i] > 0
        BY <1>2, <1>5, <3>0, <4>3
      <4>4. CASE Pushed(i)
        <5>1. PICK k \in DOMAIN lsReads :
                  /\ FirstReading(i, k)
                  /\ Cardinality({j \in (i + 1) .. lsReads[k] : Counts(j)}) >= Cut
          BY <4>4 DEF Pushed
        <5>2. k \in DOMAIN lsReads' /\ lsReads'[k] = lsReads[k]
          BY <1>4
        <5>3. \A m \in 1 .. (k - 1) : lsReads'[m] = lsReads[m]
          BY <1>2, <1>4
        <5>4. FirstReading(i, k)'
          BY <5>1, <5>2, <5>3 DEF FirstReading
        <5>5. {j \in (i + 1) .. lsReads[k] : Counts(j)}
                  = {j \in (i + 1) .. lsReads'[k] : Counts(j)'}
          BY <1>1, <5>2, SameLog
        <5> QED
          BY <1>2, <5>1, <5>2, <5>4, <5>5 DEF Pushed
      <4>5. CASE Twin(i)
        <5>1. PICK m \in DOMAIN lsReads, j \in 1 .. (i - 1) :
                  /\ lsReads[m] < i /\ j <= lsReads[m] /\ Visible(j)
                  /\ lsLog[j].stamp = lsLog[i].stamp /\ lsLog[j].kind.text = lsLog[i].kind.text
          BY <4>5 DEF Twin
        <5>2. m \in DOMAIN lsReads' /\ lsReads'[m] = lsReads[m] /\ Visible(j)'
          BY <1>1, <1>4, <5>1, SameLog
        <5> QED
          BY <1>1, <5>1, <5>2 DEF Twin
      <4> QED
        BY <4>2, <4>3, <4>4, <4>5
    <3>2. CASE i > ReadUpTo /\ i \in Leggi /\ Chiave(i) \notin lsSeen
      BY <1>1, <1>2, <3>0, <3>2
    <3>3. CASE i > ReadUpTo /\ i \in Leggi /\ Chiave(i) \in lsSeen
      <4>1. PICK j \in DOMAIN lsLog :
                /\ j <= ReadUpTo /\ Visible(j)
                /\ Chiave(i).stamp = lsLog[j].stamp /\ Chiave(i).text = lsLog[j].kind.text
        BY <3>3 DEF SeenWereRead
      <4>2. lsReads # <<>> /\ ReadUpTo = lsReads[Len(lsReads)] /\ j \in 1 .. (i - 1)
        BY <1>2, <1>3, <3>0, <3>3, <4>1 DEF ReadUpTo
      <4>3. Len(lsReads) \in DOMAIN lsReads
        BY <1>2, <4>2
      <4>4. PICK m \in DOMAIN lsReads' : lsReads'[m] = ReadUpTo
        BY <1>4, <4>2, <4>3
      <4>5. lsLog[j].stamp = lsLog[i].stamp /\ lsLog[j].kind.text = lsLog[i].kind.text
        BY <4>1, KeyFacts
      <4>6. Visible(j)'
        BY <1>1, <4>1, SameLog
      <4> QED
        BY <1>1, <3>3, <4>1, <4>2, <4>4, <4>5, <4>6 DEF Twin
    <3>4. CASE i > ReadUpTo /\ i \notin Leggi
      <4> DEFINE above == {j \in DOMAIN lsLog : j > i /\ Counts(j)}
      <4>1. Counts(i)
        BY <2>3, ShownCounts
      <4>2. ~ (Cardinality(above) < Cut)
        BY <2>3, <3>0, <3>4, <4>1 DEF Leggi
      <4>3. above = {j \in (i + 1) .. n : Counts(j)}
        BY <1>2, <3>0
      <4>4. Cardinality(above) \in Nat
        <5>1. IsFiniteSet(1 .. n)
          BY <1>2, FS_Interval
        <5>2. above \subseteq 1 .. n
          BY <1>2
        <5> HIDE DEF above
        <5> QED
          BY <5>1, <5>2, FS_Subset, FS_CardinalityType
      <4>5. PICK k \in DOMAIN lsReads' : FirstReading(i, k)' /\ lsReads'[k] = n
        BY <3>0, <3>4, RoundReads
      <4>6. Cardinality({j \in (i + 1) .. n : Counts(j)}) >= Cut
        <5> HIDE DEF above
        <5> QED
          BY <1>2, <4>2, <4>3, <4>4
      <4>7. {j \in (i + 1) .. lsReads'[k] : Counts(j)'} = {j \in (i + 1) .. n : Counts(j)}
        BY <1>1, <4>5, SameLog
      <4> QED
        BY <1>2, <4>5, <4>6, <4>7 DEF Pushed
    <3> QED
      BY <1>3, <3>0, <3>1, <3>2, <3>3, <3>4
  <2>4. \A i : Visible(i)' = Visible(i)
    BY <1>1, SameLog
  <2>5. lsReads'[Len(lsReads')] = n
    BY <1>4 DEF ReadUpTo
  <2> HIDE DEF n
  <2> QED
    BY <1>1, <1>2, <2>1, <2>2, <2>3, <2>4, <2>5 DEF StreamHonest
<1> QED
  BY <1>6, <1>7, <1>8, <1>9, <1>10

\* When the request asks for 0 lines, a failed round may forget what was read: what is
\* promised then does not rest on the memory.
LEMMA MemoryLost ==
    ASSUME StInv, lsLines = 0, UNCHANGED <<lsLogVars, lsHistory>>,
           lsStep' \in {"on", "ended"} \/ UNCHANGED lsStep, lsSeen' = SeenAfter({})
    PROVE  StInv'
<1> USE DEF StInv
<1>1. /\ UNCHANGED <<lsSource, lsLines, lsAhead, lsNow, lsLog, lsFrom, lsUnread, lsReads, lsSent>>
      /\ ReadUpTo' = ReadUpTo /\ Known' = Known
  BY DEF lsLogVars, lsHistory, ReadUpTo, Known
<1>2. /\ \A i : Counts(i)' = Counts(i) /\ Visible(i)' = Visible(i)
      /\ \A i : Pushed(i)' = Pushed(i) /\ Twin(i)' = Twin(i)
  <2>1. \A i : Counts(i)' = Counts(i) /\ Visible(i)' = Visible(i)
    BY SameLog DEF lsLogVars
  <2>2. ASSUME NEW i PROVE Pushed(i)' = Pushed(i) /\ Twin(i)' = Twin(i)
    BY <1>1 DEF Pushed, FirstReading, Twin, Counts, Visible, Cut
  <2> QED
    BY <2>1, <2>2
<1>3. lsSeen' \subseteq lsSeen
  <2>1. lsSeen \cup {Chiave(i) : i \in {}} = lsSeen /\ {Chiave(i) : i \in {}} = {}
    OBVIOUS
  <2> QED
    BY <2>1 DEF SeenAfter
<1>4. StTyped'
  BY <1>1 DEF StTyped
<1>5. ReadsRise'
  BY <1>1 DEF ReadsRise
<1>6. MemoryBounded'
  BY <1>1, <1>3, FS_Subset DEF MemoryBounded
<1>7. SeenWereRead'
  BY <1>1, <1>2, <1>3 DEF SeenWereRead
<1>8. ReadRemembered'
  BY <1>1 DEF ReadRemembered
<1>9. StreamHonest'
  BY <1>1, <1>2 DEF StreamHonest
<1> QED
  BY <1>4, <1>5, <1>6, <1>7, <1>8, <1>9

LEMMA StStepInv == StInv /\ [LsNext]_lsVars => StInv'
<1> SUFFICES ASSUME StInv, [LsNext]_lsVars PROVE StInv'
  OBVIOUS
<1>0. lsNow \in Nat /\ lsNow + 1 \in Nat /\ lsNow <= lsNow + 1 /\ lsNow <= lsNow
  BY DEF StInv, StTyped
<1>1. CASE LsTick
  <2>1. Known' = Known /\ lsFrom' \in Nat /\ lsUnread' \in BOOLEAN
    BY <1>1 DEF LsTick, lsHistory, Known, StInv, StTyped
  <2> QED
    BY <1>0, <1>1, <2>1, QuietStream DEF LsTick, lsHistory
<1>2. ASSUME NEW kind \in LsKinds, LineWritten(kind) PROVE StInv'
  BY <1>2, LineWrittenKeeps
<1>3. CASE StreamLogs
  BY <1>3, StreamLogsKeeps
<1>4. CASE StreamUnread
  <2>1. Len(lsLog) \in Nat /\ Known = 0 /\ ~lsUnread
    BY <1>4 DEF StreamUnread, StInv, StTyped, ReadsRise, ReadUpTo, Known
  <2>2. Known' = 0 /\ lsFrom' \in Nat /\ lsUnread' \in BOOLEAN /\ lsStep' # lsStep
    BY <1>4, <2>1 DEF StreamUnread, Known
  <2> QED
    BY <1>0, <1>4, <2>1, <2>2, QuietStream DEF StreamUnread, lsLogVars
<1>5. CASE StreamRound
  BY <1>5, StreamRoundKeeps
<1>6. CASE RoundFails
  <2>1. /\ UNCHANGED <<lsLogVars, lsHistory>>
        /\ lsStep' \in {"on", "ended"} \/ UNCHANGED lsStep
        /\ lsSeen' \in {lsSeen, SeenAfter({})} /\ lsLines \in Int
    BY <1>6 DEF RoundFails, StInv, StTyped
  <2>2. CASE lsSeen' = lsSeen
    <3>1. Known' = Known /\ lsFrom' \in Nat /\ lsUnread' \in BOOLEAN
      BY <2>1 DEF lsHistory, Known, StInv, StTyped
    <3> QED
      BY <1>0, <2>1, <2>2, <3>1, QuietStream DEF lsLogVars, lsHistory
  <2>3. CASE lsLines = 0 /\ lsSeen' = SeenAfter({})
    BY <2>1, <2>3, MemoryLost
  <2> QED
    BY <2>1, <2>2, <2>3, MemoryKept DEF StInv
<1>7. CASE StreamEnds
  <2>1. Known' = Known /\ lsFrom' \in Nat /\ lsUnread' \in BOOLEAN
    BY <1>7 DEF StreamEnds, lsHistory, Known, StInv, StTyped
  <2> QED
    BY <1>0, <1>7, <2>1, QuietStream DEF StreamEnds, lsLogVars, lsHistory
<1>8. CASE UNCHANGED lsVars
  <2>1. Known' = Known /\ lsFrom' \in Nat /\ lsUnread' \in BOOLEAN
    BY <1>8 DEF lsVars, Known, StInv, StTyped
  <2> QED
    BY <1>0, <1>8, <2>1, QuietStream DEF lsVars
<1> QED
  BY <1>1, <1>2, <1>3, <1>4, <1>5, <1>6, <1>7, <1>8 DEF LsNext

\* stream_logs: for any number of lines asked, any memory, any clock of the router and any
\* log, a page that follows it misses no line that a reading could find and the stream
\* can tell from another; and it gets none twice, nor one it had before, but when the
\* request is for 0 lines, the clock is ahead, or the first reading has failed.
THEOREM StreamStaysHonest == LsSpec => []StreamHonest
<1>1. StInv => StreamHonest
  BY DEF StInv
<1> QED
  BY <1>1, StInitInv, StStepInv, PTL DEF LsSpec

=============================================================================
