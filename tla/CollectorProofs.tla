--------------------------- MODULE CollectorProofs ---------------------------
(***************************************************************************)
(* Proofs about Collector and CollectorAnswers, for every set of rows,     *)
(* tasks and requests.                                                     *)
(***************************************************************************)
EXTENDS CollectorAnswers, FiniteSetTheorems, TLAPS

-----------------------------------------------------------------------------
(***************************************************************************)
(* Counting rows.                                                          *)
(***************************************************************************)

\* Rows can be counted, and a part of them is not more numerous than the whole.
LEMMA RowsCount ==
    ASSUME NEW rs \in SUBSET Rows, NEW up \in SUBSET rs
    PROVE  /\ IsFiniteSet(rs) /\ Cardinality(rs) \in Nat
           /\ IsFiniteSet(up) /\ Cardinality(up) \in Nat
           /\ Cardinality(up) <= Cardinality(rs)
<1>1. IsFiniteSet(rs)
  BY RowsFinite, FS_Subset
<1>2. IsFiniteSet(up) /\ Cardinality(up) <= Cardinality(rs)
  BY <1>1, FS_Subset
<1> QED
  BY <1>1, <1>2, FS_CardinalityType

\* The section a round publishes is well formed, and its summary counts its rows.
LEMMA OverviewCounts ==
    ASSUME NEW rs \in SUBSET Rows, NEW up \in SUBSET rs
    PROVE  Overview(rs, up) \in OverviewType /\ Counted(Overview(rs, up))
BY RowsCount DEF Overview, OverviewType, Counted

\* So is the section of the first rounds, which is empty.
LEMMA NoOverviewCounts == NoOverview \in OverviewType /\ Counted(NoOverview)
BY FS_EmptySet DEF NoOverview, OverviewType, Counted

\* dimentica_servizio keeps the section well formed.
LEMMA ForgetType ==
    ASSUME NEW v \in OverviewType, NEW n
    PROVE  Forget(v, n) \in OverviewType
BY DEF Forget, Less, Named, OverviewType

\* Where no two rows share a name, a name is the name of at most one row.
LEMMA NamedSingle ==
    ASSUME NamesUnique, NEW rs \in SUBSET Rows, NEW x \in rs
    PROVE  Named(rs, NameOf[x]) = {x}
BY DEF Named, NamesUnique

\* dimentica_servizio keeps the summary true: the one row that goes is taken off
\* the total and off the counter it was in.
LEMMA ForgetCounts ==
    ASSUME NamesUnique, NEW v \in OverviewType, Counted(v), NEW n
    PROVE  Counted(Forget(v, n))
<1>1. CASE Named(v.rows, n) = {}
  BY <1>1 DEF Forget
<1>2. ASSUME NEW x \in v.rows, NameOf[x] = n
      PROVE  Counted(Forget(v, n))
  <2>1. v.rows \in SUBSET Rows /\ v.up \in SUBSET v.rows
    BY DEF OverviewType, Counted
  <2>2. Named(v.rows, n) = {x}
    BY <1>2, <2>1, NamedSingle
  <2>3. /\ IsFiniteSet(v.rows) /\ Cardinality(v.rows) \in Nat
        /\ IsFiniteSet(v.up) /\ Cardinality(v.up) \in Nat
    BY <2>1, RowsCount
  <2>4. /\ IsFiniteSet(v.rows \ {x})
        /\ Cardinality(v.rows \ {x}) = Cardinality(v.rows) - 1
        /\ Cardinality(v.rows \ {x}) \in Nat
    BY <1>2, <2>3, FS_RemoveElement, FS_CardinalityType
  <2>5. CASE x \in v.up
    <3>1. Named(v.up, n) = {x}
      BY <1>2, <2>1, <2>2, <2>5 DEF Named
    <3>2. /\ Cardinality(v.up \ {x}) = Cardinality(v.up) - 1
          /\ Cardinality(v.up \ {x}) \in Nat
      BY <2>3, <2>5, FS_RemoveElement, FS_CardinalityType
    <3> QED
      BY <2>1, <2>2, <2>3, <2>4, <3>1, <3>2 DEF Forget, Less, Counted
  <2>6. CASE x \notin v.up
    <3>1. Named(v.up, n) = {}
      BY <1>2, <2>1, <2>2, <2>6 DEF Named
    <3>2. v.up \in SUBSET (v.rows \ {x})
      BY <2>1, <2>6
    <3>3. Cardinality(v.up) <= Cardinality(v.rows \ {x})
      BY <2>4, <3>2, FS_Subset
    <3> QED
      BY <2>1, <2>2, <2>3, <2>4, <3>1, <3>2, <3>3 DEF Forget, Less, Counted
  <2> QED
    BY <2>5, <2>6
<1> QED
  BY <1>1, <1>2 DEF Named

-----------------------------------------------------------------------------
(***************************************************************************)
(* Type correctness.                                                       *)
(***************************************************************************)

\* The initial state is well formed.
LEMMA InitTypeOK == Init => TypeOK
<1> SUFFICES ASSUME Init PROVE TypeOK
  OBVIOUS
<1>1. stage \in [Actors -> Stages] /\ seen \in [Actors -> SUBSET Rows]
  BY DEF Init, Stages
<1> QED
  BY <1>1, NoOverviewCounts DEF Init, TypeOK

\* Every step leads from a well formed state to a well formed one.
LEMMA NextTypeOK == TypeOK /\ [Next]_vars => TypeOK'
<1> SUFFICES ASSUME TypeOK, [Next]_vars PROVE TypeOK'
  OBVIOUS
<1> USE DEF TypeOK, taskVars, loopVars, catalogVars
<1>1. CASE LoopWake
  BY <1>1 DEF LoopWake
<1>2. CASE LoopCollected
  <2>1. StartSlow => /\ slowTask' \in SlowTasks \cup {NoTask}
                     /\ stage' \in [Actors -> Stages]
                     /\ due' \in BOOLEAN
    BY DEF StartSlow, Actors, Stages
  <2> QED
    BY <1>2, <2>1 DEF LoopCollected
<1>3. CASE LoopSent
  BY <1>3 DEF LoopSent
<1>4. CASE IntervalElapses
  BY <1>4 DEF IntervalElapses
<1>5. ASSUME NEW p \in Actors, Round(p)
      PROVE  TypeOK'
  <2>1. CASE DockerCollected(p)
    BY <2>1 DEF DockerCollected, Stages
  <2>2. CASE OverviewBuilt(p)
    <3>1. PICK up \in SUBSET seen[p] : view' = Overview(seen[p], up)
      BY <2>2 DEF OverviewBuilt
    <3>2. seen[p] \in SUBSET Rows
      OBVIOUS
    <3>3. view' \in OverviewType
      BY <3>1, <3>2, OverviewCounts
    <3> QED
      BY <2>2, <3>3 DEF OverviewBuilt, Stages
  <2>3. CASE OverviewFailed(p)
    BY <2>3 DEF OverviewFailed, Stages
  <2>4. CASE HistoryMarked(p)
    BY <2>4 DEF HistoryMarked, Stages
  <2>5. CASE ResourcesCollected(p)
    BY <2>5 DEF ResourcesCollected, Stages
  <2> QED
    BY <1>5, <2>1, <2>2, <2>3, <2>4, <2>5 DEF Round
<1>6. ASSUME NEW t \in SlowTasks, SlowRound(t)
      PROVE  TypeOK'
  <2>1. t \in Actors
    BY DEF Actors
  <2>2. CASE HostNetworkCollected(t) \/ DevicesCollected(t) \/ HistoryCompacted(t)
    BY <2>1, <2>2
    DEF HostNetworkCollected, DevicesCollected, HistoryCompacted, SlowStage, Stages
  <2> QED
    BY <1>5, <1>6, <2>1, <2>2 DEF SlowRound
<1>7. ASSUME NEW r \in Requests, BeginRefresh(r) \/ Round(r) \/ RefreshSent(r)
      PROVE  TypeOK'
  <2>1. r \in Actors
    BY DEF Actors
  <2>2. CASE BeginRefresh(r)
    BY <2>1, <2>2 DEF BeginRefresh, Stages
  <2>3. CASE RefreshSent(r)
    BY <2>1, <2>3 DEF RefreshSent, Stages
  <2> QED
    BY <1>5, <1>7, <2>1, <2>2, <2>3
<1>8. ASSUME NEW x \in Rows, AddService(x)
      PROVE  TypeOK'
  BY <1>8 DEF AddService
<1>9. ASSUME NEW n \in Names, RemoveService(n) \/ PruneSnapshot(n)
      PROVE  TypeOK'
  <2>1. CASE RemoveService(n)
    BY <2>1 DEF RemoveService
  <2>2. CASE PruneSnapshot(n)
    BY <2>2, ForgetType DEF PruneSnapshot
  <2> QED
    BY <1>9, <2>1, <2>2
<1>10. CASE UNCHANGED vars
  BY <1>10 DEF vars
<1> QED
  BY <1>1, <1>2, <1>3, <1>4, <1>6, <1>7, <1>8, <1>9, <1>10 DEF Next

\* Every state the collector reaches is well formed.
THEOREM TypeCorrect == Spec => []TypeOK
BY InitTypeOK, NextTypeOK, PTL DEF Spec

-----------------------------------------------------------------------------
(***************************************************************************)
(* Rounds.  What a step may do to the stages of the rounds is all that the *)
(* two exclusion properties depend on.                                     *)
(***************************************************************************)

\* A step moves a round that is running, starts the slow round, or begins or
\* ends a refresh.
LEMMA StageStep ==
    ASSUME TypeOK, [Next]_vars
    PROVE  \/ UNCHANGED <<stage, slowTask, monitorLock>>
           \/ LoopCollected /\ dueSeen /\ ~SlowRunning /\ StartSlow
           \/ /\ \E p \in Actors, to \in Stages :
                    /\ stage[p] # "off"
                    /\ p \in Requests => to # "off"
                    /\ stage' = [stage EXCEPT ![p] = to]
              /\ UNCHANGED <<slowTask, monitorLock>>
           \/ \E r \in Requests : BeginRefresh(r) \/ RefreshSent(r)
<1> USE DEF taskVars, loopVars, catalogVars
<1>1. CASE LoopWake \/ LoopSent \/ IntervalElapses \/ UNCHANGED vars
  BY <1>1 DEF LoopWake, LoopSent, IntervalElapses, vars
<1>2. CASE LoopCollected
  BY <1>2 DEF LoopCollected, StartSlow
<1>3. CASE (\E x \in Rows : AddService(x))
           \/ \E n \in Names : RemoveService(n) \/ PruneSnapshot(n)
  BY <1>3 DEF AddService, RemoveService, PruneSnapshot
<1>4. ASSUME NEW p \in Actors, Round(p)
      PROVE  /\ \E to \in Stages :
                   /\ stage[p] # "off"
                   /\ p \in Requests => to # "off"
                   /\ stage' = [stage EXCEPT ![p] = to]
             /\ UNCHANGED <<slowTask, monitorLock>>
  BY <1>4, ActorsDisjoint
  DEF Round, DockerCollected, OverviewBuilt, OverviewFailed, HistoryMarked,
      ResourcesCollected, Stages
<1>5. ASSUME NEW t \in SlowTasks,
             HostNetworkCollected(t) \/ DevicesCollected(t) \/ HistoryCompacted(t)
      PROVE  /\ \E to \in Stages :
                   /\ stage[t] # "off"
                   /\ t \in Requests => to # "off"
                   /\ stage' = [stage EXCEPT ![t] = to]
             /\ UNCHANGED <<slowTask, monitorLock>>
  BY <1>5, ActorsDisjoint
  DEF HostNetworkCollected, DevicesCollected, HistoryCompacted, SlowStage, Stages
<1> QED
  BY <1>1, <1>2, <1>3, <1>4, <1>5 DEF Next, SlowRound, Actors

\* At most one slow round is alive: the task _start_slow would find not done() is
\* the only one that can be running.
THEOREM SlowRoundsExclusive == Spec => []OneSlowRound
<1>1. Init => OneSlowRound
  BY DEF Init, OneSlowRound, Actors
<1>2. TypeOK /\ OneSlowRound /\ [Next]_vars => OneSlowRound'
  <2> SUFFICES ASSUME TypeOK, OneSlowRound, [Next]_vars,
                      NEW t \in SlowTasks, stage'[t] # "off"
               PROVE  t = slowTask'
    BY DEF OneSlowRound
  <2>1. t \in Actors /\ stage \in [Actors -> Stages]
    BY DEF Actors, TypeOK
  <2>2. CASE UNCHANGED <<stage, slowTask, monitorLock>>
    BY <2>2 DEF OneSlowRound
  <2>3. CASE ~SlowRunning /\ StartSlow
    <3>1. PICK u \in SlowTasks : /\ slowTask' = u
                                 /\ stage' = [stage EXCEPT ![u] = "host_network"]
      BY <2>3 DEF StartSlow
    <3>2. stage[t] = "off"
      BY <2>3, NoTaskIsNoTask DEF SlowRunning, OneSlowRound
    <3> QED
      BY <2>1, <3>1, <3>2
  <2>4. ASSUME NEW p \in Actors, NEW to \in Stages, stage[p] # "off",
               stage' = [stage EXCEPT ![p] = to], UNCHANGED slowTask
        PROVE  t = slowTask'
    BY <2>1, <2>4 DEF OneSlowRound
  <2>5. ASSUME NEW r \in Requests, BeginRefresh(r) \/ RefreshSent(r)
        PROVE  t = slowTask'
    BY <2>1, <2>5, ActorsDisjoint
    DEF OneSlowRound, BeginRefresh, RefreshSent, loopVars
  <2> QED
    BY <2>2, <2>3, <2>4, <2>5, StageStep
<1> QED
  BY <1>1, <1>2, TypeCorrect, PTL DEF Spec

\* At most one refresh is alive, and _monitor_lock is held exactly while it is.
THEOREM RefreshesExclusive == Spec => []OneRefresh
<1>1. Init => OneRefresh
  BY DEF Init, OneRefresh, Actors
<1>2. TypeOK /\ OneRefresh /\ [Next]_vars => OneRefresh'
  <2> SUFFICES ASSUME TypeOK, OneRefresh, [Next]_vars
               PROVE  OneRefresh'
    OBVIOUS
  <2>1. stage \in [Actors -> Stages] /\ Requests \subseteq Actors
    BY DEF Actors, TypeOK
  <2>2. CASE UNCHANGED <<stage, slowTask, monitorLock>>
    BY <2>2 DEF OneRefresh
  <2>3. CASE LoopCollected /\ ~SlowRunning /\ StartSlow
    <3>1. PICK u \in SlowTasks : stage' = [stage EXCEPT ![u] = "host_network"]
      BY <2>3 DEF StartSlow
    <3>2. \A r \in Requests : stage'[r] = stage[r]
      BY <2>1, <3>1, ActorsDisjoint
    <3> QED
      BY <2>3, <3>2 DEF OneRefresh, LoopCollected
  <2>4. ASSUME NEW p \in Actors, NEW to \in Stages, stage[p] # "off",
               p \in Requests => to # "off",
               stage' = [stage EXCEPT ![p] = to], UNCHANGED monitorLock
        PROVE  OneRefresh'
    <3>1. \A r \in Requests : stage'[r] # "off" <=> stage[r] # "off"
      BY <2>1, <2>4
    <3> QED
      BY <2>4, <3>1 DEF OneRefresh
  <2>5. ASSUME NEW r \in Requests, BeginRefresh(r)
        PROVE  OneRefresh'
    BY <2>1, <2>5 DEF OneRefresh, BeginRefresh
  <2>6. ASSUME NEW r \in Requests, RefreshSent(r)
        PROVE  OneRefresh'
    BY <2>1, <2>6 DEF OneRefresh, RefreshSent
  <2> QED
    BY <2>2, <2>3, <2>4, <2>5, <2>6, StageStep
<1> QED
  BY <1>1, <1>2, TypeCorrect, PTL DEF Spec

\* Both: no two slow rounds, no two refreshes.
THEOREM RoundsStayExclusive == Spec => []RoundsExclusive
BY SlowRoundsExclusive, RefreshesExclusive, PTL DEF RoundsExclusive

-----------------------------------------------------------------------------
(***************************************************************************)
(* The summary.                                                            *)
(***************************************************************************)

\* A step builds a new section, prunes the one on display, or leaves it alone.
LEMMA ViewStep ==
    ASSUME TypeOK, [Next]_vars
    PROVE  \/ UNCHANGED view
           \/ \E rs \in SUBSET Rows : \E up \in SUBSET rs : view' = Overview(rs, up)
           \/ \E n \in Names : view' = Forget(view, n)
<1>1. ASSUME NEW p \in Actors, OverviewBuilt(p)
      PROVE  \E rs \in SUBSET Rows : \E up \in SUBSET rs : view' = Overview(rs, up)
  BY <1>1 DEF OverviewBuilt, TypeOK
<1>2. ASSUME NEW p \in Actors, Round(p), ~OverviewBuilt(p)
      PROVE  UNCHANGED view
  BY <1>2 DEF Round, DockerCollected, OverviewFailed, HistoryMarked, ResourcesCollected
<1>3. ASSUME NEW n \in Names, PruneSnapshot(n)
      PROVE  view' = Forget(view, n)
  BY <1>3 DEF PruneSnapshot
<1> QED
  BY <1>1, <1>2, <1>3
  DEF Next, SlowRound, Actors, LoopWake, LoopCollected, LoopSent, IntervalElapses,
      HostNetworkCollected, DevicesCollected, HistoryCompacted, SlowStage,
      BeginRefresh, RefreshSent, AddService, RemoveService, vars

\* The summary always counts the rows on display, provided that no two entries
\* of services.yaml share a kind and a name, as the UI guarantees.
THEOREM SummaryCorrect ==
    ASSUME NamesUnique
    PROVE  Spec => []SummaryMatchesRows
<1>1. Init => SummaryMatchesRows
  BY NoOverviewCounts DEF Init, SummaryMatchesRows
<1>2. TypeOK /\ SummaryMatchesRows /\ [Next]_vars => SummaryMatchesRows'
  <2> SUFFICES ASSUME TypeOK, Counted(view), [Next]_vars
               PROVE  Counted(view')
    BY DEF SummaryMatchesRows, Counted
  <2>1. CASE UNCHANGED view
    BY <2>1
  <2>2. CASE \E rs \in SUBSET Rows : \E up \in SUBSET rs : view' = Overview(rs, up)
    BY <2>2, OverviewCounts
  <2>3. CASE \E n \in Names : view' = Forget(view, n)
    BY <2>3, ForgetCounts DEF TypeOK
  <2> QED
    BY <2>1, <2>2, <2>3, ViewStep
<1> QED
  BY <1>1, <1>2, TypeCorrect, PTL DEF Spec

-----------------------------------------------------------------------------
(***************************************************************************)
(* What a refresh answers with.                                            *)
(***************************************************************************)

\* A round that builds has read the catalogue after every refresh that is alive
\* had begun: none begins while another round runs.
BuildsAreYoung ==
    \A p \in Actors : stage[p] = "services" => Alive \subseteq after[p]

\* A refresh past its own build has a younger overview on display, or has failed.
AnswerIsReady ==
    \A r \in Requests :
        stage[r] \in {"history", "resources", "send"} => r \in current \cup failed

AnswersInv == BuildsAreYoung /\ AnswerIsReady

\* The observed collector is the collector.
LEMMA ObservedIsSpec == ASpec => Spec
<1>1. AInit => Init
  BY DEF AInit
<1>2. [ANext]_<<vars, ghosts>> => [Next]_vars
  BY DEF ANext
<1> QED
  BY <1>1, <1>2, PTL DEF ASpec, Spec

\* The steps of one round, by the stages they join.  A round that is not one of
\* these is in the stage it was in.
LEMMA RoundSteps ==
    ASSUME TypeOK, [Next]_vars, NEW p \in Actors, stage'[p] # stage[p]
    PROVE  /\ stage' = [stage EXCEPT ![p] = stage'[p]]
           /\ \/ stage[p] = "off" /\ stage'[p] = "host_network" /\ p \in SlowTasks
              \/ stage[p] \in {"host_network", "devices"} /\ stage'[p] \in {"devices", "docker"}
                 /\ p \in SlowTasks
              \/ stage[p] = "docker" /\ stage'[p] = "services"
              \/ stage[p] = "services" /\ stage'[p] \in {"history", "resources"}
              \/ stage[p] \in {"history", "resources"}
                 /\ stage'[p] \in {"resources", "compact", "send"}
              \/ stage[p] = "compact" /\ stage'[p] = "off" /\ p \in SlowTasks
              \/ p \in Requests /\ BeginRefresh(p)
              \/ p \in Requests /\ stage[p] = "send" /\ stage'[p] = "off"
<1> USE DEF taskVars, loopVars, catalogVars
<1>0. stage \in [Actors -> Stages]
  BY DEF TypeOK
<1>1. CASE LoopWake \/ LoopSent \/ IntervalElapses \/ UNCHANGED vars
  BY <1>1 DEF LoopWake, LoopSent, IntervalElapses, vars
<1>2. CASE LoopCollected
  BY <1>0, <1>2 DEF LoopCollected, StartSlow, Actors
<1>3. CASE (\E x \in Rows : AddService(x))
           \/ \E n \in Names : RemoveService(n) \/ PruneSnapshot(n)
  BY <1>3 DEF AddService, RemoveService, PruneSnapshot
<1>4. ASSUME NEW q \in Actors, Round(q)
      PROVE  /\ q = p /\ stage' = [stage EXCEPT ![p] = stage'[p]]
             /\ \/ stage[p] = "docker" /\ stage'[p] = "services"
                \/ stage[p] = "services" /\ stage'[p] \in {"history", "resources"}
                \/ /\ stage[p] \in {"history", "resources"}
                   /\ stage'[p] \in {"resources", "compact", "send"}
  BY <1>0, <1>4
  DEF Round, DockerCollected, OverviewBuilt, OverviewFailed, HistoryMarked,
      ResourcesCollected
<1>5. ASSUME NEW t \in SlowTasks,
             HostNetworkCollected(t) \/ DevicesCollected(t) \/ HistoryCompacted(t)
      PROVE  /\ t = p /\ stage' = [stage EXCEPT ![p] = stage'[p]]
             /\ \/ /\ stage[p] \in {"host_network", "devices"}
                   /\ stage'[p] \in {"devices", "docker"}
                \/ stage[p] = "compact" /\ stage'[p] = "off"
  BY <1>0, <1>5
  DEF HostNetworkCollected, DevicesCollected, HistoryCompacted, SlowStage, Actors
<1>6. ASSUME NEW r \in Requests, BeginRefresh(r) \/ RefreshSent(r)
      PROVE  /\ r = p /\ stage' = [stage EXCEPT ![p] = stage'[p]]
             /\ \/ BeginRefresh(p)
                \/ stage[p] = "send" /\ stage'[p] = "off"
  BY <1>0, <1>6 DEF BeginRefresh, RefreshSent, Actors
<1> QED
  BY <1>1, <1>2, <1>3, <1>4, <1>5, <1>6 DEF Next, SlowRound, Actors

\* A step in which no refresh begins: who is alive was alive, and what Observe
\* writes down keeps the two invariants.
LEMMA RoundKeepsAnswers ==
    ASSUME TypeOK, RoundsExclusive, AnswersInv, [ANext]_<<vars, ghosts>>,
           \A r \in Requests : ~BeginRefresh(r)
    PROVE  AnswersInv'
<1>0. stage \in [Actors -> Stages] /\ Requests \subseteq Actors
  BY DEF TypeOK, Actors
<1>1. Alive' \subseteq Alive
  <2> SUFFICES ASSUME NEW r \in Requests, stage'[r] # "off", stage[r] = "off"
               PROVE  FALSE
    BY DEF Alive
  <2>1. [Next]_vars
    BY DEF ANext
  <2> QED
    BY <2>1, <1>0, RoundSteps, ActorsDisjoint
<1>2. CASE UNCHANGED <<vars, ghosts>>
  BY <1>2 DEF vars, ghosts, AnswersInv, BuildsAreYoung, AnswerIsReady, Alive
<1>3. CASE ANext
  <2>1. TypeOK /\ [Next]_vars /\ Observe
    BY <1>3 DEF ANext
  <2>2. ASSUME NEW p \in Actors, stage'[p] = "services"
        PROVE  Alive' \subseteq after'[p]
    <3>1. stage[p] \in {"docker", "services"}
      BY <1>0, <2>1, <2>2, RoundSteps DEF BeginRefresh
    <3>2. CASE stage[p] = "docker"
      <4>1. after'[p] = Alive
        BY <2>1, <2>2, <3>2 DEF Observe, Moves
      <4> QED
        BY <1>1, <4>1
    <3>3. CASE stage[p] = "services"
      <4>1. after'[p] = after[p] \cap Alive'
        BY <2>1, <2>2, <3>3 DEF Observe, Moves
      <4>2. Alive \subseteq after[p]
        BY <3>3 DEF AnswersInv, BuildsAreYoung
      <4> QED
        BY <1>1, <4>1, <4>2
    <3> QED
      BY <3>1, <3>2, <3>3
  <2>3. ASSUME NEW r \in Requests, stage'[r] \in {"history", "resources", "send"}
        PROVE  r \in current' \cup failed'
    <3>1. r \in Alive' /\ r \in Alive
      BY <1>1, <2>3 DEF Alive
    <3>2. CASE \E p \in Actors : Moves(p, "services", "history")
      <4>1. PICK p \in Actors : Moves(p, "services", "history")
        BY <3>2
      <4>2. r \in after[p]
        BY <3>1, <4>1 DEF AnswersInv, BuildsAreYoung, Moves
      <4>3. r \in UNION {after[q] : q \in {x \in Actors : Moves(x, "services", "history")}}
        BY <4>1, <4>2
      <4>4. current' = Alive' \cap UNION {after[q] : q \in {x \in Actors : Moves(x, "services", "history")}}
        BY <2>1, <4>1 DEF Observe
      <4> QED
        BY <3>1, <4>3, <4>4
    <3>3. CASE ~\E p \in Actors : Moves(p, "services", "history")
      <4>1. current' = Alive' \cap current
        <5>1. {x \in Actors : Moves(x, "services", "history")} = {}
          BY <3>3
        <5> QED
          BY <2>1, <5>1 DEF Observe
      <4>2. r \in failed' <=> r \in failed \/ Moves(r, "services", "resources")
        BY <2>1, <3>1 DEF Observe
      <4>3. CASE stage[r] \in {"history", "resources", "send"}
        BY <3>1, <4>1, <4>2, <4>3 DEF AnswersInv, AnswerIsReady
      <4>4. CASE stage[r] \notin {"history", "resources", "send"}
        <5>1. stage[r] = "services" /\ stage'[r] = "resources"
          BY <1>0, <2>1, <2>3, <3>3, <4>4, RoundSteps, ActorsDisjoint DEF BeginRefresh, Moves
        <5> QED
          BY <4>2, <5>1 DEF Moves
      <4> QED
        BY <4>3, <4>4
    <3> QED
      BY <3>2, <3>3
  <2> QED
    BY <2>2, <2>3 DEF AnswersInv, BuildsAreYoung, AnswerIsReady
<1> QED
  BY <1>2, <1>3

\* A refresh begins: neither a slow round nor another refresh is running, so
\* no round is building and none has an answer ready.
LEMMA BeginKeepsAnswers ==
    ASSUME TypeOK, RoundsExclusive, AnswersInv, NEW r \in Requests, BeginRefresh(r)
    PROVE  AnswersInv'
<1>0. stage \in [Actors -> Stages] /\ Requests \subseteq Actors
  BY DEF TypeOK, Actors
<1>1. \A p \in Actors : stage[p] = "off"
  <2>1. \A q \in Requests : stage[q] = "off"
    BY DEF BeginRefresh, RoundsExclusive, OneRefresh
  <2>2. \A t \in SlowTasks : stage[t] = "off"
    BY NoTaskIsNoTask DEF BeginRefresh, SlowRunning, RoundsExclusive, OneSlowRound
  <2> QED
    BY <2>1, <2>2 DEF Actors
<1>2. \A p \in Actors : stage'[p] \in {"off", "docker"}
  BY <1>0, <1>1 DEF BeginRefresh
<1> QED
  BY <1>0, <1>2 DEF AnswersInv, BuildsAreYoung, AnswerIsReady

\* A refresh answers with an overview read after it was asked for, unless its own
\* build raised: the guards of refresh_monitor keep out the rounds that had read
\* the catalogue before.
THEOREM AnswersStayFresh == ASpec => AnswersFresh
<1>1. AInit => AnswersInv
  BY DEF AInit, Init, AnswersInv, BuildsAreYoung, AnswerIsReady, Actors
<1>2. TypeOK /\ RoundsExclusive /\ AnswersInv /\ [ANext]_<<vars, ghosts>> => AnswersInv'
  BY RoundKeepsAnswers, BeginKeepsAnswers
<1>3. AnswersInv => [\A r \in Requests :
          Moves(r, "send", "off") => r \in current \cup failed]_<<vars, ghosts>>
  BY DEF AnswersInv, AnswerIsReady, Moves
<1> QED
  BY <1>1, <1>2, <1>3, ObservedIsSpec, TypeCorrect, RoundsStayExclusive, PTL
  DEF ASpec, AnswersFresh

=============================================================================
