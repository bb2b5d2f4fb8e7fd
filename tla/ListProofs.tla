------------------------------ MODULE ListProofs ------------------------------
(***************************************************************************)
(* Proofs about LiveSocket, ToolRuns and HistoryEvents, whose state is a   *)
(* list that others shorten: what a broadcast reaches, what a quota lets   *)
(* through, what the pruned events still tell.                             *)
(***************************************************************************)
EXTENDS LiveSocket, ToolRuns, HistoryEvents, FiniteSetTheorems, SequenceTheorems,
        WellFoundedInduction, TLAPS

-----------------------------------------------------------------------------
(***************************************************************************)
(* The elements of a list at some places.                                  *)
(***************************************************************************)

\* A set of naturals that is not empty has a least one.
LEMMA LeastNatural ==
    ASSUME NEW T, T \subseteq Nat, T # {}
    PROVE  \E x \in T : \A y \in T : x <= y
<1>1. PICK x \in T : \A y \in T : ~ (<<y, x>> \in OpToRel(<, Nat))
  BY NatLessThanWellFounded, WFMin
<1>2. \A y \in T : <<y, x>> \in OpToRel(<, Nat) <=> y < x
  BY DEF OpToRel
<1>3. \A y \in T : ~ (y < x)
  BY <1>1, <1>2, Zenon
<1>4. \A y \in T : x \in Nat /\ y \in Nat
  OBVIOUS
<1> QED
  BY <1>3, <1>4

\* Places can be counted, and the next place adds one where it is kept.
LEMMA RankFacts ==
    ASSUME NEW n \in Nat, NEW places \in SUBSET (1 .. n)
    PROVE  /\ IsFiniteSet(places) /\ Cardinality(places) \in Nat
           /\ \A m \in Nat : Rank(places, m) \in 0 .. Cardinality(places)
           /\ Rank(places, 0) = 0
           /\ Rank(places, n) = Cardinality(places)
           /\ \A m \in Nat : Rank(places, m + 1)
                 = IF m + 1 \in places THEN Rank(places, m) + 1 ELSE Rank(places, m)
<1>0. \A j \in places : j \in Nat /\ 1 <= j /\ j <= n
  OBVIOUS
<1>1. IsFiniteSet(places) /\ Cardinality(places) \in Nat
  <2>1. IsFiniteSet(1 .. n)
    BY FS_Interval
  <2>2. IsFiniteSet(places)
    BY <2>1, FS_Subset
  <2> QED
    BY <2>2, FS_CardinalityType
<1>2. ASSUME NEW m \in Nat
      PROVE  /\ IsFiniteSet({j \in places : j <= m})
             /\ Rank(places, m) \in 0 .. Cardinality(places)
  <2>1. {j \in places : j <= m} \in SUBSET places
    OBVIOUS
  <2>2. /\ IsFiniteSet({j \in places : j <= m})
        /\ Cardinality({j \in places : j <= m}) <= Cardinality(places)
    BY <1>1, <2>1, FS_Subset
  <2>3. Cardinality({j \in places : j <= m}) \in Nat
    BY <2>2, FS_CardinalityType
  <2> QED
    BY <1>1, <2>2, <2>3 DEF Rank
<1>3. {j \in places : j <= 0} = {} /\ {j \in places : j <= n} = places
  <2>1. \A j \in places : ~ (j <= 0)
    BY <1>0
  <2> QED
    BY <1>0, <2>1
<1>4. ASSUME NEW m \in Nat
      PROVE  Rank(places, m + 1)
                = IF m + 1 \in places THEN Rank(places, m) + 1 ELSE Rank(places, m)
  <2> DEFINE upTo == {j \in places : j <= m}
  <2>1. CASE m + 1 \in places
    <3>0. \A j \in places : j <= m + 1 <=> j <= m \/ j = m + 1
      BY <1>0
    <3>1. {j \in places : j <= m + 1} = upTo \cup {m + 1}
      BY <2>1, <3>0
    <3>2. m + 1 \notin upTo /\ IsFiniteSet(upTo)
      BY <1>2
    <3>3. Cardinality(upTo \cup {m + 1}) = Cardinality(upTo) + 1
      BY <3>2, FS_AddElement
    <3> QED
      BY <2>1, <3>1, <3>3 DEF Rank
  <2>2. CASE m + 1 \notin places
    <3>0. \A j \in places : j <= m + 1 <=> j <= m
      BY <1>0, <2>2
    <3>1. {j \in places : j <= m + 1} = upTo
      BY <3>0
    <3> QED
      BY <2>2, <3>1 DEF Rank
  <2> QED
    BY <2>1, <2>2
<1> QED
  BY <1>1, <1>2, <1>3, <1>4, FS_EmptySet DEF Rank

\* Each number up to how many there are is that of a place.
LEMMA NthExists ==
    ASSUME NEW n \in Nat, NEW places \in SUBSET (1 .. n),
           NEW k \in 1 .. Cardinality(places)
    PROVE  Nth(places, k) \in places /\ Rank(places, Nth(places, k)) = k
<1> DEFINE enough == {m \in 0 .. n : Rank(places, m) >= k}
<1>1. n \in enough /\ 0 \notin enough /\ enough \subseteq Nat
  BY RankFacts
<1>2. PICK m \in enough : \A x \in enough : m <= x
  BY <1>1, LeastNatural
<1>3. m \in 1 .. n /\ m - 1 \in 0 .. n /\ m - 1 \notin enough
  BY <1>1, <1>2
<1>4. /\ Rank(places, m) >= k /\ ~ (Rank(places, m - 1) >= k)
      /\ Rank(places, m) \in Nat /\ Rank(places, m - 1) \in Nat
  BY <1>3, RankFacts
<1>5. Rank(places, m) = IF m \in places THEN Rank(places, m - 1) + 1 ELSE Rank(places, m - 1)
  <2>1. (m - 1) \in Nat /\ (m - 1) + 1 = m
    BY <1>3
  <2> QED
    BY <2>1, RankFacts
<1>6. m \in places /\ Rank(places, m) = k
  BY <1>4, <1>5, RankFacts
<1> QED
  BY <1>6 DEF Nth

\* Two places have two numbers.
LEMMA RankInjective ==
    ASSUME NEW n \in Nat, NEW places \in SUBSET (1 .. n),
           NEW i \in places, NEW j \in places, Rank(places, i) = Rank(places, j)
    PROVE  i = j
<1>1. ASSUME NEW a \in places, NEW b \in places, a < b
      PROVE  Rank(places, a) # Rank(places, b)
  <2>0. \A x \in places : x \in Nat /\ (x <= a => x <= b)
    BY <1>1
  <2>1. {x \in places : x <= a} \in SUBSET {x \in places : x <= b}
    BY <2>0
  <2>2. IsFiniteSet({x \in places : x <= b})
    BY RankFacts, FS_Subset
  <2>3. b \in {x \in places : x <= b} /\ b \notin {x \in places : x <= a}
    BY <1>1
  <2> QED
    BY <2>1, <2>2, <2>3, FS_Subset DEF Rank
<1> QED
  BY <1>1

\* What is picked from a list is a list of the same things.
LEMMA PickedType ==
    ASSUME NEW S, NEW s \in Seq(S), NEW places \in SUBSET DOMAIN s
    PROVE  /\ Picked(s, places) \in Seq(S)
           /\ Len(Picked(s, places)) = Cardinality(places)
<1>1. Len(s) \in Nat /\ places \in SUBSET (1 .. Len(s))
  OBVIOUS
<1>2. Cardinality(places) \in Nat
  BY <1>1, RankFacts
<1>3. \A k \in 1 .. Cardinality(places) : s[Nth(places, k)] \in S
  <2> SUFFICES ASSUME NEW k \in 1 .. Cardinality(places)
               PROVE  s[Nth(places, k)] \in S
    OBVIOUS
  <2>1. Nth(places, k) \in places
    BY <1>1, NthExists
  <2> QED
    BY <1>1, <2>1
<1> QED
  BY <1>2, <1>3 DEF Picked

\* Where every place is kept nothing changes.
LEMMA PickedAll ==
    ASSUME NEW S, NEW s \in Seq(S)
    PROVE  Picked(s, DOMAIN s) = s
<1> DEFINE n == Len(s)
<1>1. n \in Nat /\ DOMAIN s = 1 .. n
  OBVIOUS
<1>2. ASSUME NEW i \in 1 .. n
      PROVE  {j \in 1 .. n : j <= i} = 1 .. i /\ Cardinality(1 .. i) = i
  <2>1. i \in Nat /\ i >= 1 /\ i <= n
    BY <1>1
  <2>2. Cardinality(1 .. i) = i
    BY <2>1, FS_Interval
  <2>3. \A j : j \in {x \in 1 .. n : x <= i} <=> j \in 1 .. i
    BY <1>1, <2>1
  <2> QED
    BY <2>2, <2>3
<1>3. \A i \in 1 .. n : Rank(1 .. n, i) = i
  BY <1>2 DEF Rank
<1>4. Cardinality(1 .. n) = n
  BY <1>1, FS_Interval
<1>5. \A k \in 1 .. n : Nth(1 .. n, k) = k
  BY <1>3 DEF Nth
<1>6. Picked(s, 1 .. n) = [k \in 1 .. n |-> s[k]]
  BY <1>4, <1>5 DEF Picked
<1> QED
  BY <1>1, <1>6

-----------------------------------------------------------------------------
(***************************************************************************)
(* The live socket.  While the list only grows, each client a broadcast    *)
(* owes its message to keeps its place, and has been sent to once the      *)
(* iteration has come by.                                                  *)
(***************************************************************************)

LwTypes ==
    /\ lwChange \in Nat
    /\ lwActive \in Seq(LwClients)
    /\ lwGot \in [LwClients -> Nat]
    /\ lwLeft \in [LwClients -> BOOLEAN]
    /\ lwIndex \in [LwSenders -> Nat]
    /\ lwOwed \in [LwSenders -> SUBSET LwClients]
    /\ lwSince \in [LwSenders -> Nat]
    /\ lwShifted \in [LwSenders -> BOOLEAN]

\* Nobody is shown what has not happened.
NotAhead ==
    /\ \A w \in LwClients : lwGot[w] <= lwChange
    /\ \A b \in LwSenders : lwSince[b] <= lwChange

Reached(b) ==
    lwIndex[b] # 0 /\ ~ lwShifted[b] =>
        \A w \in lwOwed[b] : \E p \in 1 .. Len(lwActive) :
            /\ lwActive[p] = w
            /\ p <= lwIndex[b] /\ ~ lwLeft[w] => lwGot[w] >= lwSince[b]

LwInv == LwTypes /\ NotAhead /\ UpdateReachesAll /\ \A b \in LwSenders : Reached(b)

LEMMA LwInitInv == LwInit => LwInv
BY DEF LwInit, LwInv, LwTypes, NotAhead, Reached, UpdateReachesAll

\* Taking clients out leaves a list of clients, the same one where none of them was in it.
LEMMA DisconnectFacts ==
    ASSUME LwTypes, NEW gone, Disconnect(gone)
    PROVE  /\ lwActive' \in Seq(LwClients)
           /\ gone \cap ToSet(lwActive) = {} => lwActive' = lwActive
<1> DEFINE stay == {i \in DOMAIN lwActive : lwActive[i] \notin gone}
<1>1. lwActive \in Seq(LwClients) /\ stay \in SUBSET DOMAIN lwActive
  BY DEF LwTypes
<1>2. lwActive' = Picked(lwActive, stay)
  BY DEF Disconnect
<1>3. lwActive' \in Seq(LwClients)
  BY <1>1, <1>2, PickedType
<1>4. ASSUME gone \cap ToSet(lwActive) = {}
      PROVE  lwActive' = lwActive
  <2>1. stay = DOMAIN lwActive
    BY <1>4 DEF ToSet
  <2> QED
    BY <1>1, <1>2, <2>1, PickedAll
<1> QED
  BY <1>3, <1>4

\* Clients leave the list: the broadcasts that go over it are marked, or it is as it was.
LEMMA ReachedAfterDisconnect ==
    ASSUME LwInv, NEW gone, Disconnect(gone), NEW b \in LwSenders,
           lwIndex'[b] = lwIndex[b], lwOwed'[b] = lwOwed[b], lwSince'[b] = lwSince[b],
           lwShifted'[b] = (lwShifted[b] \/ Shortens(b, gone)),
           lwLeft' = lwLeft, lwGot' = lwGot
    PROVE  Reached(b)'
<1> SUFFICES ASSUME lwIndex'[b] # 0, ~ lwShifted'[b]
             PROVE  Reached(b)'
  BY DEF Reached
<1>1. gone \cap ToSet(lwActive) = {}
  BY DEF Shortens
<1>2. lwActive' = lwActive
  BY <1>1, DisconnectFacts DEF LwInv
<1>3. Reached(b)
  BY DEF LwInv
<1> QED
  BY <1>2, <1>3 DEF Reached

\* A message leaves for the client at the place i: whoever had something that new has it
\* still.
LEMMA SendFacts ==
    ASSUME LwTypes, NotAhead, NEW b \in LwSenders, NEW i \in 1 .. Len(lwActive), SendTo(b, i)
    PROVE  /\ lwIndex' = [lwIndex EXCEPT ![b] = i]
           /\ lwGot' \in [LwClients -> Nat]
           /\ \A w \in LwClients : lwGot'[w] = lwGot[w] \/ lwGot'[w] = lwChange
           /\ ~ lwLeft[lwActive[i]] => lwGot'[lwActive[i]] = lwChange
<1>1. lwActive[i] \in LwClients
  BY DEF LwTypes
<1> QED
  BY <1>1 DEF SendTo, LwTypes

LEMMA LwStepInv == LwInv /\ [LwNext]_lwVars => LwInv'
<1> SUFFICES ASSUME LwInv, [LwNext]_lwVars PROVE LwInv'
  OBVIOUS
<1>0. LwTypes /\ NotAhead /\ UpdateReachesAll /\ \A b \in LwSenders : Reached(b)
  BY DEF LwInv
<1> USE DEF lwHandlers, lwSending, lwHistory
<1>1. CASE Change
  <2>1. LwTypes' /\ NotAhead' /\ UpdateReachesAll'
    BY <1>0, <1>1 DEF Change, LwTypes, NotAhead, UpdateReachesAll
  <2>2. \A b \in LwSenders : Reached(b)'
    BY <1>0, <1>1 DEF Change, Reached
  <2> QED
    BY <2>1, <2>2 DEF LwInv
<1>2. ASSUME NEW w \in LwClients, Connect(w)
      PROVE  LwInv'
  <2>1. /\ lwActive' \in Seq(LwClients) /\ Len(lwActive') = Len(lwActive) + 1
        /\ \A p \in 1 .. Len(lwActive) : lwActive'[p] = lwActive[p] /\ p \in 1 .. Len(lwActive')
    BY <1>0, <1>2 DEF Connect, LwTypes
  <2>2. LwTypes' /\ NotAhead' /\ UpdateReachesAll'
    BY <1>0, <1>2, <2>1 DEF Connect, LwTypes, NotAhead, UpdateReachesAll
  <2>3. \A v \in LwClients : lwGot'[v] = lwGot[v] \/ lwGot'[v] = lwChange
    BY <1>0, <1>2 DEF Connect, LwTypes
  <2>4. ASSUME NEW b \in LwSenders
        PROVE  Reached(b)'
    <3> SUFFICES ASSUME lwIndex[b] # 0, ~ lwShifted[b], NEW v \in lwOwed[b]
                 PROVE  \E p \in 1 .. Len(lwActive') :
                           /\ lwActive'[p] = v
                           /\ p <= lwIndex[b] /\ ~ lwLeft[v] => lwGot'[v] >= lwSince[b]
      BY <1>2 DEF Connect, Reached
    <3>1. PICK p \in 1 .. Len(lwActive) :
              /\ lwActive[p] = v
              /\ p <= lwIndex[b] /\ ~ lwLeft[v] => lwGot[v] >= lwSince[b]
      BY <1>0 DEF Reached
    <3>2. v \in LwClients /\ lwSince[b] <= lwChange
      BY <1>0 DEF LwTypes, NotAhead
    <3>3. lwGot[v] >= lwSince[b] => lwGot'[v] >= lwSince[b]
      BY <1>0, <2>3, <3>2 DEF LwTypes
    <3> QED
      BY <2>1, <3>1, <3>3
  <2> QED
    BY <2>2, <2>4 DEF LwInv
<1>3. ASSUME NEW w \in LwClients, PageLeaves(w)
      PROVE  LwInv'
  <2>1. LwTypes' /\ NotAhead' /\ UpdateReachesAll'
    BY <1>0, <1>3 DEF PageLeaves, LwTypes, NotAhead, UpdateReachesAll
  <2>2. \A v \in LwClients : lwLeft[v] => lwLeft'[v]
    BY <1>0, <1>3 DEF PageLeaves, LwTypes
  <2>3. \A b \in LwSenders : Reached(b)'
    BY <1>0, <1>3, <2>2 DEF PageLeaves, Reached, LwTypes
  <2> QED
    BY <2>1, <2>3 DEF LwInv
<1>4. ASSUME NEW w \in LwClients, HandlerReturns(w)
      PROVE  LwInv'
  <2>1. lwActive' \in Seq(LwClients)
    BY <1>0, <1>4, DisconnectFacts DEF HandlerReturns
  <2>2. LwTypes'
    <3>1. lwShifted' \in [LwSenders -> BOOLEAN]
      BY <1>4 DEF HandlerReturns, Shortens
    <3> QED
      BY <1>0, <1>4, <2>1, <3>1 DEF HandlerReturns, LwTypes
  <2>3. NotAhead' /\ UpdateReachesAll'
    BY <1>0, <1>4 DEF HandlerReturns, NotAhead, UpdateReachesAll
  <2>4. \A b \in LwSenders : Reached(b)'
    BY <1>4, ReachedAfterDisconnect DEF HandlerReturns
  <2> QED
    BY <2>2, <2>3, <2>4 DEF LwInv
<1>5. ASSUME NEW b \in LwSenders, StartBroadcast(b)
      PROVE  LwInv'
  <2>1. 1 \in 1 .. Len(lwActive) /\ ToSet(lwActive) \subseteq LwClients
    BY <1>0, <1>5 DEF StartBroadcast, LwTypes, ToSet
  <2>2. /\ lwIndex' = [lwIndex EXCEPT ![b] = 1]
        /\ lwGot' \in [LwClients -> Nat]
        /\ \A w \in LwClients : lwGot'[w] = lwGot[w] \/ lwGot'[w] = lwChange
        /\ ~ lwLeft[lwActive[1]] => lwGot'[lwActive[1]] = lwChange
    BY <1>0, <1>5, <2>1, SendFacts DEF StartBroadcast
  <2>3. LwTypes' /\ NotAhead' /\ UpdateReachesAll'
    <3>1. /\ lwOwed' = [lwOwed EXCEPT ![b] = ToSet(lwActive)]
          /\ lwSince' = [lwSince EXCEPT ![b] = lwChange]
          /\ UNCHANGED <<lwChange, lwActive, lwAt, lwLeft, lwShifted, lwMissed>>
      BY <1>5 DEF StartBroadcast
    <3>2. LwTypes'
      BY <1>0, <2>1, <2>2, <3>1 DEF LwTypes
    <3>3. \A c \in LwSenders : lwSince'[c] = lwSince[c] \/ lwSince'[c] = lwChange
      BY <1>0, <3>1 DEF LwTypes
    <3> QED
      <4>0. ASSUME NEW w \in LwClients
            PROVE  lwGot'[w] <= lwChange
        <5>1. lwGot'[w] = lwGot[w] \/ lwGot'[w] = lwChange
          BY <2>2
        <5>2. lwGot[w] <= lwChange /\ lwChange \in Nat
          BY <1>0 DEF LwTypes, NotAhead
        <5> QED
          BY <5>1, <5>2
      <4>1. NotAhead'
        BY <1>0, <4>0, <3>1, <3>3 DEF LwTypes, NotAhead
      <4>2. UpdateReachesAll'
        BY <1>0, <3>1 DEF UpdateReachesAll
      <4> QED
        BY <3>2, <4>1, <4>2
  <2>4. Reached(b)'
    <3> SUFFICES ASSUME NEW w \in ToSet(lwActive)
                 PROVE  \E p \in 1 .. Len(lwActive) :
                           /\ lwActive[p] = w
                           /\ p <= 1 /\ ~ lwLeft[w] => lwGot'[w] >= lwChange
      BY <1>0, <1>5, <2>2 DEF StartBroadcast, Reached, LwTypes
    <3>1. PICK p \in 1 .. Len(lwActive) : lwActive[p] = w
      <4>1. DOMAIN lwActive = 1 .. Len(lwActive)
        BY <1>0 DEF LwTypes
      <4>2. \E p \in DOMAIN lwActive : lwActive[p] = w
        BY Zenon DEF ToSet
      <4> QED
        BY <4>1, <4>2
    <3>2. p <= 1 /\ ~ lwLeft[w] => lwGot'[w] >= lwChange
      BY <1>0, <2>2, <3>1 DEF LwTypes
    <3> QED
      BY <3>1, <3>2
  <2>5. ASSUME NEW c \in LwSenders, c # b
        PROVE  Reached(c)'
    <3>1. /\ lwIndex'[c] = lwIndex[c] /\ lwOwed'[c] = lwOwed[c] /\ lwSince'[c] = lwSince[c]
          /\ UNCHANGED <<lwActive, lwLeft, lwShifted>>
      BY <1>0, <1>5, <2>2, <2>5 DEF StartBroadcast, LwTypes
    <3>2. \A w \in LwClients : lwGot[w] >= lwSince[c] => lwGot'[w] >= lwSince[c]
      BY <1>0, <2>2 DEF LwTypes, NotAhead
    <3>3. lwOwed[c] \subseteq LwClients /\ Reached(c)
      BY <1>0 DEF LwTypes
    <3> QED
      BY <3>1, <3>2, <3>3 DEF Reached
  <2> QED
    BY <2>3, <2>4, <2>5 DEF LwInv
<1>6. ASSUME NEW b \in LwSenders, NextSend(b)
      PROVE  LwInv'
  <2> DEFINE i == lwIndex[b] + 1
  <2>1. i \in 1 .. Len(lwActive) /\ lwIndex[b] \in Nat
    BY <1>0, <1>6 DEF NextSend, LwTypes
  <2>2. /\ lwIndex' = [lwIndex EXCEPT ![b] = i]
        /\ lwGot' \in [LwClients -> Nat]
        /\ \A w \in LwClients : lwGot'[w] = lwGot[w] \/ lwGot'[w] = lwChange
        /\ ~ lwLeft[lwActive[i]] => lwGot'[lwActive[i]] = lwChange
    BY <1>0, <1>6, <2>1, SendFacts DEF NextSend
  <2>3. UNCHANGED <<lwChange, lwActive, lwAt, lwLeft, lwOwed, lwSince, lwShifted, lwMissed>>
    BY <1>6 DEF NextSend
  <2>4. LwTypes' /\ NotAhead' /\ UpdateReachesAll'
    <3>1. LwTypes'
      BY <1>0, <2>1, <2>2, <2>3 DEF LwTypes
    <3> QED
      <4>0. ASSUME NEW w \in LwClients
            PROVE  lwGot'[w] <= lwChange
        <5>1. lwGot'[w] = lwGot[w] \/ lwGot'[w] = lwChange
          BY <2>2
        <5>2. lwGot[w] <= lwChange /\ lwChange \in Nat
          BY <1>0 DEF LwTypes, NotAhead
        <5> QED
          BY <5>1, <5>2
      <4>1. NotAhead'
        BY <1>0, <4>0, <2>3 DEF LwTypes, NotAhead
      <4>2. UpdateReachesAll'
        BY <1>0, <2>3 DEF UpdateReachesAll
      <4> QED
        BY <3>1, <4>1, <4>2
  <2>5. ASSUME NEW c \in LwSenders
        PROVE  Reached(c)'
    <3> SUFFICES ASSUME lwIndex'[c] # 0, ~ lwShifted[c], NEW w \in lwOwed[c]
                 PROVE  \E p \in 1 .. Len(lwActive) :
                           /\ lwActive[p] = w
                           /\ p <= lwIndex'[c] /\ ~ lwLeft[w] => lwGot'[w] >= lwSince[c]
      BY <2>3 DEF Reached
    <3>0. lwIndex[c] # 0
      BY <1>0, <1>6, <2>2 DEF NextSend, LwTypes
    <3>1. PICK p \in 1 .. Len(lwActive) :
              /\ lwActive[p] = w
              /\ p <= lwIndex[c] /\ ~ lwLeft[w] => lwGot[w] >= lwSince[c]
      BY <1>0, <3>0 DEF Reached
    <3>2. w \in LwClients /\ lwSince[c] <= lwChange /\ lwIndex[c] \in Nat /\ p \in Nat
      BY <1>0 DEF LwTypes, NotAhead
    <3>3. lwGot[w] >= lwSince[c] => lwGot'[w] >= lwSince[c]
      BY <1>0, <2>2, <3>2 DEF LwTypes
    <3>4. p <= lwIndex'[c] => p <= lwIndex[c] \/ (c = b /\ p = i)
      BY <1>0, <2>1, <2>2, <3>2 DEF LwTypes
    <3>5. p = i /\ ~ lwLeft[w] => lwGot'[w] >= lwSince[c]
      BY <1>0, <2>2, <3>1, <3>2 DEF LwTypes
    <3> QED
      BY <3>1, <3>3, <3>4, <3>5
  <2> QED
    BY <2>4, <2>5 DEF LwInv
<1>7. ASSUME NEW b \in LwSenders, EndBroadcast(b)
      PROVE  LwInv'
  <2>1. PICK dead \in Fallen(b) :
          /\ lwIndex[b] # 0 /\ lwIndex[b] >= Len(lwActive) /\ Disconnect(dead)
          /\ lwIndex' = [lwIndex EXCEPT ![b] = 0]
          /\ lwMissed' = (lwMissed \/ LeftOut(b))
          /\ lwOwed' = [lwOwed EXCEPT ![b] = {}]
          /\ lwSince' = [lwSince EXCEPT ![b] = 0]
          /\ lwShifted' = [x \in LwSenders |-> x # b /\ (lwShifted[x] \/ Shortens(x, dead))]
          /\ UNCHANGED <<lwChange, lwAt, lwLeft, lwGot>>
    BY <1>7 DEF EndBroadcast
  <2>2. ~ LeftOut(b)
    <3> SUFFICES ASSUME ~ lwShifted[b], NEW w \in lwOwed[b], Here(w), lwGot[w] < lwSince[b]
                 PROVE  FALSE
      BY DEF LeftOut
    <3>1. PICK p \in 1 .. Len(lwActive) :
              p <= lwIndex[b] /\ ~ lwLeft[w] => lwGot[w] >= lwSince[b]
      BY <1>0, <2>1 DEF Reached
    <3>2. p <= lwIndex[b] /\ ~ lwLeft[w] /\ w \in LwClients
      BY <1>0, <2>1 DEF LwTypes, Here
    <3> QED
      BY <1>0, <3>1, <3>2 DEF LwTypes
  <2>3. lwActive' \in Seq(LwClients)
    BY <1>0, <2>1, DisconnectFacts
  <2>4. LwTypes' /\ NotAhead' /\ UpdateReachesAll'
    <3>1. lwShifted' \in [LwSenders -> BOOLEAN]
      BY <2>1, <1>0 DEF Shortens, LwTypes
    <3>2. LwTypes'
      BY <1>0, <2>1, <2>3, <3>1 DEF LwTypes
    <3>3. \A c \in LwSenders : lwSince'[c] = lwSince[c] \/ lwSince'[c] = 0
      BY <1>0, <2>1 DEF LwTypes
    <3> QED
      <4>1. NotAhead'
        BY <1>0, <2>1, <3>3 DEF LwTypes, NotAhead
      <4>2. UpdateReachesAll'
        BY <1>0, <2>1, <2>2 DEF UpdateReachesAll
      <4> QED
        BY <3>2, <4>1, <4>2
  <2>5. ASSUME NEW c \in LwSenders
        PROVE  Reached(c)'
    <3>1. CASE c = b
      BY <1>0, <2>1, <3>1 DEF Reached, LwTypes
    <3>2. CASE c # b
      <4>1. /\ lwIndex'[c] = lwIndex[c] /\ lwOwed'[c] = lwOwed[c] /\ lwSince'[c] = lwSince[c]
            /\ lwShifted'[c] = (lwShifted[c] \/ Shortens(c, dead))
        BY <1>0, <2>1, <3>2 DEF LwTypes
      <4> QED
        BY <2>1, <4>1, ReachedAfterDisconnect
    <3> QED
      BY <3>1, <3>2
  <2> QED
    BY <2>4, <2>5 DEF LwInv
<1>8. CASE UNCHANGED lwVars
  <2>1. UNCHANGED <<lwChange, lwActive, lwAt, lwLeft, lwGot, lwIndex, lwOwed, lwSince,
                    lwShifted, lwMissed>>
    BY <1>8 DEF lwVars
  <2> QED
    BY <1>0, <2>1 DEF LwInv, LwTypes, NotAhead, UpdateReachesAll, Reached
<1> QED
  BY <1>1, <1>2, <1>3, <1>4, <1>5, <1>6, <1>7, <1>8 DEF LwNext

\* A broadcast reaches every client that was there from its beginning and still is, for
\* any number of clients and of broadcasts under way, unless the list was shortened
\* under it (ConnectionManager.broadcast goes over a list that connect and disconnect
\* change while it awaits).
THEOREM BroadcastsReachAll == LwSpec => []UpdateReachesAll
<1>1. LwInv => UpdateReachesAll
  BY DEF LwInv
<1> QED
  BY <1>1, LwInitInv, LwStepInv, PTL DEF LwSpec

-----------------------------------------------------------------------------
(***************************************************************************)
(* The network tools.  As long as a refund gives back the hit of who has   *)
(* it, the hits after any time that is not forgotten are at least as many  *)
(* as the requests let through after it.                                   *)
(***************************************************************************)

Above(s, a) == {i \in DOMAIN s : s[i] > a}

Since(a) == {r \in LetThrough : tlTime[r] > a}

Within(t) == {r \in LetThrough : t - TlWindow < tlTime[r] /\ tlTime[r] <= t}

TlTypes ==
    /\ tlNow \in Nat
    /\ tlHits \in Seq(Nat)
    /\ tlAt \in [TlRequests -> {"out", "checking", "refused", "started", "reading", "done"}]
    /\ tlTime \in [TlRequests -> Nat]
    /\ \A r \in TlRequests : tlTime[r] <= tlNow

HitsCount ==
    tlMixed \/ \A a \in Int : a >= tlNow - TlWindow =>
                    Cardinality(Since(a)) <= Cardinality(Above(tlHits, a))

TlInv == TlTypes /\ HitsCount /\ WindowKept

\* Requests and hits can be counted.
LEMMA RequestsCount ==
    ASSUME NEW R \in SUBSET TlRequests
    PROVE  IsFiniteSet(R) /\ Cardinality(R) \in Nat
BY RequestsFinite, FS_Subset, FS_CardinalityType

LEMMA AboveCounts ==
    ASSUME NEW s \in Seq(Nat), NEW a \in Int
    PROVE  IsFiniteSet(Above(s, a)) /\ Cardinality(Above(s, a)) \in Nat
<1>1. Above(s, a) \in SUBSET (1 .. Len(s)) /\ Len(s) \in Nat
  BY DEF Above
<1> QED
  BY <1>1, RankFacts

\* Of the hits picked, as many come after a time as of the places they were at.
LEMMA PickedAbove ==
    ASSUME NEW s \in Seq(Nat), NEW places \in SUBSET DOMAIN s, NEW a \in Int
    PROVE  Cardinality(Above(Picked(s, places), a))
               = Cardinality({i \in places : s[i] > a})
<1> DEFINE n == Len(s)
           K == Above(Picked(s, places), a)
           I == {i \in places : s[i] > a}
           f == [k \in K |-> Nth(places, k)]
<1>1. n \in Nat /\ places \in SUBSET (1 .. n)
  OBVIOUS
<1>2. K = {k \in 1 .. Cardinality(places) : s[Nth(places, k)] > a}
  BY DEF Picked, Above
<1>3. \A k \in K : Nth(places, k) \in places /\ Rank(places, Nth(places, k)) = k
  BY <1>1, <1>2, NthExists
<1>4. f \in [K -> I]
  BY <1>2, <1>3
<1>5. \A k, l \in K : f[k] = f[l] => k = l
  BY <1>3
<1>6. ASSUME NEW i \in I
      PROVE  \E k \in K : f[k] = i
  <2> DEFINE k == Rank(places, i)
  <2>1. i \in places /\ i \in Nat /\ i - 1 \in Nat /\ (i - 1) + 1 = i
    BY <1>1
  <2>2. Rank(places, (i - 1) + 1) = Rank(places, i - 1) + 1
    <3>1. \A m \in Nat : Rank(places, m + 1)
             = IF m + 1 \in places THEN Rank(places, m) + 1 ELSE Rank(places, m)
      BY <1>1, RankFacts
    <3> QED
      BY <2>1, <3>1
  <2>3. k \in 1 .. Cardinality(places)
    <3>1. /\ Rank(places, i) \in 0 .. Cardinality(places)
          /\ Rank(places, i - 1) \in 0 .. Cardinality(places)
          /\ Cardinality(places) \in Nat
      BY <1>1, <2>1, RankFacts
    <3>2. Rank(places, i) = Rank(places, i - 1) + 1
      BY <2>1, <2>2
    <3> QED
      BY <3>1, <3>2
  <2>4. Nth(places, k) \in places /\ Rank(places, Nth(places, k)) = k
    BY <1>1, <2>3, NthExists
  <2>5. Nth(places, k) = i
    BY <1>1, <2>4, RankInjective
  <2> QED
    BY <1>2, <2>3, <2>5
<1>7. f \in Bijection(K, I)
  <2>1. f \in Injection(K, I)
    BY <1>4, <1>5 DEF Injection, IsInjective
  <2>2. f \in Surjection(K, I)
    BY <1>4, <1>6 DEF Surjection
  <2> QED
    BY <2>1, <2>2 DEF Bijection
<1>8. IsFiniteSet(K)
  <2>1. Cardinality(places) \in Nat /\ K \in SUBSET (1 .. Cardinality(places))
    BY <1>1, <1>2, RankFacts
  <2> QED
    BY <2>1, RankFacts
<1> QED
  BY <1>7, <1>8, FS_Bijection DEF ExistsBijection

\* Forgetting the hits that are over takes none of those after a time that is not.
LEMMA RecentFacts ==
    ASSUME TlTypes
    PROVE  /\ Recent \in Seq(Nat)
           /\ Len(Recent) = Cardinality(Above(tlHits, tlNow - TlWindow))
           /\ \A a \in Int : a >= tlNow - TlWindow =>
                 Cardinality(Above(Recent, a)) = Cardinality(Above(tlHits, a))
<1> DEFINE P == {i \in DOMAIN tlHits : tlNow - tlHits[i] < TlWindow}
<1>1. tlHits \in Seq(Nat) /\ P \in SUBSET DOMAIN tlHits /\ tlNow \in Nat /\ TlWindow \in Nat
  BY QuotaNat DEF TlTypes
<1>2. \A i \in DOMAIN tlHits : tlHits[i] \in Nat
  BY <1>1
<1>3. P = Above(tlHits, tlNow - TlWindow)
  BY <1>1, <1>2 DEF Above
<1>4. ASSUME NEW a \in Int, a >= tlNow - TlWindow
      PROVE  {i \in P : tlHits[i] > a} = Above(tlHits, a)
  <2>1. \A i \in DOMAIN tlHits : tlHits[i] > a => tlNow - tlHits[i] < TlWindow
    BY <1>1, <1>2, <1>4
  <2> QED
    BY <2>1 DEF Above
<1>5. \A a \in Int : Cardinality(Above(Picked(tlHits, P), a))
                        = Cardinality({i \in P : tlHits[i] > a})
  BY <1>1, PickedAbove
<1>6. Picked(tlHits, P) \in Seq(Nat) /\ Len(Picked(tlHits, P)) = Cardinality(P)
  BY <1>1, PickedType
<1> QED
  BY <1>3, <1>4, <1>5, <1>6 DEF Recent

LEMMA TlInitInv == TlInit => TlInv
<1> SUFFICES ASSUME TlInit PROVE TlInv
  OBVIOUS
<1>1. TlTypes
  BY DEF TlInit, TlTypes
<1>2. LetThrough = {}
  BY DEF TlInit, LetThrough
<1>3. \A a \in Int : Cardinality(Since(a)) = 0 /\ Cardinality(Above(tlHits, a)) \in Nat
  <2>1. \A a : Since(a) = {}
    BY <1>2 DEF Since
  <2> QED
    BY <1>1, <2>1, FS_EmptySet, AboveCounts DEF TlTypes
<1>4. HitsCount
  BY <1>3 DEF HitsCount
<1>5. \A t : {r \in LetThrough : t - TlWindow < tlTime[r] /\ tlTime[r] <= t} = {}
  BY <1>2
<1>6. WindowKept
  BY <1>5, QuotaNat, FS_EmptySet DEF WindowKept
<1> QED
  BY <1>1, <1>4, <1>6 DEF TlInv

\* The clock goes on: the window that ends now holds no more than the one before.
LEMMA TickKeepsQuota == ASSUME TlInv, TlTick PROVE TlInv'
<1>1. /\ tlNow \in Nat /\ tlNow' = tlNow + 1 /\ TlWindow \in Nat /\ TlMax \in Nat
      /\ UNCHANGED <<tlHits, tlAt, tlTime, tlMixed>>
  BY QuotaNat DEF TlInv, TlTypes, TlTick
<1>2. TlTypes'
  BY <1>1 DEF TlInv, TlTypes
<1>3. LetThrough' = LetThrough
  BY <1>1 DEF LetThrough
<1>4. HitsCount'
  <2>1. \A a : Since(a)' = Since(a)
    BY <1>1, <1>3 DEF Since
  <2>2. \A a \in Int : a >= (tlNow + 1) - TlWindow => a >= tlNow - TlWindow
    BY <1>1
  <2> QED
    BY <1>1, <2>1, <2>2 DEF TlInv, HitsCount
<1>5. WindowKept'
  <2> SUFFICES ASSUME ~ tlMixed, NEW t \in 0 .. tlNow + 1
               PROVE  Cardinality(Within(t)) <= TlMax
    BY <1>1, <1>3 DEF WindowKept, Within
  <2>1. \A u \in 0 .. tlNow : Cardinality(Within(u)) <= TlMax
    BY DEF TlInv, WindowKept, Within
  <2>2. CASE t \in 0 .. tlNow
    BY <2>1, <2>2
  <2>3. CASE t = tlNow + 1
    <3>1. \A r \in TlRequests : tlTime[r] \in Nat /\ tlTime[r] <= tlNow
      BY DEF TlInv, TlTypes
    <3>2. Within(t) \in SUBSET Within(tlNow) /\ Within(tlNow) \in SUBSET TlRequests
      BY <1>1, <2>3, <3>1 DEF Within, LetThrough
    <3>3. Cardinality(Within(t)) <= Cardinality(Within(tlNow))
      BY <3>2, RequestsCount, FS_Subset
    <3>4. /\ Cardinality(Within(t)) \in Nat /\ Cardinality(Within(tlNow)) \in Nat
          /\ Cardinality(Within(tlNow)) <= TlMax
      <4>1. Within(t) \in SUBSET TlRequests
        BY <3>2
      <4> QED
        BY <1>1, <2>1, <3>2, <4>1, RequestsCount
    <3> QED
      BY <1>1, <3>3, <3>4
  <2> QED
    BY <1>1, <2>2, <2>3
<1> QED
  BY <1>2, <1>4, <1>5 DEF TlInv

\* A request is counted: those of its window were less than the hits it has seen.
LEMMA AskKeepsQuota == ASSUME TlInv, NEW r \in TlRequests, Ask(r) PROVE TlInv'
<1>0. TlTypes /\ TlWindow \in Nat /\ TlMax \in Nat /\ tlNow \in Nat
  BY QuotaNat DEF TlInv, TlTypes
<1>1. /\ Len(Recent) < TlMax /\ tlAt[r] = "out"
      /\ tlAt' = [tlAt EXCEPT ![r] = "checking"]
      /\ tlHits' = Append(Recent, tlNow)
      /\ tlTime' = [tlTime EXCEPT ![r] = tlNow]
      /\ UNCHANGED <<tlNow, tlMixed>>
  BY DEF Ask, ToolGoes
<1>2. Recent \in Seq(Nat)
  BY <1>0, RecentFacts
<1>3. TlTypes'
  BY <1>0, <1>1, <1>2 DEF TlTypes
<1>4. LetThrough' = LetThrough \cup {r} /\ r \notin LetThrough
  BY <1>0, <1>1 DEF LetThrough, TlTypes
<1>5. /\ tlTime'[r] = tlNow
      /\ \A q \in LetThrough : tlTime'[q] = tlTime[q] /\ tlTime[q] \in Nat /\ tlTime[q] <= tlNow
  BY <1>0, <1>1, <1>4 DEF TlTypes, LetThrough
<1>6. HitsCount'
  <2> SUFFICES ASSUME ~ tlMixed, NEW a \in Int, a >= tlNow - TlWindow
               PROVE  Cardinality(Since(a)') <= Cardinality(Above(tlHits', a))
    BY <1>1 DEF HitsCount
  <2>1. Cardinality(Since(a)) <= Cardinality(Above(Recent, a))
    BY <1>0, RecentFacts DEF TlInv, HitsCount
  <2>2. /\ IsFiniteSet(Since(a)) /\ Cardinality(Since(a)) \in Nat
        /\ IsFiniteSet(Above(Recent, a)) /\ Cardinality(Above(Recent, a)) \in Nat
    <3>1. Since(a) \in SUBSET TlRequests
      BY DEF Since, LetThrough
    <3> QED
      BY <1>2, <3>1, RequestsCount, AboveCounts
  <2>3. CASE tlNow > a
    <3>1. Since(a)' = Since(a) \cup {r} /\ r \notin Since(a)
      BY <1>4, <1>5, <2>3 DEF Since
    <3>2. Above(tlHits', a) = Above(Recent, a) \cup {Len(Recent) + 1}
      BY <1>0, <1>1, <1>2, <2>3 DEF Above
    <3>3. Len(Recent) + 1 \notin Above(Recent, a)
      BY <1>2 DEF Above
    <3>4. /\ Cardinality(Since(a) \cup {r}) = Cardinality(Since(a)) + 1
          /\ Cardinality(Above(Recent, a) \cup {Len(Recent) + 1})
                = Cardinality(Above(Recent, a)) + 1
      BY <2>2, <3>1, <3>3, FS_AddElement
    <3> QED
      BY <2>1, <2>2, <3>1, <3>2, <3>4
  <2>4. CASE ~ (tlNow > a)
    <3>1. Since(a)' = {}
      <4>1. \A q \in LetThrough' : ~ (tlTime'[q] > a)
        BY <1>0, <1>4, <1>5, <2>4
      <4> QED
        BY <4>1 DEF Since
    <3>2. Cardinality(Above(tlHits', a)) \in Nat
      BY <1>3, AboveCounts DEF TlTypes
    <3> QED
      BY <3>1, <3>2, FS_EmptySet
  <2> QED
    BY <2>3, <2>4
<1>7. WindowKept'
  <2> SUFFICES ASSUME ~ tlMixed, NEW t \in 0 .. tlNow
               PROVE  Cardinality(Within(t)') <= TlMax
    BY <1>1 DEF WindowKept, Within
  <2>1. CASE t < tlNow
    <3>1. Within(t)' = Within(t)
      BY <1>0, <1>4, <1>5, <2>1 DEF Within
    <3> QED
      BY <3>1 DEF TlInv, WindowKept, Within
  <2>2. CASE t = tlNow
    <3> DEFINE a == tlNow - TlWindow
    <3>1. Within(t)' \in SUBSET (Since(a) \cup {r})
      BY <1>0, <1>4, <1>5, <2>2 DEF Within, Since
    <3>2. a \in Int /\ Cardinality(Since(a)) <= Len(Recent)
      BY <1>0, RecentFacts DEF TlInv, HitsCount
    <3>3. Since(a) \in SUBSET TlRequests /\ Since(a) \cup {r} \in SUBSET TlRequests
      BY DEF Since, LetThrough
    <3>4. /\ IsFiniteSet(Since(a)) /\ Cardinality(Since(a)) \in Nat
          /\ IsFiniteSet(Since(a) \cup {r}) /\ Cardinality(Since(a) \cup {r}) \in Nat
      BY <3>3, RequestsCount
    <3>5. Cardinality(Since(a) \cup {r}) <= Cardinality(Since(a)) + 1
      BY <3>4, FS_AddElement
    <3>6. /\ Cardinality(Within(t)') <= Cardinality(Since(a) \cup {r})
          /\ Cardinality(Within(t)') \in Nat
      BY <3>1, <3>4, FS_Subset, FS_CardinalityType
    <3>7. Len(Recent) \in Nat
      BY <1>2
    <3> QED
      BY <1>0, <1>1, <3>2, <3>4, <3>5, <3>6, <3>7
  <2> QED
    BY <1>0, <2>1, <2>2
<1> QED
  BY <1>3, <1>6, <1>7 DEF TlInv

\* A request is refused: it is no longer one of those let through, and the hit taken back
\* is of its time.
LEMMA RefusedKeepsQuota == ASSUME TlInv, NEW r \in TlRequests, Refused(r) PROVE TlInv'
<1>0. TlTypes /\ TlWindow \in Nat /\ TlMax \in Nat /\ tlNow \in Nat
  BY QuotaNat DEF TlInv, TlTypes
<1>1. /\ tlAt[r] = "checking"
      /\ tlAt' = [tlAt EXCEPT ![r] = "refused"]
      /\ tlHits' = IF tlHits = <<>> THEN tlHits ELSE Front(tlHits)
      /\ UNCHANGED <<tlNow, tlTime>>
  BY DEF Refused, ToolGoes, Refund
<1>2. ~ tlMixed' => ~ tlMixed /\ (tlHits = <<>> \/ Last(tlHits) = tlTime[r])
  BY DEF Refused, Refund
<1>3. tlHits # <<>> =>
         /\ Len(tlHits) \in Nat \ {0} /\ tlHits' \in Seq(Nat) /\ Len(tlHits') = Len(tlHits) - 1
         /\ \A i \in 1 .. Len(tlHits) - 1 : tlHits'[i] = tlHits[i]
  <2> SUFFICES ASSUME tlHits # <<>>
               PROVE  /\ Len(tlHits) \in Nat \ {0} /\ tlHits' \in Seq(Nat)
                      /\ Len(tlHits') = Len(tlHits) - 1
                      /\ \A i \in 1 .. Len(tlHits) - 1 : tlHits'[i] = tlHits[i]
    OBVIOUS
  <2> DEFINE n == Len(tlHits) - 1
  <2>1. tlHits \in Seq(Nat) /\ Len(tlHits) \in Nat \ {0} /\ n \in Nat
    BY <1>0 DEF TlTypes
  <2>2. \A i \in 1 .. n : tlHits[i] \in Nat
    BY <2>1
  <2>3. tlHits' = SubSeq(tlHits, 1, n)
    BY <1>1 DEF Front
  <2>4. /\ SubSeq(tlHits, 1, n) \in Seq(Nat)
        /\ Len(SubSeq(tlHits, 1, n)) = IF 1 <= n THEN n - 1 + 1 ELSE 0
        /\ \A i \in 1 .. n - 1 + 1 : SubSeq(tlHits, 1, n)[i] = tlHits[1 + i - 1]
    BY <2>1, <2>2, SubSeqProperties
  <2>5. n - 1 + 1 = n /\ \A i \in 1 .. n : 1 + i - 1 = i
    BY <2>1
  <2>6. Len(SubSeq(tlHits, 1, n)) = n
    <3>1. \A m \in Nat : (IF 1 <= m THEN m - 1 + 1 ELSE 0) = m
      OBVIOUS
    <3>2. (IF 1 <= n THEN n - 1 + 1 ELSE 0) = n
      BY <2>1, <3>1, Zenon
    <3> QED
      BY <2>4, <3>2
  <2> QED
    BY <2>1, <2>3, <2>4, <2>5, <2>6
<1>4. TlTypes'
  BY <1>0, <1>1, <1>3 DEF TlTypes
<1>5. LetThrough' = LetThrough \ {r} /\ r \in LetThrough
  BY <1>0, <1>1 DEF LetThrough, TlTypes
<1>6. HitsCount'
  <2> SUFFICES ASSUME ~ tlMixed', NEW a \in Int, a >= tlNow - TlWindow
               PROVE  Cardinality(Since(a)') <= Cardinality(Above(tlHits', a))
    BY <1>1 DEF HitsCount
  <2>1. Cardinality(Since(a)) <= Cardinality(Above(tlHits, a))
    BY <1>2 DEF TlInv, HitsCount
  <2>2. /\ IsFiniteSet(Since(a)) /\ Cardinality(Since(a)) \in Nat
        /\ IsFiniteSet(Above(tlHits, a)) /\ Cardinality(Above(tlHits, a)) \in Nat
    <3>1. Since(a) \in SUBSET TlRequests
      BY DEF Since, LetThrough
    <3> QED
      BY <1>0, <3>1, RequestsCount, AboveCounts DEF TlTypes
  <2>3. Since(a)' = Since(a) \ {r}
    BY <1>1, <1>5 DEF Since
  <2>4. Cardinality(Since(a)') = IF r \in Since(a) THEN Cardinality(Since(a)) - 1
                                 ELSE Cardinality(Since(a))
    BY <2>2, <2>3, FS_RemoveElement
  <2>5. CASE tlHits = <<>>
    BY <1>1, <2>1, <2>2, <2>4, <2>5
  <2>6. CASE tlHits # <<>>
    <3> DEFINE last == Len(tlHits)
    <3>1. tlHits[last] = tlTime[r] /\ last \in DOMAIN tlHits
      BY <1>0, <1>2, <1>3, <2>6 DEF Last, TlTypes
    <3>2. Above(tlHits', a) = Above(tlHits, a) \ {last}
      <4>1. /\ DOMAIN tlHits = 1 .. last /\ DOMAIN tlHits' = 1 .. last - 1 /\ last \in Nat
        BY <1>0, <1>3, <1>4, <2>6 DEF TlTypes
      <4>2. DOMAIN tlHits' = DOMAIN tlHits \ {last}
        BY <4>1
      <4>3. \A i \in DOMAIN tlHits' : tlHits'[i] = tlHits[i]
        BY <1>3, <2>6, <4>1
      <4> QED
        BY <4>2, <4>3 DEF Above
    <3>3. Cardinality(Above(tlHits', a))
             = IF last \in Above(tlHits, a) THEN Cardinality(Above(tlHits, a)) - 1
               ELSE Cardinality(Above(tlHits, a))
      BY <2>2, <3>2, FS_RemoveElement
    <3>4. last \in Above(tlHits, a) <=> r \in Since(a)
      BY <1>5, <3>1 DEF Above, Since
    <3> QED
      BY <2>1, <2>2, <2>4, <3>3, <3>4
  <2> QED
    BY <2>5, <2>6
<1>7. WindowKept'
  <2> SUFFICES ASSUME ~ tlMixed', NEW t \in 0 .. tlNow
               PROVE  Cardinality(Within(t)') <= TlMax
    BY <1>1 DEF WindowKept, Within
  <2>1. Within(t)' \in SUBSET Within(t) /\ Within(t) \in SUBSET TlRequests
    BY <1>1, <1>5 DEF Within, LetThrough
  <2>2. Cardinality(Within(t)) <= TlMax
    BY <1>2 DEF TlInv, WindowKept, Within
  <2>3. /\ Cardinality(Within(t)') <= Cardinality(Within(t))
        /\ Cardinality(Within(t)') \in Nat /\ Cardinality(Within(t)) \in Nat
    BY <2>1, RequestsCount, FS_Subset, FS_CardinalityType
  <2> QED
    BY <1>0, <2>2, <2>3
<1> QED
  BY <1>4, <1>6, <1>7 DEF TlInv

LEMMA TlStepInv == TlInv /\ [TlNext]_tlVars => TlInv'
<1> SUFFICES ASSUME TlInv, [TlNext]_tlVars PROVE TlInv'
  OBVIOUS
<1>0. TlTypes /\ HitsCount /\ WindowKept
  BY DEF TlInv
<1>1. ASSUME NEW r \in TlRequests, TooMany(r)
      PROVE  TlInv'
  <2>1. tlHits' = Recent /\ UNCHANGED <<tlNow, tlAt, tlTime, tlMixed>>
    BY <1>1 DEF TooMany
  <2>2. TlTypes'
    BY <1>0, <2>1, RecentFacts DEF TlTypes
  <2>3. HitsCount'
    <3>1. \A a : Since(a)' = Since(a)
      BY <2>1 DEF Since, LetThrough
    <3>2. \A a \in Int : a >= tlNow - TlWindow =>
             Cardinality(Above(tlHits', a)) = Cardinality(Above(tlHits, a))
      BY <1>0, <2>1, RecentFacts
    <3> QED
      BY <1>0, <2>1, <3>1, <3>2 DEF HitsCount
  <2>4. WindowKept'
    BY <1>0, <2>1 DEF WindowKept, LetThrough
  <2> QED
    BY <2>2, <2>3, <2>4 DEF TlInv
<1>2. ASSUME UNCHANGED <<tlNow, tlHits, tlTime, tlMixed>>, LetThrough' = LetThrough,
             tlAt' \in [TlRequests -> {"out", "checking", "refused", "started", "reading", "done"}]
      PROVE  TlInv'
  BY <1>0, <1>2 DEF TlInv, TlTypes, HitsCount, WindowKept, Since
<1>3. ASSUME NEW r \in TlRequests,
             Spawned(r) \/ BodyBegins(r) \/ ClosedAtStart(r) \/ RunEnds(r) \/ RunExpires(r)
      PROVE  TlInv'
  <2>1. PICK to \in {"started", "reading", "done"} :
            /\ tlAt[r] \in {"checking", "started", "reading"}
            /\ tlAt' = [tlAt EXCEPT ![r] = to]
            /\ UNCHANGED <<tlNow, tlHits, tlTime, tlMixed>>
    BY <1>3 DEF Spawned, BodyBegins, ClosedAtStart, RunEnds, RunExpires, ToolGoes, Ended
  <2>2. LetThrough' = LetThrough
    BY <1>0, <2>1 DEF LetThrough, TlTypes
  <2>3. tlAt' \in [TlRequests -> {"out", "checking", "refused", "started", "reading", "done"}]
    BY <1>0, <2>1 DEF TlTypes
  <2> QED
    BY <1>2, <2>1, <2>2, <2>3
<1>4. CASE UNCHANGED tlVars
  <2>1. UNCHANGED <<tlNow, tlHits, tlAt, tlTime, tlMixed>>
    BY <1>4 DEF tlVars
  <2> QED
    BY <1>0, <1>2, <2>1 DEF TlTypes, LetThrough
<1> QED
  BY <1>1, <1>3, <1>4, TickKeepsQuota, AskKeepsQuota, RefusedKeepsQuota DEF TlNext

\* No window of time holds more requests let through than the quota, for any number of
\* requests, quota and window, unless a refund has given back the hit of another
\* (RateLimiter and its use around the check of the target).
THEOREM QuotaHolds == TlSpec => []WindowKept
<1>1. TlInv => WindowKept
  BY DEF TlInv
<1> QED
  BY <1>1, TlInitInv, TlStepInv, PTL DEF TlSpec

-----------------------------------------------------------------------------
(***************************************************************************)
(* The events of the history.  The rows stay in the order of the clock, so *)
(* that what the window leaves of one subject is the end of its rows, and  *)
(* two rows that pruning makes neighbours were neighbours before.          *)
(***************************************************************************)

\* The rows are in the order of the clock, and none is of the future.
InOrder(rows) ==
    \A i, j \in DOMAIN rows :
        i <= j => rows[i].t <= rows[j].t /\ rows[j].t <= evNow

Alternate(rows) ==
    \A s \in Subjects : \A i, j \in RowsOf(s, rows) :
        (i < j /\ ~ \E k \in RowsOf(s, rows) : i < k /\ k < j)
            => rows[i].ok # rows[j].ok \/ rows[j].gap

\* What the memory holds of a subject is what its last row says.
Agrees(last, rows, s) ==
    last[s] = IF RowsOf(s, rows) = {} THEN "none" ELSE rows[LastRow(s, rows)].ok

EvInv ==
    /\ EvTypeOK
    /\ InOrder(evRows)
    /\ Alternate(evRows)
    /\ evDb = "open" => \A s \in Subjects \ evUnsure : Agrees(evLast, evRows, s)

\* The invariant is what the property says of each state.
LEMMA EvInvExact == EvInv => EventsExact
<1>1. EvInv => EventsAlternate
  BY DEF EvInv, Alternate, EventsAlternate
<1>2. EvInv => MemoryIsLastRow
  BY DEF EvInv, Agrees, MemoryIsLastRow, StateRows
<1> QED
  BY <1>1, <1>2 DEF EventsExact

\* Places of a list that are not none have a last one.
LEMMA GreatestPlace ==
    ASSUME NEW n \in Nat, NEW T \in SUBSET (1 .. n), T # {}
    PROVE  \E x \in T : \A y \in T : y <= x
<1> DEFINE D == {n - y : y \in T}
<1>1. D \subseteq Nat /\ D # {}
  OBVIOUS
<1>2. PICK d \in D : \A e \in D : d <= e
  BY <1>1, LeastNatural
<1>3. PICK x \in T : d = n - x
  OBVIOUS
<1>4. \A y \in T : n - x <= n - y
  BY <1>2, <1>3
<1> QED
  BY <1>4

LEMMA LastRowFacts ==
    ASSUME NEW rows \in Seq(EventRow), NEW s \in Subjects
    PROVE  /\ RowsOf(s, rows) \in SUBSET (1 .. Len(rows)) /\ Len(rows) \in Nat
           /\ RowsOf(s, rows) # {} =>
                 /\ LastRow(s, rows) \in RowsOf(s, rows)
                 /\ \A j \in RowsOf(s, rows) : j <= LastRow(s, rows)
<1>1. RowsOf(s, rows) \in SUBSET (1 .. Len(rows)) /\ Len(rows) \in Nat
  BY DEF RowsOf
<1>2. RowsOf(s, rows) # {} => \E i \in RowsOf(s, rows) : \A j \in RowsOf(s, rows) : j <= i
  BY <1>1, GreatestPlace
<1> QED
  BY <1>1, <1>2 DEF LastRow

\* The row of a subject that none of its rows comes after is its last.
LEMMA LastRowIs ==
    ASSUME NEW rows \in Seq(EventRow), NEW s \in Subjects, NEW i \in RowsOf(s, rows),
           \A j \in RowsOf(s, rows) : j <= i
    PROVE  LastRow(s, rows) = i
<1>1. LastRow(s, rows) \in RowsOf(s, rows) /\ i <= LastRow(s, rows)
  BY LastRowFacts
<1>2. LastRow(s, rows) <= i /\ LastRow(s, rows) \in Nat /\ i \in Nat
  BY <1>1, LastRowFacts
<1> QED
  BY <1>1, <1>2

\* One row more at the end, which tells a change of its subject or stands where a row may
\* be missing.
LEMMA AppendRow ==
    ASSUME NEW rows \in Seq(EventRow), NEW row \in EventRow, evNow \in Nat,
           InOrder(rows), Alternate(rows), row.t = evNow,
           \/ RowsOf(row.who, rows) = {}
           \/ rows[LastRow(row.who, rows)].ok # row.ok
           \/ row.gap
    PROVE  /\ Append(rows, row) \in Seq(EventRow)
           /\ InOrder(Append(rows, row)) /\ Alternate(Append(rows, row))
           /\ \A last \in [Subjects -> States \cup {"none"}] :
                 /\ last[row.who] = row.ok => Agrees(last, Append(rows, row), row.who)
                 /\ \A s \in Subjects \ {row.who} :
                       Agrees(last, rows, s) => Agrees(last, Append(rows, row), s)
<1> DEFINE n == Len(rows)
           more == Append(rows, row)
<1>1. /\ n \in Nat /\ more \in Seq(EventRow) /\ Len(more) = n + 1 /\ more[n + 1] = row
      /\ \A i \in 1 .. n : more[i] = rows[i]
      /\ DOMAIN more = 1 .. n + 1 /\ DOMAIN rows = 1 .. n
      /\ row.who \in Subjects
  BY DEF EventRow
<1> HIDE DEF n, more
<1>2. ASSUME NEW s \in Subjects
      PROVE  RowsOf(s, more) = IF s = row.who THEN RowsOf(s, rows) \cup {n + 1} ELSE RowsOf(s, rows)
  <2>1. 1 .. n + 1 = (1 .. n) \cup {n + 1} /\ n + 1 \notin 1 .. n
    BY <1>1
  <2>2. RowsOf(s, more) = {i \in 1 .. n : rows[i].who = s} \cup {i \in {n + 1} : row.who = s}
    BY <1>1, <2>1 DEF RowsOf
  <2> QED
    BY <1>1, <2>2 DEF RowsOf
<1>3. InOrder(more)
  <2> SUFFICES ASSUME NEW i \in 1 .. n + 1, NEW j \in 1 .. n + 1, i <= j
               PROVE  more[i].t <= more[j].t /\ more[j].t <= evNow
    BY <1>1 DEF InOrder
  <2>1. CASE j \in 1 .. n
    <3>1. i \in 1 .. n
      BY <1>1, <2>1
    <3> QED
      BY <1>1, <2>1, <3>1 DEF InOrder
  <2>2. CASE j = n + 1
    <3>1. CASE i = n + 1
      BY <1>1, <2>2, <3>1
    <3>2. CASE i \in 1 .. n
      <4>1. rows[i].t <= evNow
        BY <1>1, <3>2 DEF InOrder
      <4> QED
        BY <1>1, <2>2, <3>2, <4>1
    <3> QED
      BY <1>1, <3>1, <3>2
  <2> QED
    BY <1>1, <2>1, <2>2
<1>4. Alternate(more)
  <2> SUFFICES ASSUME NEW s \in Subjects, NEW i \in RowsOf(s, more), NEW j \in RowsOf(s, more),
                      i < j, ~ \E k \in RowsOf(s, more) : i < k /\ k < j
               PROVE  more[i].ok # more[j].ok \/ more[j].gap
    BY DEF Alternate
  <2>1. RowsOf(s, rows) \in SUBSET (1 .. n) /\ i \in 1 .. n + 1 /\ j \in 1 .. n + 1
    BY <1>1, <1>2, LastRowFacts DEF RowsOf, n
  <2>2. i \in RowsOf(s, rows) /\ RowsOf(s, rows) \subseteq RowsOf(s, more)
    BY <1>1, <1>2, <2>1
  <2>3. CASE j \in RowsOf(s, rows)
    <3>1. rows[i].ok # rows[j].ok \/ rows[j].gap
      BY <2>2, <2>3 DEF Alternate
    <3> QED
      BY <1>1, <2>1, <2>2, <2>3, <3>1
  <2>4. CASE j \notin RowsOf(s, rows)
    <3>1. j = n + 1 /\ s = row.who
      BY <1>2, <2>4
    <3>2. \A k \in RowsOf(s, rows) : k <= i
      <4> SUFFICES ASSUME NEW k \in RowsOf(s, rows)
                   PROVE  k <= i
        OBVIOUS
      <4>1. k \in 1 .. n /\ ~ (i < k /\ k < j)
        BY <2>1, <2>2
      <4> QED
        BY <1>1, <2>1, <3>1, <4>1
    <3>3. LastRow(s, rows) = i
      BY <2>2, <3>2, LastRowIs
    <3>4. rows[i].ok # row.ok \/ row.gap
      BY <2>2, <3>1, <3>3
    <3> QED
      BY <1>1, <2>1, <2>2, <3>1, <3>4
  <2> QED
    BY <2>3, <2>4
<1>5. ASSUME NEW last \in [Subjects -> States \cup {"none"}], last[row.who] = row.ok
      PROVE  Agrees(last, more, row.who)
  <2>1. n + 1 \in RowsOf(row.who, more)
    BY <1>1, <1>2
  <2>2. \A j \in RowsOf(row.who, more) : j <= n + 1
    BY <1>1 DEF RowsOf
  <2>3. LastRow(row.who, more) = n + 1
    BY <1>1, <2>1, <2>2, LastRowIs
  <2> QED
    BY <1>1, <1>5, <2>1, <2>3 DEF Agrees
<1>6. ASSUME NEW last \in [Subjects -> States \cup {"none"}],
             NEW s \in Subjects \ {row.who}, Agrees(last, rows, s)
      PROVE  Agrees(last, more, s)
  <2>1. RowsOf(s, more) = RowsOf(s, rows)
    BY <1>2
  <2>2. LastRow(s, more) = LastRow(s, rows)
    BY <2>1 DEF LastRow
  <2>3. RowsOf(s, rows) # {} => LastRow(s, rows) \in 1 .. n
    BY LastRowFacts DEF n
  <2> QED
    BY <1>1, <1>6, <2>1, <2>2, <2>3 DEF Agrees
<1> QED
  BY <1>1, <1>3, <1>4, <1>5, <1>6 DEF more

\* Places keep their order among those that are picked.
LEMMA PickedPlaces ==
    ASSUME NEW n \in Nat, NEW places \in SUBSET (1 .. n)
    PROVE  /\ Cardinality(places) \in Nat
           /\ \A k \in 1 .. Cardinality(places) :
                 Nth(places, k) \in places /\ Rank(places, Nth(places, k)) = k
           /\ \A i \in places :
                 Rank(places, i) \in 1 .. Cardinality(places) /\ Nth(places, Rank(places, i)) = i
           /\ \A i, j \in places : i < j <=> Rank(places, i) < Rank(places, j)
<1>1. Cardinality(places) \in Nat
  BY RankFacts
<1>2. \A i \in places : i \in Nat /\ Rank(places, i) \in 0 .. Cardinality(places)
  BY RankFacts
<1>3. ASSUME NEW i \in places, NEW j \in places, i < j
      PROVE  Rank(places, i) < Rank(places, j)
  <2>1. \A x \in places : x \in Nat /\ (x <= i => x <= j)
    BY <1>3
  <2>2. {x \in places : x <= i} \in SUBSET {x \in places : x <= j}
    BY <2>1
  <2>3. IsFiniteSet({x \in places : x <= j})
    BY RankFacts, FS_Subset
  <2>4. Cardinality({x \in places : x <= i}) <= Cardinality({x \in places : x <= j})
    BY <2>2, <2>3, FS_Subset
  <2>5. Rank(places, i) # Rank(places, j)
    <3>1. i # j
      BY <1>2, <1>3
    <3> QED
      BY <3>1, RankInjective
  <2> QED
    BY <1>2, <2>4, <2>5 DEF Rank
<1>4. \A i, j \in places : i < j <=> Rank(places, i) < Rank(places, j)
  <2> SUFFICES ASSUME NEW i \in places, NEW j \in places, ~ (i < j)
               PROVE  ~ (Rank(places, i) < Rank(places, j))
    BY <1>3
  <2>1. i = j \/ j < i
    BY <1>2
  <2> QED
    BY <1>2, <1>3, <2>1
<1>5. \A k \in 1 .. Cardinality(places) :
         Nth(places, k) \in places /\ Rank(places, Nth(places, k)) = k
  BY NthExists
<1>6. ASSUME NEW i \in places
      PROVE  Rank(places, i) \in 1 .. Cardinality(places) /\ Nth(places, Rank(places, i)) = i
  <2>1. i - 1 \in Nat /\ (i - 1) + 1 = i
    OBVIOUS
  <2>2. Rank(places, (i - 1) + 1)
           = IF (i - 1) + 1 \in places THEN Rank(places, i - 1) + 1 ELSE Rank(places, i - 1)
    BY <2>1, RankFacts
  <2>3. Rank(places, i - 1) \in 0 .. Cardinality(places)
    BY <2>1, RankFacts
  <2>4. Rank(places, i) \in 1 .. Cardinality(places)
    BY <1>1, <1>2, <2>1, <2>2, <2>3
  <2>5. /\ Nth(places, Rank(places, i)) \in places
        /\ Rank(places, Nth(places, Rank(places, i))) = Rank(places, i)
    BY <1>5, <2>4
  <2>6. Nth(places, Rank(places, i)) = i
    BY <2>5, RankInjective
  <2> QED
    BY <2>4, <2>6
<1> QED
  BY <1>1, <1>4, <1>5, <1>6

\* Pruning takes the oldest rows of each subject and never its last: what is left tells
\* what it told, and each subject is as it was, since when it was.
LEMMA PrunedFacts ==
    ASSUME NEW rows \in Seq(EventRow), evNow \in Nat, InOrder(rows), Alternate(rows)
    PROVE  /\ Pruned(rows) \in Seq(EventRow)
           /\ InOrder(Pruned(rows)) /\ Alternate(Pruned(rows))
           /\ \A s \in Subjects :
                 /\ RowsOf(s, Pruned(rows)) # {} <=> RowsOf(s, rows) # {}
                 /\ RowsOf(s, rows) # {} =>
                       Pruned(rows)[LastRow(s, Pruned(rows))] = rows[LastRow(s, rows)]
<1> DEFINE keep == {i \in DOMAIN rows : \/ rows[i].t + EvRetain >= evNow
                                        \/ i = LastRow(rows[i].who, rows)}
           left == Pruned(rows)
           n == Cardinality(keep)
           at(k) == Nth(keep, k)
           place(i) == Rank(keep, i)
<1>1. Len(rows) \in Nat /\ keep \in SUBSET DOMAIN rows /\ keep \in SUBSET (1 .. Len(rows))
  OBVIOUS
<1>2. left = Picked(rows, keep)
  BY DEF Pruned
<1>3. /\ n \in Nat
      /\ \A k \in 1 .. n : at(k) \in keep /\ place(at(k)) = k
      /\ \A i \in keep : place(i) \in 1 .. n /\ at(place(i)) = i
      /\ \A i, j \in keep : i < j <=> place(i) < place(j)
  BY <1>1, PickedPlaces
<1>4. left \in Seq(EventRow) /\ Len(left) = n
  BY <1>1, <1>2, PickedType
<1>5. DOMAIN left = 1 .. n /\ \A k \in 1 .. n : left[k] = rows[at(k)]
  BY <1>2, <1>3 DEF Picked
<1>6. \A i \in DOMAIN rows : i \in Nat /\ rows[i].t \in Nat /\ rows[i].who \in Subjects
  <2>1. \A i \in DOMAIN rows : i \in Nat /\ rows[i] \in EventRow
    OBVIOUS
  <2> QED
    BY <2>1, EvDurations DEF EventRow
<1>7. \A i \in DOMAIN rows :
         i \in keep <=> rows[i].t + EvRetain >= evNow \/ i = LastRow(rows[i].who, rows)
  OBVIOUS
<1> HIDE DEF keep, left, at, place, n
<1>8. \A k, l \in 1 .. n : k < l <=> at(k) < at(l)
  BY <1>3
<1>9. InOrder(left)
  <2> SUFFICES ASSUME NEW k \in 1 .. n, NEW l \in 1 .. n, k <= l
               PROVE  left[k].t <= left[l].t /\ left[l].t <= evNow
    BY <1>5 DEF InOrder
  <2>1. k = l \/ k < l
    BY <1>3
  <2>2. at(k) = at(l) \/ at(k) < at(l)
    BY <1>8, <2>1
  <2>3. at(k) \in DOMAIN rows /\ at(l) \in DOMAIN rows
    BY <1>1, <1>3
  <2>4. at(k) <= at(l)
    BY <1>6, <2>2, <2>3
  <2>5. rows[at(k)].t <= rows[at(l)].t /\ rows[at(l)].t <= evNow
    BY <2>3, <2>4 DEF InOrder
  <2> QED
    BY <1>5, <2>5
<1>10. \A s : \A k \in 1 .. n : k \in RowsOf(s, left) <=> at(k) \in RowsOf(s, rows)
  BY <1>1, <1>3, <1>5 DEF RowsOf
<1>11. Alternate(left)
  <2> SUFFICES ASSUME NEW s \in Subjects, NEW k \in RowsOf(s, left), NEW l \in RowsOf(s, left),
                      k < l, ~ \E m \in RowsOf(s, left) : k < m /\ m < l
               PROVE  left[k].ok # left[l].ok \/ left[l].gap
    BY DEF Alternate
  <2> DEFINE i == at(k)
             j == at(l)
  <2>1. k \in 1 .. n /\ l \in 1 .. n
    BY <1>5 DEF RowsOf
  <2>2. /\ i \in keep /\ j \in keep /\ i \in RowsOf(s, rows) /\ j \in RowsOf(s, rows) /\ i < j
        /\ place(i) = k /\ place(j) = l
    BY <1>3, <1>8, <1>10, <2>1
  <2> HIDE DEF i, j
  <2>3. rows[i].t + EvRetain >= evNow
    <3>1. j <= LastRow(s, rows) /\ LastRow(s, rows) \in Nat /\ rows[i].who = s
      BY <2>2, LastRowFacts DEF RowsOf
    <3>2. i # LastRow(s, rows)
      BY <1>1, <1>6, <2>2, <3>1
    <3> QED
      BY <1>1, <1>7, <2>2, <3>1, <3>2
  <2>4. ~ \E m \in RowsOf(s, rows) : i < m /\ m < j
    <3> SUFFICES ASSUME NEW m \in RowsOf(s, rows), i < m, m < j
                 PROVE  FALSE
      OBVIOUS
    <3>1. m \in DOMAIN rows /\ i \in DOMAIN rows
      BY <2>2 DEF RowsOf
    <3>2. rows[i].t <= rows[m].t
      BY <1>6, <3>1 DEF InOrder
    <3>3. m \in keep
      BY <1>6, <1>7, <2>3, <3>1, <3>2, EvDurations
    <3>4. place(m) \in 1 .. n /\ at(place(m)) = m
      BY <1>3, <3>3
    <3>5. place(m) \in RowsOf(s, left) /\ k < place(m) /\ place(m) < l
      BY <1>3, <1>10, <2>2, <3>3, <3>4
    <3> QED
      BY <3>5
  <2>5. rows[i].ok # rows[j].ok \/ rows[j].gap
    BY <2>2, <2>4 DEF Alternate
  <2> QED
    BY <1>5, <2>1, <2>5 DEF i, j
<1>12. ASSUME NEW s \in Subjects, RowsOf(s, left) # {}
       PROVE  RowsOf(s, rows) # {}
  <2>1. PICK k \in RowsOf(s, left) : TRUE
    BY <1>12
  <2>2. k \in 1 .. n
    BY <1>5 DEF RowsOf
  <2> QED
    BY <1>10, <2>1, <2>2
<1>13. ASSUME NEW s \in Subjects, RowsOf(s, rows) # {}
       PROVE  RowsOf(s, left) # {} /\ left[LastRow(s, left)] = rows[LastRow(s, rows)]
  <2> DEFINE last == LastRow(s, rows)
  <2>1. last \in RowsOf(s, rows) /\ \A j \in RowsOf(s, rows) : j <= last
    BY <1>13, LastRowFacts
  <2>2. last \in DOMAIN rows /\ rows[last].who = s
    BY <2>1 DEF RowsOf
  <2>3. last \in keep
    BY <1>7, <2>2
  <2> HIDE DEF last
  <2>4. place(last) \in RowsOf(s, left) /\ at(place(last)) = last /\ place(last) \in 1 .. n
    BY <1>3, <1>10, <2>1, <2>3
  <2>5. ASSUME NEW k \in RowsOf(s, left)
        PROVE  k <= place(last)
    <3>1. k \in 1 .. n
      BY <1>5 DEF RowsOf
    <3>2. at(k) <= last
      BY <1>10, <2>1, <3>1
    <3>3. at(k) \in keep /\ place(at(k)) = k
      BY <1>3, <3>1
    <3>4. ~ (last < at(k))
      BY <1>1, <1>6, <2>2, <3>2, <3>3
    <3>5. ~ (place(last) < k)
      BY <1>3, <2>3, <3>3, <3>4
    <3> QED
      BY <1>3, <2>4, <3>1, <3>5
  <2>6. LastRow(s, left) = place(last)
    BY <1>4, <2>4, <2>5, LastRowIs
  <2> QED
    BY <1>5, <2>4, <2>6 DEF last
<1> QED
  BY <1>4, <1>9, <1>11, <1>12, <1>13 DEF left

\* What a power cut leaves of the rows is as they were.
LEMMA PrefixFacts ==
    ASSUME NEW rows \in Seq(EventRow), InOrder(rows), Alternate(rows), NEW kept \in 0 .. Len(rows)
    PROVE  /\ SubSeq(rows, 1, kept) \in Seq(EventRow)
           /\ InOrder(SubSeq(rows, 1, kept)) /\ Alternate(SubSeq(rows, 1, kept))
<1> DEFINE left == SubSeq(rows, 1, kept)
<1>1. /\ left \in Seq(EventRow) /\ DOMAIN left = 1 .. kept /\ 1 .. kept \subseteq DOMAIN rows
      /\ \A i \in 1 .. kept : left[i] = rows[i]
      /\ kept \in Nat
  OBVIOUS
<1> HIDE DEF left
<1>2. InOrder(left)
  BY <1>1 DEF InOrder
<1>3. \A s : RowsOf(s, left) = {i \in RowsOf(s, rows) : i <= kept}
  <2>1. \A i \in DOMAIN rows : i \in 1 .. kept <=> i <= kept
    BY <1>1
  <2> QED
    BY <1>1, <2>1 DEF RowsOf
<1>4. Alternate(left)
  <2> SUFFICES ASSUME NEW s \in Subjects, NEW i \in RowsOf(s, left), NEW j \in RowsOf(s, left),
                      i < j, ~ \E k \in RowsOf(s, left) : i < k /\ k < j
               PROVE  left[i].ok # left[j].ok \/ left[j].gap
    BY DEF Alternate
  <2>1. \A k \in RowsOf(s, rows) : k \in Nat
    BY DEF RowsOf
  <2>2. ~ \E k \in RowsOf(s, rows) : i < k /\ k < j
    BY <1>1, <1>3, <2>1
  <2>3. rows[i].ok # rows[j].ok \/ rows[j].gap
    BY <1>3, <2>2 DEF Alternate
  <2>4. i \in 1 .. kept /\ j \in 1 .. kept
    BY <1>1 DEF RowsOf
  <2> QED
    BY <1>1, <2>3, <2>4
<1> QED
  BY <1>1, <1>2, <1>4 DEF left

\* While reports are taken one after the other, the rows to be written are such that the
\* table with them would be right, and the memory is that of the table with them.
MarkedRight(acc) ==
    /\ acc.new \in Seq(EventRow)
    /\ acc.last \in [Subjects -> States \cup {"none"}]
    /\ evRows \o acc.new \in Seq(EventRow)
    /\ InOrder(evRows \o acc.new) /\ Alternate(evRows \o acc.new)
    /\ \A s \in Subjects :
          LET told == s \in {acc.new[i].who : i \in DOMAIN acc.new}
          IN  /\ ~ told => acc.last[s] = evLast[s]
              /\ told \/ s \notin evUnsure => Agrees(acc.last, evRows \o acc.new, s)

LEMMA MarkOneFacts ==
    ASSUME EvInv, NEW acc, MarkedRight(acc), NEW r \in Reports(Subjects)
    PROVE  MarkedRight(MarkOne(acc, r))
<1>1. CASE r.who = Nameless \/ acc.last[r.who] = r.ok
  BY <1>1 DEF MarkOne
<1>2. CASE ~ (r.who = Nameless \/ acc.last[r.who] = r.ok)
  <2> DEFINE row == [t |-> evNow, who |-> r.who, ok |-> r.ok, gap |-> r.who \in evUnsure]
             now == MarkOne(acc, r)
             rows == evRows \o acc.new
             told == {acc.new[i].who : i \in DOMAIN acc.new}
  <2>1. r.who \in Subjects /\ r.ok \in States /\ evNow \in 0 .. EvDays /\ evNow \in Nat
    BY <1>2, EvDurations DEF Reports, EvInv, EvTypeOK
  <2>2. row \in EventRow /\ row.t = evNow /\ row.who = r.who /\ row.ok = r.ok
    BY <2>1 DEF EventRow
  <2>3. row.gap <=> r.who \in evUnsure
    OBVIOUS
  <2>4. now.last = [acc.last EXCEPT ![r.who] = r.ok] /\ now.new = Append(acc.new, row)
    BY <1>2 DEF MarkOne
  <2> HIDE DEF row, now
  <2>5. /\ acc.new \in Seq(EventRow) /\ rows \in Seq(EventRow) /\ evRows \in Seq(EventRow)
        /\ acc.last \in [Subjects -> States \cup {"none"}]
        /\ InOrder(rows) /\ Alternate(rows)
        /\ \A s \in Subjects : s \notin told => acc.last[s] = evLast[s]
        /\ \A s \in Subjects : s \in told \/ s \notin evUnsure => Agrees(acc.last, rows, s)
    BY DEF MarkedRight, EvInv, EvTypeOK
  <2>6. evRows \o now.new = Append(rows, row)
    BY <2>2, <2>4, <2>5
  <2>7. {now.new[i].who : i \in DOMAIN now.new} = told \cup {r.who}
    <3>1. /\ Len(acc.new) \in Nat
          /\ DOMAIN now.new = (1 .. Len(acc.new)) \cup {Len(acc.new) + 1}
          /\ \A i \in 1 .. Len(acc.new) : now.new[i] = acc.new[i]
          /\ now.new[Len(acc.new) + 1] = row
      BY <2>2, <2>4, <2>5
    <3> QED
      BY <2>2, <2>5, <3>1
  <2> HIDE DEF rows, told
  <2>8. RowsOf(row.who, rows) = {} \/ rows[LastRow(row.who, rows)].ok # row.ok \/ row.gap
    <3>1. CASE r.who \in evUnsure
      BY <2>3, <3>1
    <3>2. CASE r.who \notin evUnsure
      <4>1. Agrees(acc.last, rows, r.who)
        BY <2>1, <2>5, <3>2
      <4> QED
        BY <1>2, <2>2, <4>1 DEF Agrees
    <3> QED
      BY <3>1, <3>2
  <2>9. /\ Append(rows, row) \in Seq(EventRow)
        /\ InOrder(Append(rows, row)) /\ Alternate(Append(rows, row))
        /\ \A last \in [Subjects -> States \cup {"none"}] :
              /\ last[row.who] = row.ok => Agrees(last, Append(rows, row), row.who)
              /\ \A s \in Subjects \ {row.who} :
                    Agrees(last, rows, s) => Agrees(last, Append(rows, row), s)
    BY <2>1, <2>2, <2>5, <2>8, AppendRow
  <2>10. /\ now.last \in [Subjects -> States \cup {"none"}] /\ now.last[r.who] = r.ok
         /\ \A s \in Subjects \ {r.who} : now.last[s] = acc.last[s]
    BY <2>1, <2>4, <2>5
  <2>11. now.new \in Seq(EventRow)
    BY <2>2, <2>4, <2>5
  <2>12. ASSUME NEW s \in Subjects
         PROVE  /\ s \notin told \cup {r.who} => now.last[s] = evLast[s]
                /\ s \in told \cup {r.who} \/ s \notin evUnsure
                      => Agrees(now.last, Append(rows, row), s)
    <3>1. CASE s = r.who
      BY <2>2, <2>9, <2>10, <3>1
    <3>2. CASE s # r.who
      <4>1. Agrees(acc.last, rows, s) => Agrees(now.last, rows, s)
        BY <2>10, <3>2 DEF Agrees
      <4> QED
        BY <2>2, <2>5, <2>9, <2>10, <3>2, <4>1
    <3> QED
      BY <3>1, <3>2
  <2>13. MarkedRight(now)
    BY <2>6, <2>7, <2>9, <2>10, <2>11, <2>12 DEF MarkedRight
  <2> QED
    BY <2>13 DEF now
<1> QED
  BY <1>1, <1>2

\* Two reports, written or not.
LEMMA MarkKeeps ==
    ASSUME EvInv, NEW r1 \in Reports(Subjects), NEW r2 \in Reports(Subjects), Mark(r1, r2)
    PROVE  EvInv'
<1> DEFINE before == [last |-> evLast, new |-> <<>>]
           m == Marked(r1, r2)
           told == {m.new[i].who : i \in DOMAIN m.new}
<1>0. /\ evDb = "open" /\ evLast \in [Subjects -> States \cup {"none"}]
      /\ evRows \in Seq(EventRow) /\ InOrder(evRows) /\ Alternate(evRows)
      /\ \A s \in Subjects \ evUnsure : Agrees(evLast, evRows, s)
      /\ evNow \in 0 .. EvDays /\ evUnsure \subseteq Subjects
  BY DEF EvInv, EvTypeOK, Mark
<1>1. MarkedRight(before)
  <2>1. evRows \o <<>> = evRows /\ <<>> \in Seq(EventRow)
    BY <1>0
  <2>2. /\ before.last = evLast /\ before.new = <<>>
        /\ {before.new[i].who : i \in DOMAIN before.new} = {}
    OBVIOUS
  <2> QED
    BY <1>0, <2>1, <2>2 DEF MarkedRight
<1>2. MarkedRight(m)
  <2>1. MarkedRight(MarkOne(before, r1))
    BY <1>1, MarkOneFacts
  <2>2. MarkedRight(MarkOne(MarkOne(before, r1), r2))
    BY <2>1, MarkOneFacts
  <2> QED
    BY <2>2 DEF Marked
<1>3. /\ evLast' = m.last /\ evDb' = evDb /\ evNow' = evNow
      /\ \/ evRows' = evRows \o m.new /\ evUnsure' = evUnsure \ told
         \/ evRows' = evRows /\ evUnsure' = evUnsure \cup told
  BY DEF Mark, WriteEvents
<1> HIDE DEF m
<1>4. /\ m.last \in [Subjects -> States \cup {"none"}] /\ told \subseteq Subjects
      /\ evRows \o m.new \in Seq(EventRow)
      /\ InOrder(evRows \o m.new) /\ Alternate(evRows \o m.new)
      /\ \A s \in Subjects : s \notin told => m.last[s] = evLast[s]
      /\ \A s \in Subjects : s \in told \/ s \notin evUnsure => Agrees(m.last, evRows \o m.new, s)
  <2>1. m.new \in Seq(EventRow)
    BY <1>2 DEF MarkedRight
  <2>2. \A i \in DOMAIN m.new : m.new[i].who \in Subjects
    <3>1. \A i \in DOMAIN m.new : m.new[i] \in EventRow
      BY <2>1
    <3> QED
      BY <3>1 DEF EventRow
  <2> QED
    BY <1>2, <2>2 DEF MarkedRight
<1> HIDE DEF told
<1>5. ASSUME evRows' = evRows \o m.new, evUnsure' = evUnsure \ told
      PROVE  EvInv'
  <2>1. EvTypeOK' /\ InOrder(evRows)' /\ Alternate(evRows)'
    BY <1>0, <1>3, <1>4, <1>5 DEF EvTypeOK, InOrder, Alternate
  <2>2. \A s \in Subjects \ evUnsure' : Agrees(evLast, evRows, s)'
    BY <1>3, <1>4, <1>5 DEF Agrees
  <2> QED
    BY <2>1, <2>2 DEF EvInv
<1>6. ASSUME evRows' = evRows, evUnsure' = evUnsure \cup told
      PROVE  EvInv'
  <2>1. EvTypeOK' /\ InOrder(evRows)' /\ Alternate(evRows)'
    BY <1>0, <1>3, <1>4, <1>6 DEF EvTypeOK, InOrder, Alternate
  <2>2. \A s \in Subjects \ evUnsure' : Agrees(evLast, evRows, s)'
    BY <1>0, <1>3, <1>4, <1>6 DEF Agrees
  <2> QED
    BY <2>1, <2>2 DEF EvInv
<1> QED
  BY <1>3, <1>5, <1>6

LEMMA EvStepInv == EvInv /\ [EvNext]_evVars => EvInv' /\ PruningKeepsStates
<1> SUFFICES ASSUME EvInv, [EvNext]_evVars PROVE EvInv' /\ PruningKeepsStates
  OBVIOUS
<1>0. /\ EvTypeOK /\ evRows \in Seq(EventRow) /\ InOrder(evRows) /\ Alternate(evRows)
      /\ evNow \in Nat /\ evNow \in 0 .. EvDays
      /\ evDb = "open" => \A s \in Subjects \ evUnsure : Agrees(evLast, evRows, s)
  BY EvDurations DEF EvInv, EvTypeOK
<1>1. ASSUME EvTick
      PROVE  EvInv'
  <2>1. evNow' = evNow + 1 /\ evNow' \in 0 .. EvDays /\ UNCHANGED <<evDb, evLast, evRows, evUnsure>>
    BY <1>0, <1>1, EvDurations DEF EvTick
  <2>2. InOrder(evRows)'
    <3>1. \A i \in DOMAIN evRows : evRows[i].t \in Nat
      <4>1. \A i \in DOMAIN evRows : evRows[i] \in EventRow
        BY <1>0
      <4> QED
        BY <4>1, EvDurations DEF EventRow
    <3>2. \A i, j \in DOMAIN evRows :
             i <= j => evRows[i].t <= evRows[j].t /\ evRows[j].t <= evNow + 1
      BY <1>0, <3>1 DEF InOrder
    <3> QED
      BY <2>1, <3>2 DEF InOrder
  <2> QED
    BY <1>0, <2>1, <2>2 DEF EvInv, EvTypeOK, Alternate, Agrees
<1>2. ASSUME MarkDevices \/ MarkServices
      PROVE  EvInv'
  <2>1. PICK r1 \in Reports(Subjects), r2 \in Reports(Subjects) : Mark(r1, r2)
    BY <1>2 DEF MarkDevices, MarkServices, Reports, Subjects
  <2> QED
    BY <2>1, MarkKeeps
<1>3. ASSUME CompactEvents
      PROVE  EvInv' /\ StateRows(evRows') = StateRows(evRows)
  <2>1. /\ evRows' = Pruned(evRows) /\ UNCHANGED <<evDb, evLast, evNow, evUnsure>>
    BY <1>3 DEF CompactEvents
  <2>2. /\ evRows' \in Seq(EventRow) /\ InOrder(evRows') /\ Alternate(evRows')
        /\ \A s \in Subjects :
              /\ RowsOf(s, evRows') # {} <=> RowsOf(s, evRows) # {}
              /\ RowsOf(s, evRows) # {} =>
                    evRows'[LastRow(s, evRows')] = evRows[LastRow(s, evRows)]
    BY <1>0, <2>1, PrunedFacts
  <2>3. \A s \in Subjects : Agrees(evLast, evRows, s) => Agrees(evLast, evRows, s)'
    BY <2>1, <2>2 DEF Agrees
  <2>4. InOrder(evRows)' /\ Alternate(evRows)' /\ EvTypeOK'
    BY <1>0, <2>1, <2>2 DEF InOrder, Alternate, EvTypeOK
  <2>5. EvInv'
    BY <1>0, <2>1, <2>3, <2>4 DEF EvInv
  <2>6. StateRows(evRows') = StateRows(evRows)
    <3>1. {x \in Subjects : RowsOf(x, evRows') # {}} = {x \in Subjects : RowsOf(x, evRows) # {}}
      BY <2>2
    <3> QED
      BY <2>2, <3>1 DEF StateRows
  <2> QED
    BY <2>5, <2>6
<1>4. ASSUME ReopenGood
      PROVE  EvInv'
  <2>1. PICK kept \in 0 .. Len(evRows) :
            /\ evRows' = SubSeq(evRows, 1, kept) /\ evDb' = "open" /\ evNow' = evNow
            /\ \/ evLast' = Primed(evRows') /\ evUnsure' = {}
               \/ /\ evLast' = [s \in Subjects |-> "none"]
                  /\ evUnsure' = {s \in Subjects : RowsOf(s, evRows') # {}}
    BY <1>4 DEF ReopenGood
  <2>2. evRows' \in Seq(EventRow) /\ InOrder(evRows') /\ Alternate(evRows')
    BY <1>0, <2>1, PrefixFacts
  <2>3. InOrder(evRows)' /\ Alternate(evRows)'
    BY <2>1, <2>2 DEF InOrder, Alternate
  <2>4. \A s \in Subjects : RowsOf(s, evRows') # {} => evRows'[LastRow(s, evRows')].ok \in States
    <3> SUFFICES ASSUME NEW s \in Subjects, RowsOf(s, evRows') # {}
                 PROVE  evRows'[LastRow(s, evRows')].ok \in States
      OBVIOUS
    <3>1. LastRow(s, evRows') \in 1 .. Len(evRows')
      BY <2>2, LastRowFacts
    <3>2. evRows'[LastRow(s, evRows')] \in EventRow
      BY <2>2, <3>1
    <3> QED
      BY <3>2 DEF EventRow
  <2>5. evLast' \in [Subjects -> States \cup {"none"}] /\ evUnsure' \subseteq Subjects
    BY <2>1, <2>4 DEF Primed
  <2>6. \A s \in Subjects \ evUnsure' : Agrees(evLast, evRows, s)'
    BY <2>1 DEF Primed, Agrees
  <2> QED
    BY <1>0, <2>1, <2>2, <2>3, <2>5, <2>6 DEF EvInv, EvTypeOK
<1>5. ASSUME ReopenQuarantined
      PROVE  EvInv'
  BY <1>0, <1>5 DEF ReopenQuarantined, EvInv, EvTypeOK, InOrder, Alternate, Agrees, RowsOf
<1>6. ASSUME ReopenOff
      PROVE  EvInv'
  BY <1>0, <1>6 DEF ReopenOff, EvInv, EvTypeOK, InOrder, Alternate
<1>7. ASSUME UNCHANGED evVars
      PROVE  EvInv'
  BY <1>0, <1>7 DEF evVars, EvInv, EvTypeOK, InOrder, Alternate, Agrees
<1>8. EvInv'
  BY <1>1, <1>2, <1>3, <1>4, <1>5, <1>6, <1>7 DEF EvNext
<1>9. PruningKeepsStates
  BY <1>3 DEF PruningKeepsStates
<1> QED
  BY <1>8, <1>9

LEMMA EvInitInv == EvInit => EvInv
BY EvDurations DEF EvInit, EvInv, EvTypeOK, InOrder, Alternate, Agrees, RowsOf

\* For any subjects, any window and any number of rows: the rows of one subject alternate
\* and the memory is the last of them, whatever was pruned, lost at a power cut or read
\* back at a start, and pruning changes no answer on the present states (mark_devices,
\* mark_services, _potatura_eventi, _prime_stato, _open).
THEOREM EventsToldRight == EvSpec => EventsTell
<1>1. EvInv /\ [EvNext]_evVars => EvInv' /\ PruningKeepsStates
  BY EvStepInv
<1>2. EvInv => EventsExact
  BY EvInvExact
<1> QED
  BY <1>1, <1>2, EvInitInv, PTL DEF EvSpec, EventsTell

=============================================================================
