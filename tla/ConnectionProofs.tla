--------------------------- MODULE ConnectionProofs ---------------------------
(***************************************************************************)
(* Proofs about the connections that many tasks share: RouterSsh (the one  *)
(* to the router), SshHosts (the configuration of the hosts of SSH, as     *)
(* every use reads it), DockerHosts (the clients of the Docker hosts) and  *)
(* Terminal (the sessions, of which there is a limited number).            *)
(***************************************************************************)
EXTENDS RouterSsh, SshHosts, DockerHosts, Terminal, FiniteSetTheorems, SequenceTheorems,
        WellFoundedInduction, TLAPS

-----------------------------------------------------------------------------
(***************************************************************************)
(* Queues: sequences in which nobody stands twice.                         *)
(***************************************************************************)

Once(q) == \A i, j \in DOMAIN q : q[i] = q[j] => i = j

\* Who joins the end of a queue leaves the first where it is.
LEMMA JoinFacts ==
    ASSUME NEW S, NEW q \in Seq(S), NEW c \in S, c \notin ToSet(q), Once(q)
    PROVE  /\ Append(q, c) \in Seq(S)
           /\ Once(Append(q, c))
           /\ ToSet(Append(q, c)) = ToSet(q) \cup {c}
           /\ q # <<>> => Append(q, c) # <<>> /\ Head(Append(q, c)) = Head(q)
<1> DEFINE a == Append(q, c)
<1>1. /\ a \in Seq(S) /\ Len(a) = Len(q) + 1
      /\ \A i \in 1 .. Len(q) : a[i] = q[i]
      /\ a[Len(q) + 1] = c
  BY AppendProperties
<1>2. /\ Len(q) \in Nat /\ DOMAIN q = 1 .. Len(q)
      /\ DOMAIN a = 1 .. Len(q) + 1
  BY <1>1, LenProperties
<1>3. \A i \in DOMAIN a : i \in DOMAIN q \/ i = Len(q) + 1
  BY <1>2
<1>4. ToSet(a) = ToSet(q) \cup {c}
  BY <1>1, <1>2, <1>3 DEF ToSet
<1>5. Once(a)
  BY <1>1, <1>2, <1>3 DEF ToSet, Once
<1>6. q # <<>> => a # <<>> /\ Head(a) = Head(q)
  BY <1>1, <1>2, HeadTailProperties, EmptySeq
<1> QED
  BY <1>1, <1>4, <1>5, <1>6

\* When the first of a queue goes, everybody else stays.
LEMMA LeaveFacts ==
    ASSUME NEW S, NEW q \in Seq(S), q # <<>>, Once(q)
    PROVE  /\ Head(q) \in S
           /\ Head(q) \in ToSet(q)
           /\ Tail(q) \in Seq(S)
           /\ Once(Tail(q))
           /\ ToSet(Tail(q)) = ToSet(q) \ {Head(q)}
<1> DEFINE t == Tail(q)
<1>1. /\ Head(q) \in S /\ Head(q) = q[1]
      /\ t \in Seq(S) /\ Len(t) = Len(q) - 1
      /\ \A i \in 1 .. Len(t) : t[i] = q[i + 1]
  BY HeadTailProperties
<1>2. /\ Len(q) \in Nat \ {0} /\ DOMAIN q = 1 .. Len(q)
      /\ DOMAIN t = 1 .. Len(q) - 1
  BY <1>1, LenProperties, EmptySeq
<1>3. \A i \in DOMAIN t : i + 1 \in DOMAIN q /\ i + 1 # 1 /\ t[i] = q[i + 1]
  BY <1>1, <1>2
<1>4. \A i \in DOMAIN q : i # 1 => i - 1 \in DOMAIN t /\ t[i - 1] = q[i]
  <2> SUFFICES ASSUME NEW i \in DOMAIN q, i # 1
               PROVE  i - 1 \in DOMAIN t /\ t[i - 1] = q[i]
    OBVIOUS
  <2>1. i - 1 \in DOMAIN t /\ i - 1 + 1 = i
    BY <1>2
  <2> QED
    BY <1>3, <2>1
<1>5. Head(q) \in ToSet(q)
  BY <1>1, <1>2 DEF ToSet
<1>6. Once(t)
  BY <1>2, <1>3 DEF Once
<1>7. ToSet(t) = ToSet(q) \ {Head(q)}
  <2>1. ASSUME NEW x \in ToSet(t) PROVE x \in ToSet(q) /\ x # Head(q)
    BY <1>1, <1>2, <1>3, <2>1 DEF ToSet, Once
  <2>2. ASSUME NEW x \in ToSet(q), x # Head(q) PROVE x \in ToSet(t)
    <3>1. PICK i \in DOMAIN q : q[i] = x
      BY DEF ToSet
    <3>2. i - 1 \in DOMAIN t /\ t[i - 1] = x
      BY <1>1, <1>4, <2>2, <3>1
    <3> QED
      BY <3>2 DEF ToSet
  <2> QED
    BY <2>1, <2>2
<1> QED
  BY <1>1, <1>5, <1>6, <1>7

-----------------------------------------------------------------------------
(***************************************************************************)
(* RouterSsh.  Who connects holds the lock and there is no connection; who *)
(* runs a command holds the channel.                                       *)
(***************************************************************************)

RoTypes ==
    /\ roConn \in RoConns \cup {RoNone}
    /\ roOpen \subseteq RoConns
    /\ roLock \in Seq(RoCallers)
    /\ roSem \in Seq(RoCallers)
    /\ roAt \in [RoCallers -> {"idle", "lock", "connecting", "channel", "running", "pause"}]
    /\ roUse \in [RoCallers -> RoConns \cup {RoNone}]

\* Each caller stands once in the queue of what it awaits, and in no other.
InLine ==
    /\ Once(roLock) /\ Once(roSem)
    /\ \A c \in RoCallers :
        /\ roAt[c] \in {"lock", "connecting"} <=> c \in ToSet(roLock)
        /\ roAt[c] \in {"channel", "running"} <=> c \in ToSet(roSem)

AtWork ==
    \A c \in RoCallers :
        /\ roAt[c] = "connecting" => HoldsLock(c) /\ roConn = RoNone
        /\ roAt[c] = "running" => HoldsChannel(c)

RoInv == RoTypes /\ InLine /\ AtWork /\ OneConnection

\* With no connection there is always a new name for the next.
LEMMA NewConnection ==
    ASSUME RoTypes, roOpen = {}, roConn = RoNone
    PROVE  (CHOOSE k \in Unused : TRUE) \in RoConns
<1> DEFINE held == {roUse[c] : c \in RoCallers}
           F == [c \in RoCallers |-> roUse[c]]
<1>1. F \in Surjection(RoCallers, held)
  BY DEF Surjection
<1>2. IsFiniteSet(held) /\ Cardinality(held) <= Cardinality(RoCallers)
  BY <1>1, FS_Surjection, ConnsEnough
<1>3. /\ Cardinality(RoConns) \in Nat /\ Cardinality(RoCallers) \in Nat
      /\ Cardinality(held) \in Nat
  BY <1>2, FS_CardinalityType, ConnsEnough
<1>4. ~ RoConns \subseteq held
  <2> SUFFICES ASSUME RoConns \subseteq held PROVE FALSE
    OBVIOUS
  <2>1. Cardinality(RoConns) <= Cardinality(held)
    BY <1>2, FS_Subset
  <2> QED
    BY <1>2, <1>3, <2>1, ConnsEnough
<1>5. \E k : k \in Unused
  BY <1>4, ConnsEnough DEF Unused
<1> QED
  BY <1>5 DEF Unused
LEMMA RoInitInv == RoInit => RoInv
<1> SUFFICES ASSUME RoInit PROVE RoInv
  OBVIOUS
<1>1. DOMAIN <<>> = {} /\ \A S : <<>> \in Seq(S)
  OBVIOUS
<1>2. RoTypes
  BY <1>1 DEF RoInit, RoTypes
<1>3. InLine
  BY <1>1 DEF RoInit, InLine, Once, ToSet
<1>4. AtWork /\ OneConnection
  BY DEF RoInit, AtWork, OneConnection
<1> QED
  BY <1>2, <1>3, <1>4 DEF RoInv

\* What each step does to the queues, to who is where and to the connection.
LEMMA RoStepInv == RoInv /\ [RoNext]_roVars => RoInv'
<1> SUFFICES ASSUME RoInv, [RoNext]_roVars PROVE RoInv'
  OBVIOUS
<1> USE DEF RoInv
<1>0. /\ RoNone \notin RoConns
      /\ \A c \in RoCallers : roLock # <<>> /\ Head(roLock) = c => c \in ToSet(roLock)
      /\ \A c \in RoCallers : roSem # <<>> /\ Head(roSem) = c => c \in ToSet(roSem)
  BY ConnsEnough, LeaveFacts DEF RoTypes, InLine
<1>1. CASE RoTick \/ UNCHANGED roVars
  BY <1>1 DEF RoTick, roVars, roLink, roQueues, roDelay, RoTypes, InLine, AtWork,
              OneConnection, HoldsLock, HoldsChannel
<1>2. CASE ConnDrops
  BY <1>2, <1>0 DEF ConnDrops, roQueues, roDelay, RoTypes, InLine, AtWork, OneConnection,
                    HoldsLock, HoldsChannel
<1>3. ASSUME NEW c \in RoCallers, CallConnected(c) PROVE RoInv'
  <2>1. c \notin ToSet(roSem) /\ c \notin ToSet(roLock)
    BY <1>3 DEF CallConnected, Goes, InLine
  <2>2. /\ roSem' \in Seq(RoCallers) /\ Once(roSem')
        /\ ToSet(roSem') = ToSet(roSem) \cup {c}
        /\ roSem # <<>> => roSem' # <<>> /\ Head(roSem') = Head(roSem)
    BY <1>3, <2>1, JoinFacts DEF CallConnected, Queue, RoTypes, InLine
  <2> QED
    BY <1>3, <2>1, <2>2
       DEF CallConnected, Goes, Queue, roLink, roDelay, RoTypes, InLine, AtWork, OneConnection,
           HoldsLock, HoldsChannel
<1>4. ASSUME NEW c \in RoCallers, CallUnconnected(c) PROVE RoInv'
  <2>1. c \notin ToSet(roSem) /\ c \notin ToSet(roLock)
    BY <1>4 DEF CallUnconnected, Goes, InLine
  <2>2. /\ roLock' \in Seq(RoCallers) /\ Once(roLock')
        /\ ToSet(roLock') = ToSet(roLock) \cup {c}
        /\ roLock # <<>> => roLock' # <<>> /\ Head(roLock') = Head(roLock)
    BY <1>4, <2>1, JoinFacts DEF CallUnconnected, RoTypes, InLine
  <2> QED
    BY <1>4, <2>1, <2>2
       DEF CallUnconnected, Goes, roLink, roDelay, RoTypes, InLine, AtWork, OneConnection,
           HoldsLock, HoldsChannel
<1>5. ASSUME NEW c \in RoCallers, GotLock(c), roConn = RoNone PROVE RoInv'
  BY <1>5 DEF GotLock, Goes, roLink, roQueues, roDelay, RoTypes, InLine, AtWork,
              OneConnection, HoldsLock, HoldsChannel
<1>6. ASSUME NEW c \in RoCallers, GotLock(c), roConn # RoNone PROVE RoInv'
  <2>0. /\ roAt[c] = "lock" /\ roAt' = [roAt EXCEPT ![c] = "channel"]
        /\ c = Head(roLock) /\ roLock # <<>> /\ roLock' = Tail(roLock)
        /\ roSem' = Append(roSem, c)
        /\ roUse' = [roUse EXCEPT ![c] = roConn]
        /\ UNCHANGED <<roConn, roOpen>>
    BY <1>6 DEF GotLock, Goes, Queue, HoldsLock, roLink
  <2>1. c \notin ToSet(roSem) /\ roSem \in Seq(RoCallers) /\ Once(roSem)
    BY <2>0 DEF RoTypes, InLine
  <2>2. /\ roSem' \in Seq(RoCallers) /\ Once(roSem')
        /\ ToSet(roSem') = ToSet(roSem) \cup {c}
        /\ roSem # <<>> => roSem' # <<>> /\ Head(roSem') = Head(roSem)
    BY <2>0, <2>1, JoinFacts
  <2>3. /\ roLock' \in Seq(RoCallers) /\ Once(roLock')
        /\ ToSet(roLock') = ToSet(roLock) \ {c}
    BY <2>0, LeaveFacts DEF RoTypes, InLine
  <2>4. \A d \in RoCallers : roAt[d] # "connecting"
    BY <1>6 DEF AtWork
  <2> QED
    BY <1>6, <2>0, <2>2, <2>3, <2>4
       DEF RoTypes, InLine, AtWork, OneConnection, HoldsLock, HoldsChannel
<1>7. ASSUME NEW c \in RoCallers, ConnectSucceeds(c) PROVE RoInv'
  <2>1. /\ c \notin ToSet(roSem) /\ c = Head(roLock) /\ roLock # <<>>
        /\ roConn = RoNone /\ roOpen = {}
    BY <1>7, <1>0 DEF ConnectSucceeds, Goes, InLine, AtWork, HoldsLock, OneConnection, RoTypes
  <2>2. /\ roSem' \in Seq(RoCallers) /\ Once(roSem')
        /\ ToSet(roSem') = ToSet(roSem) \cup {c}
        /\ roSem # <<>> => roSem' # <<>> /\ Head(roSem') = Head(roSem)
    BY <1>7, <2>1, JoinFacts DEF ConnectSucceeds, Queue, RoTypes, InLine
  <2>3. /\ roLock' \in Seq(RoCallers) /\ Once(roLock')
        /\ ToSet(roLock') = ToSet(roLock) \ {c}
    BY <1>7, <2>1, LeaveFacts DEF ConnectSucceeds, RoTypes, InLine
  <2>4. \A d \in RoCallers : roAt[d] = "connecting" => d = c
    BY <2>1 DEF AtWork, HoldsLock
  <2>5. /\ roConn' \in RoConns /\ roOpen' = {roConn'}
        /\ roUse' = [roUse EXCEPT ![c] = roConn']
    BY <1>7, <2>1, NewConnection DEF ConnectSucceeds, Queue
  <2> QED
    BY <1>7, <2>1, <2>2, <2>3, <2>4, <2>5
       DEF ConnectSucceeds, Goes, RoTypes, InLine, AtWork, OneConnection, HoldsLock,
           HoldsChannel
<1>8. ASSUME NEW c \in RoCallers, ConnectFails(c) PROVE RoInv'
  <2>1. c = Head(roLock) /\ roLock # <<>>
    BY <1>8 DEF ConnectFails, Goes, AtWork, HoldsLock
  <2>2. /\ roLock' \in Seq(RoCallers) /\ Once(roLock')
        /\ ToSet(roLock') = ToSet(roLock) \ {c}
    BY <1>8, <2>1, LeaveFacts DEF ConnectFails, RoTypes, InLine
  <2>3. \A d \in RoCallers : roAt[d] = "connecting" => d = c
    BY <2>1 DEF AtWork, HoldsLock
  <2> QED
    BY <1>8, <2>1, <2>2, <2>3
       DEF ConnectFails, Goes, roLink, RoTypes, InLine, AtWork, OneConnection, HoldsLock,
           HoldsChannel
<1>9. ASSUME NEW c \in RoCallers, StartCommand(c) PROVE RoInv'
  BY <1>9 DEF StartCommand, Goes, roLink, roQueues, roDelay, RoTypes, InLine, AtWork,
              OneConnection, HoldsLock, HoldsChannel
<1>10. ASSUME NEW c \in RoCallers, CommandDone(c) \/ CommandGivenUp(c) \/ CommandFailsOnce(c)
       PROVE  RoInv'
  <2>1. /\ c = Head(roSem) /\ roSem # <<>> /\ roAt[c] = "running"
        /\ roSem' = Tail(roSem) /\ roLock' = roLock
    BY <1>10 DEF CommandDone, CommandGivenUp, CommandFailsOnce, Goes, AtWork, HoldsChannel
  <2>2. /\ roSem' \in Seq(RoCallers) /\ Once(roSem')
        /\ ToSet(roSem') = ToSet(roSem) \ {c}
    BY <2>1, LeaveFacts DEF RoTypes, InLine
  <2>3. \A d \in RoCallers : roAt[d] = "running" => d = c
    BY <2>1 DEF AtWork, HoldsChannel
  <2>4. \E to \in {"idle", "pause"} : roAt' = [roAt EXCEPT ![c] = to]
    BY <1>10 DEF CommandDone, CommandGivenUp, CommandFailsOnce, Goes
  <2>5. \/ roConn' = roConn /\ roOpen' = roOpen
        \/ roConn' = RoNone /\ roOpen' = roOpen \ {roConn}
    BY <1>10 DEF CommandDone, CommandGivenUp, CommandFailsOnce, ResetConn, roLink
  <2>6. roUse' \in [RoCallers -> RoConns \cup {RoNone}]
    BY <1>10 DEF CommandDone, CommandGivenUp, CommandFailsOnce, Forget, RoTypes
  <2> QED
    BY <2>1, <2>2, <2>3, <2>4, <2>5, <2>6
       DEF RoTypes, InLine, AtWork, OneConnection, HoldsLock, HoldsChannel
<1>11. ASSUME NEW c \in RoCallers, TryAgain(c) PROVE RoInv'
  <2>1. c \notin ToSet(roSem) /\ c \notin ToSet(roLock)
    BY <1>11 DEF TryAgain, Goes, InLine
  <2>2. /\ roSem' \in Seq(RoCallers) /\ Once(roSem')
        /\ ToSet(roSem') = ToSet(roSem) \cup {c}
        /\ roSem # <<>> => roSem' # <<>> /\ Head(roSem') = Head(roSem)
    BY <1>11, <2>1, JoinFacts DEF TryAgain, RoTypes, InLine
  <2> QED
    BY <1>11, <2>1, <2>2
       DEF TryAgain, Goes, roLink, roDelay, RoTypes, InLine, AtWork, OneConnection, HoldsLock,
           HoldsChannel
<1> QED
  BY <1>1, <1>2, <1>3, <1>4, <1>5, <1>6, <1>7, <1>8, <1>9, <1>10, <1>11
     DEF RoNext, CallerStep

LEMMA RoInvariant == RoSpec => []RoInv
BY RoInitInv, RoStepInv, PTL DEF RoSpec

\* However many tasks find the connection missing, fail and drop it in whatever order, the
\* router has one connection of ours at most and it is the one the next caller will use
\* (_get_conn asks again under the lock; _reset_conn closes what it forgets).
THEOREM ConnectionStaysOne == RoSpec => []OneConnection
BY RoInvariant, PTL DEF RoInv

\* One connection attempt and one command at a time: the lock and the semaphore let the
\* tasks through one by one on every path, whatever fails.
OneAtATime ==
    \A c, d \in RoCallers :
        roAt[c] = roAt[d] /\ roAt[c] \in {"connecting", "running"} => c = d

THEOREM RouterTakesTurns == RoSpec => []OneAtATime
<1>1. RoInv => OneAtATime
  BY DEF RoInv, AtWork, HoldsLock, HoldsChannel, OneAtATime
<1> QED
  BY <1>1, RoInvariant, PTL

\* Nobody is left behind: whoever waits for the lock or the channel is in its queue, once,
\* and whoever has gone on is in none.
THEOREM RouterQueuesExact == RoSpec => []InLine
BY RoInvariant, PTL DEF RoInv

-----------------------------------------------------------------------------
(***************************************************************************)
(* SshHosts.  The times of the versions never decrease, and the memory of  *)
(* the last reading carries a time no later than that of its version: a    *)
(* file with the time remembered is of the same tick.                      *)
(***************************************************************************)

Steps == {"idle", "read", "given", "probe", "told"}

SystemAnswers == ShSystems \cup {"auto", "unknown", "none"}

Timings == {"timely", "late"}

Calls == [step : Steps, mtime : Nat, began : Nat, got : Nat, os : SystemAnswers, timing : Timings]

ShTypes ==
    /\ shFile \in Seq([version : ShVersions, mtime : Nat])
    /\ shFile # <<>>
    /\ shTicks \in Nat
    /\ shCache \in [mtime : Nat, cfg : 0 .. Newest]
    /\ shOs \in SystemAnswers
    /\ shProbed \in [version : Nat, timing : Timings]
    /\ shCall \in [ShCallers -> Calls]

TimesRise ==
    \A n, m \in 1 .. Newest :
        n <= m => shFile[n].mtime <= shFile[m].mtime /\ shFile[m].mtime <= shTicks

CacheOlder == shCache.cfg # 0 => shCache.mtime <= shFile[shCache.cfg].mtime

\* What each use knows: the time it goes on to read with is that of a version it has seen;
\* the configuration it is given is not older than the one it began with; the host it asks
\* is that of the last reading or a later one, or the reading is marked.
CallKnows(call) ==
    /\ call.got <= Newest /\ call.began <= Newest
    /\ call.step = "read" => call.began # 0 /\ call.mtime <= shFile[Newest].mtime
    /\ call.step = "given" =>
          /\ call.got # 0 /\ call.began # 0
          /\ call.got >= call.began \/ SameTick(call.got, call.began)
    /\ call.step = "probe" =>
          /\ call.began # 0
          /\ call.began >= shCache.cfg \/ call.timing = "late"

SystemOfNow == shOs # "none" => shProbed.version >= shCache.cfg \/ shProbed.timing = "late"

ShInv ==
    /\ ShTypes /\ TimesRise /\ CacheOlder /\ SystemOfNow
    /\ \A c \in ShCallers : CallKnows(shCall[c])

LEMMA ShInitInv == ShInit => ShInv
<1> SUFFICES ASSUME ShInit PROVE ShInv
  OBVIOUS
<1>1. PICK v \in ShVersions : shFile = <<[version |-> v, mtime |-> 0]>>
  BY DEF ShInit
<1>2. /\ shFile \in Seq([version : ShVersions, mtime : Nat])
      /\ Newest = 1 /\ shFile[1].mtime = 0 /\ shFile # <<>>
  BY <1>1 DEF Newest
<1>3. ShTypes
  BY <1>2 DEF ShInit, ShTypes, Calls, Steps, Timings, SystemAnswers, NoCall, NoProbe
<1>4. TimesRise /\ CacheOlder /\ SystemOfNow
  BY <1>2 DEF ShInit, TimesRise, CacheOlder, SystemOfNow
<1>5. \A c \in ShCallers : CallKnows(shCall[c])
  BY <1>2 DEF ShInit, CallKnows, NoCall
<1> QED
  BY <1>3, <1>4, <1>5 DEF ShInv

\* The file in force, and what a save leaves of the versions before it.
LEMMA FileFacts ==
    ASSUME ShTypes
    PROVE  /\ Newest \in Nat \ {0}
           /\ \A n \in 1 .. Newest :
                shFile[n] \in [version : ShVersions, mtime : Nat]
BY LenProperties, EmptySeq, ElementOfSeq DEF ShTypes, Newest

LEMMA SaveKeepsInv ==
    ASSUME ShInv, NEW v \in ShVersions, SaveFile(v)
    PROVE  ShInv'
<1> USE DEF ShInv
<1> DEFINE new == [version |-> v, mtime |-> shTicks]
<1>1. Newest \in Nat \ {0}
  BY FileFacts
<1>2. new \in [version : ShVersions, mtime : Nat]
  BY DEF ShTypes
<1>3. /\ shFile' \in Seq([version : ShVersions, mtime : Nat])
      /\ Len(shFile') = Newest + 1
      /\ \A n \in 1 .. Newest : shFile'[n] = shFile[n]
      /\ shFile'[Newest + 1] = new
  BY <1>2, AppendProperties DEF SaveFile, ShTypes, Newest
<1>4. shFile' # <<>> /\ Newest' = Newest + 1
  BY <1>1, <1>3, EmptySeq DEF Newest
<1>5. UNCHANGED <<shTicks, shCache, shOs, shCall, shProbed>>
  BY DEF SaveFile
<1>6. ShTypes'
  BY <1>1, <1>3, <1>4, <1>5 DEF ShTypes
<1>7. \A n \in 1 .. Newest : shFile[n].mtime \in Nat /\ shFile[n].mtime <= shTicks
  BY FileFacts DEF TimesRise
<1>8. TimesRise'
  <2> SUFFICES ASSUME NEW n \in 1 .. Newest + 1, NEW m \in 1 .. Newest + 1, n <= m
               PROVE  /\ shFile'[n].mtime <= shFile'[m].mtime
                      /\ shFile'[m].mtime <= shTicks
    BY <1>4, <1>5 DEF TimesRise
  <2>1. CASE m \in 1 .. Newest
    BY <1>1, <1>3, <2>1 DEF TimesRise
  <2>2. CASE m = Newest + 1
    <3>1. shFile'[m].mtime = shTicks /\ shTicks \in Nat
      BY <1>3, <2>2 DEF ShTypes
    <3>2. CASE n \in 1 .. Newest
      BY <1>3, <1>7, <3>1, <3>2
    <3>3. CASE n = m
      BY <3>1, <3>3
    <3> QED
      BY <1>1, <2>2, <3>2, <3>3
  <2> QED
    BY <1>1, <2>1, <2>2
<1>9. CacheOlder' /\ SystemOfNow'
  BY <1>1, <1>3, <1>5 DEF CacheOlder, SystemOfNow, ShTypes
<1>10. \A c \in ShCallers : CallKnows(shCall[c])'
  <2> SUFFICES ASSUME NEW c \in ShCallers PROVE CallKnows(shCall[c])'
    OBVIOUS
  <2> DEFINE call == shCall[c]
  <2>1. /\ call \in Calls /\ CallKnows(call) /\ shCache.cfg \in Nat
        /\ call.got \in Nat /\ call.began \in Nat /\ call.mtime \in Nat
    BY <1>1 DEF ShTypes, Calls
  <2>2. shFile'[Newest'].mtime = shTicks /\ shFile[Newest].mtime <= shTicks
    BY <1>1, <1>3, <1>4, <1>7
  <2>3. call.got <= Newest' /\ call.began <= Newest'
    BY <1>1, <1>4, <2>1 DEF CallKnows
  <2>4. call.step = "read" => call.began # 0 /\ call.mtime <= shFile'[Newest'].mtime
    BY <1>1, <1>7, <2>1, <2>2 DEF CallKnows, ShTypes
  <2>5. ASSUME call.step = "given"
        PROVE  call.got >= call.began \/ SameTick(call.got, call.began)'
    <3>1. call.got \in 1 .. Newest /\ call.began \in 1 .. Newest
      BY <1>1, <2>1, <2>5 DEF CallKnows
    <3>2. shFile'[call.got] = shFile[call.got] /\ shFile'[call.began] = shFile[call.began]
      BY <1>3, <3>1
    <3>3. call' = call
      BY <1>5
    <3> QED
      BY <2>1, <2>5, <3>2, <3>3 DEF CallKnows, SameTick
  <2> QED
    BY <1>5, <2>1, <2>3, <2>4, <2>5 DEF CallKnows
<1> QED
  BY <1>6, <1>8, <1>9, <1>10

\* A step of one use that leaves the file and its memory alone: it is enough to look at
\* what the use knows then.
LEMMA CallMoves ==
    ASSUME ShInv, NEW c \in ShCallers, NEW call \in Calls, CallKnows(call),
           shCall' = [shCall EXCEPT ![c] = call], UNCHANGED <<shFile, shTicks, shCache>>,
           shOs' \in SystemAnswers, shProbed' \in [version : Nat, timing : Timings], SystemOfNow'
    PROVE  ShInv'
BY DEF ShInv, ShTypes, TimesRise, CacheOlder, CallKnows, SameTick, Newest

LEMMA ShStepInv == ShInv /\ [ShNext]_shVars => ShInv'
<1> SUFFICES ASSUME ShInv, [ShNext]_shVars PROVE ShInv'
  OBVIOUS
<1> USE DEF ShInv
<1>0. /\ Newest \in Nat \ {0}
      /\ \A n \in 1 .. Newest : shFile[n].mtime \in Nat /\ shFile[n].mtime <= shTicks
      /\ \A n \in 1 .. Newest : shFile[n].mtime <= shFile[Newest].mtime
      /\ shCall \in [ShCallers -> Calls]
      /\ \A c \in ShCallers : shCall[c] \in Calls /\ CallKnows(shCall[c])
      /\ shCache.cfg \in 0 .. Newest /\ shCache.mtime \in Nat
  BY FileFacts DEF TimesRise, ShTypes
<1>10. ASSUME UNCHANGED <<shCache, shOs, shProbed>>
       PROVE  /\ shOs' \in SystemAnswers /\ shProbed' \in [version : Nat, timing : Timings]
              /\ SystemOfNow'
  BY <1>10 DEF ShTypes, SystemOfNow
<1>1. CASE UNCHANGED shVars
  BY <1>1 DEF shVars, ShTypes, TimesRise, CacheOlder, SystemOfNow, CallKnows, SameTick, Newest
<1>2. CASE ShTick
  BY <1>0, <1>2 DEF ShTick, ShTypes, TimesRise, CacheOlder, SystemOfNow, CallKnows, SameTick, Newest
<1>3. ASSUME NEW v \in ShVersions, SaveFile(v) PROVE ShInv'
  BY <1>3, SaveKeepsInv
<1>4. ASSUME NEW c \in ShCallers, StatFile(c) PROVE ShInv'
  <2> DEFINE mtime == shFile[Newest].mtime
             given == [NoCall EXCEPT !.step = "given", !.began = Newest, !.got = shCache.cfg]
             read == [NoCall EXCEPT !.step = "read", !.began = Newest, !.mtime = mtime]
  <2>1. /\ shCall' = [shCall EXCEPT ![c] = IF shCache.cfg # 0 /\ mtime = shCache.mtime
                                           THEN given ELSE read]
        /\ UNCHANGED <<shFile, shTicks, shCache, shOs, shProbed>>
    BY <1>4 DEF StatFile
  <2>2. mtime \in Nat /\ Newest \in Nat /\ Newest # 0 /\ shCache.cfg \in Nat /\ shCache.cfg <= Newest
    BY <1>0
  <2>3. NoCall \in Calls /\ NoCall.got = 0
    BY DEF NoCall, Calls, Steps, Timings, SystemAnswers
  <2>4. /\ read \in Calls /\ read.step = "read" /\ read.began = Newest /\ read.mtime = mtime
        /\ read.got = 0
    BY <2>2, <2>3 DEF Calls, Steps
  <2>5. /\ given \in Calls /\ given.step = "given" /\ given.began = Newest
        /\ given.got = shCache.cfg
    BY <2>2, <2>3 DEF Calls, Steps
  <2> HIDE DEF given, read
  <2>6. read \in Calls /\ CallKnows(read)
    BY <2>2, <2>4 DEF CallKnows
  <2>7. ASSUME shCache.cfg # 0, mtime = shCache.mtime PROVE CallKnows(given)
    <3>1. shFile[shCache.cfg].mtime = mtime
      BY <1>0, <2>7 DEF CacheOlder
    <3> QED
      BY <2>2, <2>5, <2>7, <3>1 DEF CallKnows, SameTick
  <2> QED
    BY <1>10, <2>1, <2>6, <2>4, <2>5, <2>7, CallMoves
<1>5. ASSUME NEW c \in ShCallers, ReadFile(c) PROVE ShInv'
  <2>1. /\ shCache' = [mtime |-> shCall[c].mtime, cfg |-> Newest]
        /\ shOs' = "none" /\ shProbed' = NoProbe
        /\ UNCHANGED <<shFile, shTicks>>
        /\ shCall[c] \in Calls /\ shCall[c].mtime <= shFile[Newest].mtime
    BY <1>5 DEF ReadFile, ShTypes, CallKnows
  <2>2. ASSUME NEW d \in ShCallers
        PROVE  shCall'[d] \in Calls /\ CallKnows(shCall[d])'
    <3>1. CASE d = c
      <4>1. shCall'[d] = [shCall[c] EXCEPT !.step = "given", !.got = Newest]
        BY <1>5, <3>1 DEF ReadFile
      <4>2. shCall[c].began <= Newest /\ shCall[c].step = "read" /\ shCall[c].began # 0
        BY <1>0, <1>5 DEF ReadFile, CallKnows
      <4>3. /\ shCall'[d] \in Calls /\ shCall'[d].step = "given" /\ shCall'[d].got = Newest
            /\ shCall'[d].began = shCall[c].began
        BY <1>0, <2>1, <4>1 DEF Calls, Steps
      <4>4. Newest' = Newest /\ shCall'[d].began \in Nat
        BY <1>0, <2>1, <4>3 DEF Newest, Calls
      <4> QED
        BY <1>0, <4>2, <4>3, <4>4 DEF CallKnows
    <3>2. CASE d # c
      <4>1. shCall'[d] = IF shCall[d].step = "probe" THEN [shCall[d] EXCEPT !.timing = "late"]
                         ELSE shCall[d]
        BY <1>5, <3>2 DEF ReadFile
      <4>2. /\ shCall[d] \in Calls /\ shCall'[d] \in Calls
            /\ shCall[d].step = "probe" => shCall'[d].timing = "late"
        BY <4>1 DEF ShTypes, Calls, Timings
      <4> QED
        BY <1>0, <2>1, <4>1, <4>2 DEF Calls, CallKnows, Newest, SameTick
    <3> QED
      BY <3>1, <3>2
  <2>3. shCall' \in [ShCallers -> Calls]
    <3>1. DOMAIN shCall' = ShCallers /\ shCall' = [d \in ShCallers |-> shCall'[d]]
      BY <1>5 DEF ReadFile
    <3> QED
      BY <2>2, <3>1
  <2>4. ShTypes' /\ SystemOfNow'
    BY <1>0, <2>1, <2>3 DEF NoProbe, Timings, SystemAnswers, Calls, ShTypes, SystemOfNow, Newest
  <2>5. TimesRise' /\ CacheOlder'
    BY <1>0, <2>1 DEF TimesRise, CacheOlder, Newest
  <2> QED
    BY <2>2, <2>4, <2>5
<1>6. ASSUME NEW c \in ShCallers, ReadFileFails(c) PROVE ShInv'
  <2> DEFINE call == [shCall[c] EXCEPT !.step = "given", !.began = 1, !.got = 1]
  <2>1. /\ shCall' = [shCall EXCEPT ![c] = call]
        /\ UNCHANGED <<shFile, shTicks, shCache, shOs, shProbed>>
    BY <1>0, <1>6 DEF ReadFileFails, Calls
  <2>2. call \in Calls /\ call.step = "given" /\ call.began = 1 /\ call.got = 1
    BY <1>0 DEF Calls, Steps
  <2>3. CallKnows(call)
    BY <1>0, <2>2 DEF CallKnows, SameTick
  <2> HIDE DEF call
  <2> QED
    BY <1>10, <2>1, <2>2, <2>3, CallMoves
<1>7. ASSUME NEW c \in ShCallers, RisolviOs(c) PROVE ShInv'
  <2> DEFINE declared == Version(shCall[c].got).os
             known == IF declared # "auto" THEN declared ELSE shOs
             told == [shCall[c] EXCEPT !.step = "told", !.os = known]
             probe == [shCall[c] EXCEPT !.step = "probe", !.began = Newest]
  <2>1. /\ shCall' = [shCall EXCEPT ![c] = IF known # "none" THEN told ELSE probe]
        /\ UNCHANGED <<shFile, shTicks, shCache, shOs, shProbed>>
    BY <1>7 DEF RisolviOs
  <2>2. shCall[c].got \in 1 .. Newest
    BY <1>0, <1>7 DEF RisolviOs, CallKnows, Calls
  <2>3. declared \in SystemAnswers
    BY <1>0, <2>2, FileFacts, VersionsSay DEF Version, SystemAnswers
  <2>4. known \in SystemAnswers
    BY <2>3 DEF ShTypes
  <2>5. told \in Calls /\ CallKnows(told)
    BY <1>0, <2>4 DEF Calls, Steps, CallKnows
  <2>6. probe \in Calls /\ CallKnows(probe)
    <3>1. /\ probe \in Calls /\ probe.step = "probe" /\ probe.began = Newest
          /\ probe.got = shCall[c].got
      BY <1>0 DEF Calls, Steps
    <3> QED
      BY <1>0, <2>2, <3>1 DEF CallKnows
  <2> HIDE DEF known, told, probe
  <2> QED
    BY <1>10, <2>1, <2>5, <2>6, CallMoves
<1>8. ASSUME NEW c \in ShCallers, SondaOs(c) PROVE ShInv'
  <2>1. PICK n \in shCall[c].began .. Newest :
          LET found == Version(n).machine IN
          /\ shCall' = [shCall EXCEPT ![c].step = "told", ![c].os = found]
          /\ IF found \in ShSystems
             THEN shOs' = found /\ shProbed' = [version |-> n, timing |-> shCall[c].timing]
             ELSE UNCHANGED <<shOs, shProbed>>
    BY <1>8 DEF SondaOs
  <2>2. /\ shCall[c] \in Calls /\ shCall[c].step = "probe" /\ CallKnows(shCall[c])
        /\ n \in 1 .. Newest /\ n >= shCall[c].began
        /\ UNCHANGED <<shFile, shTicks, shCache>>
    BY <1>0, <1>8 DEF SondaOs, Calls, CallKnows
  <2> DEFINE found == Version(n).machine
             call == [shCall[c] EXCEPT !.step = "told", !.os = found]
  <2>3. found \in SystemAnswers
    BY <1>0, <2>2, FileFacts, VersionsSay DEF SystemAnswers, Version
  <2>4. call \in Calls /\ CallKnows(call)
    BY <2>2, <2>3 DEF Calls, Steps, CallKnows
  <2>5. shCall' = [shCall EXCEPT ![c] = call]
    BY <1>0, <2>1, <2>2 DEF Calls
  <2>6. /\ shOs' \in SystemAnswers /\ shProbed' \in [version : Nat, timing : Timings]
        /\ SystemOfNow'
    BY <1>0, <2>1, <2>2, <2>3 DEF ShTypes, SystemAnswers, SystemOfNow, Calls, CallKnows
  <2> HIDE DEF call
  <2> QED
    BY <2>2, <2>4, <2>5, <2>6, CallMoves
<1>9. ASSUME NEW c \in ShCallers, CallEnds(c) PROVE ShInv'
  <2>1. /\ shCall' = [shCall EXCEPT ![c] = NoCall]
        /\ UNCHANGED <<shFile, shTicks, shCache, shOs, shProbed>>
    BY <1>9 DEF CallEnds
  <2>2. NoCall \in Calls /\ CallKnows(NoCall)
    BY <1>0 DEF NoCall, Calls, Steps, Timings, SystemAnswers, CallKnows
  <2> QED
    BY <1>10, <2>1, <2>2, CallMoves
<1> QED
  BY <1>1, <1>2, <1>3, <1>4, <1>5, <1>6, <1>7, <1>8, <1>9 DEF ShNext

\* A use of the hosts of SSH has a configuration as new as the file was when it began, but
\* for the saves of one tick; and the system remembered of a host is that of a machine
\* that had the address since the last reading, but for a host being asked meanwhile
\* (live_ssh_config takes the time of the file before it reads it, _os_cache goes with it).
THEOREM HostsStayCurrent == ShSpec => []HostsCurrent
<1>1. ShInv => HostsCurrent
  BY DEF ShInv, CallKnows, SystemOfNow, HostsCurrent
<1> QED
  BY <1>1, ShInitInv, ShStepInv, PTL DEF ShSpec

-----------------------------------------------------------------------------
(***************************************************************************)
(* DockerHosts.  What each collection has of each client agrees with what  *)
(* the client knows of its host: a client not reached for its list and in  *)
(* reach has answered since, one that has been asked knows something, and  *)
(* has listed everything or neither of the two is said of it.              *)
(***************************************************************************)

Listed == UNION {Containers(k) : k \in Clients}

Jobs == [step : {"idle", "lists", "networks"},
         of : [Clients -> {"list", "stats", "ask", "done"}], got : [Clients -> SUBSET Listed],
         failed : SUBSET Clients, refused : SUBSET Clients, later : SUBSET Clients]

DkTypes ==
    /\ dkConfig \in DkConfigs
    /\ dkClient \in [Clients -> [error : BOOLEAN, ok : BOOLEAN]]
    /\ dkJob \in [DkCollections -> Jobs]

JobHonest(job) ==
    \A k \in Clients :
        /\ k \in job.failed /\ ~dkClient[k].error => k \in job.later
        /\ job.step = "networks" \/ (job.step = "lists" /\ job.of[k] # "list")
            => /\ dkClient[k].error \/ dkClient[k].ok
               /\ k \in job.failed \/ k \in job.refused \/ job.got[k] = Containers(k)

DkInv == DkTypes /\ DockerHonest /\ \A c \in DkCollections : JobHonest(dkJob[c])

\* The numbers of the clients are naturals, in the order of the configuration.
LEMMA ClientNumbers ==
    ASSUME dkConfig \in DkConfigs
    PROVE  Clients \subseteq Nat
<1>1. /\ dkConfig.hosts \in Seq([at : DOMAIN DkMachine, tcp : BOOLEAN])
      /\ dkConfig.ssh \in Seq([at : DOMAIN DkMachine, os : {"auto", "linux", "windows"}])
  BY ConfigsListed
<1>2. Len(dkConfig.hosts) \in Nat /\ DOMAIN dkConfig.ssh \subseteq Nat
  BY <1>1, LenProperties
<1> QED
  BY <1>2 DEF Clients, BuildClients

\* A container has the number of the first client that lists it.
LEMMA MergedOnce ==
    ASSUME dkConfig \in DkConfigs, NEW got, NEW x \in Merged(got), NEW y \in Merged(got),
           x[1] = y[1]
    PROVE  x = y
<1>1. PICK j \in Clients : /\ x[1] \in got[j] /\ x = <<x[1], j>>
                           /\ \A i \in Clients : i < j => x[1] \notin got[i]
  BY DEF Merged
<1>2. PICK k \in Clients : /\ y[1] \in got[k] /\ y = <<y[1], k>>
                           /\ \A i \in Clients : i < k => y[1] \notin got[i]
  BY DEF Merged
<1>3. ~ j < k /\ ~ k < j
  BY <1>1, <1>2
<1>4. j = k
  BY <1>3, ClientNumbers
<1> QED
  BY <1>1, <1>2, <1>4

\* What a client has listed is in the list, under its number or that of one before it.
LEMMA MergedAll ==
    ASSUME dkConfig \in DkConfigs, NEW got, NEW k \in Clients, NEW x \in got[k]
    PROVE  \E y \in Merged(got) : y[1] = x
<1> DEFINE T == {j \in Clients : x \in got[j]}
<1>1. T \subseteq Nat /\ T # {}
  BY ClientNumbers
<1>2. PICK j \in T : \A i \in T : j <= i
  <2>1. PICK j \in T : \A i \in T : ~ (<<i, j>> \in OpToRel(<, Nat))
    <3> HIDE DEF T
    <3> QED
      BY <1>1, NatLessThanWellFounded, WFMin
  <2>2. \A i \in T : <<i, j>> \in OpToRel(<, Nat) <=> i < j
    BY <1>1 DEF OpToRel
  <2>3. \A i \in T : ~ (i < j)
    BY <2>1, <2>2, Zenon
  <2>4. \A i \in T : i \in Nat /\ j \in Nat
    BY <1>1
  <2> HIDE DEF T
  <2> QED
    BY <2>3, <2>4
<1>3. j \in Clients /\ x \in got[j]
  OBVIOUS
<1>4. \A i \in Clients : i < j => x \notin got[i]
  <2>1. \A i \in T : ~ (i < j)
    <3> HIDE DEF T
    <3> QED
      BY <1>1, <1>2
  <2> QED
    BY <2>1
<1> DEFINE y == <<x, j>>
<1>5. y \in (got[j] \ UNION {got[i] : i \in {i \in Clients : i < j}}) \X {j}
  BY <1>3, <1>4
<1>6. y \in Merged(got)
  BY <1>3, <1>5, Zenon DEF Merged
<1> QED
  BY <1>6

\* What is shown stays honest while it stays.
LEMMA ShownStays ==
    ASSUME DockerHonest, UNCHANGED <<dkConfig, dkShown>>
    PROVE  DockerHonest'
<1>1. \A k : Containers(k)' = Containers(k)
  BY DEF Containers
<1> QED
  BY <1>1 DEF DockerHonest

LEMMA DkInitInv == DkInit => DkInv
BY DEF DkInit, NothingAsked, DkInv, DkTypes, Jobs, Clients, JobHonest, DockerHonest

\* A collection that goes on with one client, which has answered or failed.
LEMMA OneClientInv ==
    ASSUME DkInv, NEW c \in DkCollections, NEW k \in Clients,
           NEW job \in [DkCollections -> Jobs],
           \A d \in DkCollections : d # c => job[d] = dkJob[d],
           job[c].step = dkJob[c].step, job[c].later = dkJob[c].later,
           job[c].failed \in {dkJob[c].failed, dkJob[c].failed \cup {k}},
           job[c].refused \in {dkJob[c].refused, dkJob[c].refused \cup {k}},
           \/ k \in job[c].failed \/ k \in job[c].refused
           \/ job[c].got[k] = Containers(k),
           \A j \in Clients : j # k => /\ job[c].of[j] = dkJob[c].of[j]
                                       /\ job[c].got[j] = dkJob[c].got[j],
           Answers(k, job) \/ Fails(k, job), UNCHANGED <<dkConfig, dkShown>>
    PROVE  DkInv'
<1> USE DEF DkInv
<1>1. Clients' = Clients /\ Jobs' = Jobs /\ \A j : Containers(j)' = Containers(j)
  BY DEF Clients, Jobs, Listed, Containers
<1>2. \A d \in DkCollections, j \in Clients : j # k =>
          /\ job[d].of[j] = dkJob[d].of[j] /\ job[d].step = dkJob[d].step
          /\ job[d].later = dkJob[d].later /\ job[d].got[j] = dkJob[d].got[j]
          /\ j \in job[d].failed <=> j \in dkJob[d].failed
          /\ j \in job[d].refused <=> j \in dkJob[d].refused
  OBVIOUS
<1>3. CASE Answers(k, job)
  <2>1. /\ dkClient' \in [Clients -> [error : BOOLEAN, ok : BOOLEAN]]
        /\ ~dkClient'[k].error /\ dkClient'[k].ok
        /\ \A j \in Clients : j # k => dkClient'[j] = dkClient[j]
    BY <1>3 DEF Answers, DkTypes
  <2>2. ASSUME NEW d \in DkCollections
        PROVE  /\ dkJob'[d] \in Jobs
               /\ dkJob'[d].of = job[d].of /\ dkJob'[d].step = job[d].step
               /\ dkJob'[d].failed = job[d].failed /\ dkJob'[d].refused = job[d].refused
               /\ dkJob'[d].got = job[d].got
               /\ k \in job[d].failed => k \in dkJob'[d].later
               /\ job[d].later \subseteq dkJob'[d].later
    <3> DEFINE after == IF k \in job[d].failed THEN [job[d] EXCEPT !.later = @ \cup {k}]
                        ELSE job[d]
    <3>1. dkJob'[d] = after /\ job[d] \in Jobs
      BY <1>3 DEF Answers
    <3>2. /\ after \in Jobs
          /\ after.of = job[d].of /\ after.step = job[d].step /\ after.failed = job[d].failed
          /\ after.refused = job[d].refused /\ after.got = job[d].got
          /\ k \in job[d].failed => k \in after.later
          /\ job[d].later \subseteq after.later
      BY <3>1 DEF Jobs
    <3> HIDE DEF after
    <3> QED
      BY <3>1, <3>2
  <2>3. dkJob' \in [DkCollections -> Jobs]
    BY <1>3, <2>2 DEF Answers
  <2>4. \A d \in DkCollections : JobHonest(dkJob[d])'
    BY <1>1, <1>2, <2>1, <2>2 DEF JobHonest
  <2> QED
    BY <1>1, <2>1, <2>3, <2>4 DEF DkTypes, DockerHonest
<1>4. CASE Fails(k, job)
  <2>1. /\ dkClient' \in [Clients -> [error : BOOLEAN, ok : BOOLEAN]]
        /\ dkClient'[k].error
        /\ \A j \in Clients : j # k => dkClient'[j] = dkClient[j]
    BY <1>4 DEF Fails, DkTypes
  <2>2. \A d \in DkCollections : JobHonest(dkJob[d])'
    BY <1>1, <1>2, <1>4, <2>1 DEF Fails, JobHonest
  <2> QED
    BY <1>1, <1>4, <2>1, <2>2 DEF Fails, DkTypes, DockerHonest
<1> QED
  BY <1>3, <1>4

LEMMA DkStepInv == DkInv /\ [DkNext]_dkVars => DkInv'
<1> SUFFICES ASSUME DkInv, [DkNext]_dkVars PROVE DkInv'
  OBVIOUS
<1> USE DEF DkInv
<1>0. UNCHANGED dkConfig => /\ Clients' = Clients /\ Jobs' = Jobs
                           /\ \A j : Containers(j)' = Containers(j)
  BY DEF Clients, Jobs, Listed, Containers
<1>1. CASE UNCHANGED dkVars
  BY <1>0, <1>1 DEF dkVars, DkTypes, JobHonest, DockerHonest
<1>2. ASSUME NEW c \in DkCollections, BeginLists(c) PROVE DkInv'
  <2>1. [NothingAsked(dkConfig) EXCEPT !.step = "lists", !.of = [k \in Clients |-> "list"]] \in Jobs
    BY DEF NothingAsked, Jobs, Clients
  <2> DEFINE job == [NothingAsked(dkConfig) EXCEPT !.step = "lists", !.of = [k \in Clients |-> "list"]]
  <2>2. /\ job.step = "lists" /\ job.failed = {} /\ \A k \in Clients : job.of[k] = "list"
        /\ dkJob' = [dkJob EXCEPT ![c] = job] /\ UNCHANGED <<dkConfig, dkClient, dkShown>>
    BY <1>2 DEF BeginLists, NothingAsked, Clients
  <2> HIDE DEF job
  <2>3. JobHonest(job)
    BY <2>2 DEF JobHonest
  <2>4. DkTypes' /\ \A d \in DkCollections : JobHonest(dkJob[d])'
    BY <1>0, <2>1, <2>2, <2>3 DEF DkTypes, JobHonest, job
  <2> QED
    BY <2>2, <2>4, ShownStays
<1>3. ASSUME NEW c \in DkCollections, BeginNetworks(c) PROVE DkInv'
  <2> DEFINE of == [k \in Clients |-> IF IsEngine(k) THEN "ask" ELSE "done"]
             job == [dkJob[c] EXCEPT !.step = "networks", !.of = of]
  <2>1. dkJob[c] \in Jobs /\ of \in [Clients -> {"list", "stats", "ask", "done"}]
    BY DEF DkTypes
  <2>2. /\ job \in Jobs /\ job.failed = dkJob[c].failed /\ job.later = dkJob[c].later
        /\ job.refused = dkJob[c].refused /\ job.got = dkJob[c].got
    BY <2>1 DEF Jobs
  <2>3. dkJob' = [dkJob EXCEPT ![c] = job] /\ UNCHANGED <<dkConfig, dkClient, dkShown>>
    BY <1>3 DEF BeginNetworks, DkTypes, Jobs
  <2>4. \A k \in Clients :
            /\ dkClient[k].error \/ dkClient[k].ok
            /\ \/ k \in dkJob[c].failed \/ k \in dkJob[c].refused
               \/ dkJob[c].got[k] = Containers(k)
    BY <1>3 DEF BeginNetworks, JobHonest
  <2> HIDE DEF job
  <2>5. JobHonest(job)
    BY <2>2, <2>4 DEF JobHonest
  <2>6. DkTypes' /\ \A d \in DkCollections : JobHonest(dkJob[d])'
    BY <1>0, <2>2, <2>3, <2>5 DEF DkTypes, JobHonest
  <2> QED
    BY <2>3, <2>6, ShownStays
<1>4. ASSUME NEW c \in DkCollections, CollectDocker(c) PROVE DkInv'
  <2> DEFINE none == NothingAsked(dkConfig)
             job == dkJob[c]
  <2>1. none \in Jobs /\ none.step = "idle" /\ none.failed = {}
    BY DEF NothingAsked, Jobs, Clients
  <2>2. /\ dkJob' = [dkJob EXCEPT ![c] = none] /\ UNCHANGED <<dkConfig, dkClient>>
        /\ dkShown'.list = Merged(job.got)
        /\ dkShown'.hosts = {[client |-> k, reachable |-> ~dkClient[k].error,
                              seen |-> dkClient[k].ok] : k \in Clients}
        /\ dkShown'.unlisted = {k \in job.refused \cup job.later : ~dkClient[k].error}
        /\ job.step = "networks" /\ JobHonest(job) /\ job \in Jobs
    BY <1>4 DEF CollectDocker, DkTypes
  <2> HIDE DEF none
  <2>3. DkTypes' /\ \A d \in DkCollections : JobHonest(dkJob[d])'
    BY <1>0, <2>1, <2>2 DEF DkTypes, JobHonest
  <2>4. \A x, y \in dkShown'.list : x[1] = y[1] => x = y
    BY <2>2, MergedOnce DEF DkTypes
  <2>5. ASSUME NEW h \in dkShown'.hosts, h.reachable
        PROVE  /\ h.seen
               /\ \/ Containers(h.client) \subseteq {x[1] : x \in dkShown'.list}
                  \/ h.client \in dkShown'.unlisted
    <3>1. PICK k \in Clients : h = [client |-> k, reachable |-> ~dkClient[k].error,
                                   seen |-> dkClient[k].ok]
      BY <2>2, <2>5
    <3>2. h.client = k /\ ~dkClient[k].error /\ h.seen = dkClient[k].ok
      BY <2>5, <3>1
    <3>3. /\ dkClient[k].ok
          /\ k \in job.later \/ k \in job.refused \/ job.got[k] = Containers(k)
      BY <2>2, <3>2 DEF JobHonest
    <3>4. CASE job.got[k] = Containers(k)
      <4>1. \A x \in job.got[k] : \E y \in Merged(job.got) : y[1] = x
        BY MergedAll DEF DkTypes
      <4> QED
        BY <2>2, <3>2, <3>3, <3>4, <4>1
    <3>5. CASE k \in job.later \/ k \in job.refused
      BY <2>2, <3>2, <3>3, <3>5
    <3> QED
      BY <3>3, <3>4, <3>5
  <2>6. DockerHonest'
    <3>1. \A k : Containers(k)' = Containers(k)
      BY <1>0, <2>2
    <3>2. \A h \in dkShown'.hosts : h.reachable =>
              /\ h.seen
              /\ \/ Containers(h.client)' \subseteq {x[1] : x \in dkShown'.list}
                 \/ h.client \in dkShown'.unlisted
      BY <2>5, <3>1
    <3> QED
      BY <2>4, <3>2 DEF DockerHonest
  <2> QED
    BY <2>3, <2>6
<1>5. ASSUME NEW c \in DkCollections, NEW k \in Clients, Lists(c, k) PROVE DkInv'
  <2> DEFINE job == [dkJob EXCEPT ![c].of[k] = IF Containers(k) = {} THEN "done" ELSE "stats",
                                  ![c].got[k] = Containers(k)]
  <2>1. Answers(k, job) /\ UNCHANGED <<dkConfig, dkShown>>
    BY <1>5 DEF Lists
  <2>2. Containers(k) \subseteq Listed
    BY DEF Listed
  <2>3. job \in [DkCollections -> Jobs]
    <3> DEFINE what == IF Containers(k) = {} THEN "done" ELSE "stats"
    <3>1. /\ dkJob \in [DkCollections -> Jobs] /\ dkJob[c] \in Jobs
          /\ dkJob[c].of \in [Clients -> {"list", "stats", "ask", "done"}]
          /\ dkJob[c].got \in [Clients -> SUBSET Listed]
          /\ what \in {"list", "stats", "ask", "done"}
      BY DEF DkTypes, Jobs
    <3>2. /\ [dkJob[c].of EXCEPT ![k] = what] \in [Clients -> {"list", "stats", "ask", "done"}]
          /\ [dkJob[c].got EXCEPT ![k] = Containers(k)] \in [Clients -> SUBSET Listed]
      BY <2>2, <3>1
    <3>3. job[c] = [dkJob[c] EXCEPT !.of = [dkJob[c].of EXCEPT ![k] = what],
                                    !.got = [dkJob[c].got EXCEPT ![k] = Containers(k)]]
      BY <3>1 DEF Jobs
    <3>4. job[c] \in Jobs
      BY <3>1, <3>2, <3>3 DEF Jobs
    <3> QED
      BY <3>1, <3>4
  <2>4. /\ \A d \in DkCollections : d # c => job[d] = dkJob[d]
        /\ job[c].step = dkJob[c].step /\ job[c].later = dkJob[c].later
        /\ job[c].failed = dkJob[c].failed /\ job[c].refused = dkJob[c].refused
        /\ job[c].got[k] = Containers(k)
        /\ \A j \in Clients : j # k => /\ job[c].of[j] = dkJob[c].of[j]
                                      /\ job[c].got[j] = dkJob[c].got[j]
    BY DEF DkTypes, Jobs
  <2> HIDE DEF job
  <2> QED
    BY <2>1, <2>3, <2>4, OneClientInv
<1>6. ASSUME NEW c \in DkCollections, NEW k \in Clients, ListFails(c, k) PROVE DkInv'
  <2> DEFINE job == [dkJob EXCEPT ![c].of[k] = "done", ![c].failed = @ \cup {k}]
  <2>1. Fails(k, job) /\ UNCHANGED <<dkConfig, dkShown>>
    BY <1>6 DEF ListFails
  <2>2. job \in [DkCollections -> Jobs]
    <3>1. /\ dkJob \in [DkCollections -> Jobs] /\ dkJob[c] \in Jobs
          /\ dkJob[c].of \in [Clients -> {"list", "stats", "ask", "done"}]
      BY DEF DkTypes, Jobs
    <3>2. job[c] \in Jobs
      BY <3>1 DEF Jobs
    <3> QED
      BY <3>1, <3>2
  <2>3. /\ \A d \in DkCollections : d # c => job[d] = dkJob[d]
        /\ job[c].step = dkJob[c].step /\ job[c].later = dkJob[c].later
        /\ job[c].failed = dkJob[c].failed \cup {k} /\ job[c].refused = dkJob[c].refused
        /\ \A j \in Clients : j # k => /\ job[c].of[j] = dkJob[c].of[j]
                                      /\ job[c].got[j] = dkJob[c].got[j]
    BY DEF DkTypes, Jobs
  <2> HIDE DEF job
  <2>4. k \in job[c].failed
    BY <2>3
  <2> QED
    BY <2>1, <2>2, <2>3, <2>4, OneClientInv
<1>8. ASSUME NEW c \in DkCollections, NEW k \in Clients, ListRefused(c, k) PROVE DkInv'
  <2> DEFINE job == [dkJob EXCEPT ![c].of[k] = "done", ![c].refused = @ \cup {k}]
  <2>1. Answers(k, job) /\ UNCHANGED <<dkConfig, dkShown>>
    BY <1>8 DEF ListRefused
  <2>2. job \in [DkCollections -> Jobs]
    <3>1. /\ dkJob \in [DkCollections -> Jobs] /\ dkJob[c] \in Jobs
          /\ dkJob[c].of \in [Clients -> {"list", "stats", "ask", "done"}]
      BY DEF DkTypes, Jobs
    <3>2. job[c] \in Jobs
      BY <3>1 DEF Jobs
    <3> QED
      BY <3>1, <3>2
  <2>3. /\ \A d \in DkCollections : d # c => job[d] = dkJob[d]
        /\ job[c].step = dkJob[c].step /\ job[c].later = dkJob[c].later
        /\ job[c].refused = dkJob[c].refused \cup {k} /\ job[c].failed = dkJob[c].failed
        /\ \A j \in Clients : j # k => /\ job[c].of[j] = dkJob[c].of[j]
                                      /\ job[c].got[j] = dkJob[c].got[j]
    BY DEF DkTypes, Jobs
  <2> HIDE DEF job
  <2>4. k \in job[c].refused
    BY <2>3
  <2> QED
    BY <2>1, <2>2, <2>3, <2>4, OneClientInv
<1>7. ASSUME NEW c \in DkCollections, NEW k \in Clients,
             EngineStats(c, k) \/ SshStats(c, k) \/ Networks(c, k)
      PROVE  DkInv'
  <2> DEFINE job == [dkJob EXCEPT ![c].of[k] = "done"]
  <2>1. /\ Answers(k, job) \/ Fails(k, job) \/ (dkJob' = job /\ UNCHANGED dkClient)
        /\ dkJob[c].step = "networks" \/ (dkJob[c].step = "lists" /\ dkJob[c].of[k] # "list")
        /\ UNCHANGED <<dkConfig, dkShown>>
    BY <1>7 DEF EngineStats, SshStats, Networks, Waiting
  <2>2. job \in [DkCollections -> Jobs]
    <3>1. /\ dkJob \in [DkCollections -> Jobs] /\ dkJob[c] \in Jobs
          /\ dkJob[c].of \in [Clients -> {"list", "stats", "ask", "done"}]
      BY DEF DkTypes, Jobs
    <3>2. job[c] \in Jobs
      BY <3>1 DEF Jobs
    <3> QED
      BY <3>1, <3>2
  <2>3. /\ \A d \in DkCollections : d # c => job[d] = dkJob[d]
        /\ job[c].step = dkJob[c].step /\ job[c].later = dkJob[c].later
        /\ job[c].failed = dkJob[c].failed /\ job[c].refused = dkJob[c].refused
        /\ job[c].got = dkJob[c].got
        /\ \A j \in Clients : j # k => job[c].of[j] = dkJob[c].of[j]
    BY DEF DkTypes, Jobs
  <2>6. k \in job[c].failed \/ k \in job[c].refused \/ job[c].got[k] = Containers(k)
    BY <2>1, <2>3 DEF JobHonest
  <2> HIDE DEF job
  <2>4. CASE Answers(k, job) \/ Fails(k, job)
    BY <2>1, <2>2, <2>3, <2>4, <2>6, OneClientInv
  <2>5. CASE dkJob' = job /\ UNCHANGED dkClient
    <3>1. DkTypes' /\ \A d \in DkCollections : JobHonest(dkJob[d])'
      BY <1>0, <2>1, <2>2, <2>3, <2>5, <2>6 DEF DkTypes, JobHonest
    <3> QED
      BY <2>1, <3>1, ShownStays
  <2> QED
    BY <2>1, <2>4, <2>5
<1> QED
  BY <1>1, <1>2, <1>3, <1>4, <1>5, <1>6, <1>7, <1>8 DEF DkNext

\* The Docker section of the snapshot lists each container once, however many clients
\* reach its machine, and shows in reach only a host that has answered and whose
\* containers are listed: if they are not, the host could not be reached for its list and
\* has answered another request since, or docker ps has ended with an error, which the
\* page does not tell (docker_client.py:306).
THEOREM DockerStaysHonest == DkSpec => []DockerHonest
BY DkInitInv, DkStepInv, PTL DEF DkSpec, DkInv

-----------------------------------------------------------------------------
(***************************************************************************)
(* The terminals, for any set of WebSockets and any limit.                 *)
(***************************************************************************)

\* What the fields of one session tell of each other: the phases of its life.
Phase(w) ==
    /\ session[w] \in BOOLEAN /\ proc[w] \in BOOLEAN /\ closed[w] \in BOOLEAN
    /\ ~session[w] => begun[w] = 0 /\ ended[w] = 0 /\ ~proc[w] /\ at[w] \notin {"connect", "shell"}
    /\ at[w] = "out" => ~session[w]
    /\ at[w] \in {"connect", "shell"} =>
          begun[w] = 0 /\ ended[w] = 0 /\ ~proc[w] /\ ~closed[w]
    /\ session[w] /\ at[w] \notin {"connect", "shell"} =>
          /\ begun[w] = 1
          /\ closed[w] => ended[w] = 1 /\ ~proc[w]
          /\ ~closed[w] => ended[w] = 0 /\ proc[w]
    /\ session[w] /\ at[w] = "closing" => closed[w]
    /\ pump[w] # "none" \/ dog[w] # "none" => proc[w]
    /\ conn[w] => proc[w] \/ at[w] = "shell"

Phases == \A w \in Sockets : Phase(w)

-----------------------------------------------------------------------------
(***************************************************************************)
(* Type correctness.                                                       *)
(***************************************************************************)

LEMMA InitTypeOK == Init => TypeOK
BY MaxSessionsNat DEF Init, TypeOK, Stages

LEMMA LessInRange == \A k \in 0 .. MaxSessions : Less(k) \in 0 .. MaxSessions
BY MaxSessionsNat DEF Less

LEMMA CloseTypeOK ==
    ASSUME TypeOK, NEW w \in Sockets, Close(w),
           at' \in [Sockets -> Stages], UNCHANGED <<gone, session>>
    PROVE  TypeOK'
<1>1. CASE closed[w]
  BY <1>1 DEF Close, TypeOK, shellVars, auditVars
<1>2. CASE ~closed[w]
  <2>1. active' \in 0 .. MaxSessions
    BY <1>2, LessInRange DEF Close, TypeOK
  <2>2. ended' \in [Sockets -> Nat]
    BY <1>2 DEF Close, TypeOK
  <2> QED
    BY <1>2, <2>1, <2>2 DEF Close, TypeOK
<1> QED
  BY <1>1, <1>2

LEMMA NextTypeOK == TypeOK /\ [Next]_vars => TypeOK'
<1> SUFFICES ASSUME TypeOK, [Next]_vars PROVE TypeOK'
  OBVIOUS
<1>1. CASE UNCHANGED vars
  BY <1>1 DEF vars, TypeOK
<1>2. ASSUME NEW w \in Sockets, Handler(w) \/ BrowserLeaves(w) \/ Tasks(w)
      PROVE  TypeOK'
  <2> USE DEF HandlerGoes, shellVars, auditVars, Stages
  <2>1. CASE Accept(w) \/ OpenRefused(w) \/ Replied(w)
    BY <2>1 DEF Accept, OpenRefused, Replied, TypeOK
  <2>2. CASE BrowserLeaves(w)
    BY <2>2 DEF BrowserLeaves, TypeOK
  <2>3. CASE OpenStarts(w)
    BY <2>3, MaxSessionsNat DEF OpenStarts, TypeOK
  <2>4. CASE Connected(w)
    BY <2>4 DEF Connected, TypeOK
  <2>5. CASE ShellStarted(w)
    BY <2>5 DEF ShellStarted, TypeOK
  <2>6. CASE OpenFails(w)
    BY <2>6, LessInRange DEF OpenFails, TypeOK
  <2>7. CASE Leave(w)
    <3>1. at' \in [Sockets -> Stages]
      BY <2>7 DEF Leave, TypeOK, Stages
    <3> QED
      BY <2>7, <3>1, CloseTypeOK DEF Leave, TypeOK
  <2>8. CASE HandlerEnds(w)
    BY <2>8 DEF HandlerEnds, TypeOK
  <2>9. CASE PumpReads(w) \/ PumpSent(w)
    BY <2>9 DEF PumpReads, PumpSent, TypeOK
  <2>10. CASE PumpCloses(w) \/ DogCloses(w)
    BY <2>10, CloseTypeOK DEF PumpCloses, DogCloses, TypeOK
  <2>11. CASE DogWakes(w)
    BY <2>11 DEF DogWakes, TypeOK
  <2> QED
    BY <1>2, <2>1, <2>2, <2>3, <2>4, <2>5, <2>6, <2>7, <2>8, <2>9, <2>10, <2>11
       DEF Handler, Open, Tasks
<1> QED
  BY <1>1, <1>2 DEF Next

\* The state is well formed; in particular the counter stays within the limit.
THEOREM TypeCorrect == Spec => []TypeOK
BY InitTypeOK, NextTypeOK, PTL DEF Spec

-----------------------------------------------------------------------------
(***************************************************************************)
(* The phases of a session, and what they say of its end.                  *)
(***************************************************************************)

LEMMA InitPhases == Init => Phases
BY DEF Init, Phases, Phase

\* Whoever closes a session that has begun leaves it in the last phase.
LEMMA ClosePhases ==
    ASSUME TypeOK, Phases, NEW w \in Sockets, Close(w), session[w],
           at[w] \in {"receive", "reply", "closing"},
           at' = [at EXCEPT ![w] = at'[w]], at'[w] \in {"receive", "reply", "closing"},
           at'[w] = at[w] \/ at'[w] = "closing",
           UNCHANGED <<gone, session>>
    PROVE  Phases'
<1> SUFFICES ASSUME NEW v \in Sockets PROVE Phase(v)'
  BY DEF Phases
<1>1. Phase(v) /\ Phase(w)
  BY DEF Phases
<1>2. CASE closed[w]
  BY <1>1, <1>2 DEF Close, Phase, TypeOK, shellVars, auditVars
<1>3. CASE ~closed[w] /\ v # w
  BY <1>1, <1>3 DEF Close, Phase, TypeOK
<1>4. CASE ~closed[w] /\ v = w
  <2>1. begun'[w] = 1 /\ ended'[w] = 1
    <3>1. begun[w] = 1 /\ ended[w] = 0
      BY <1>1, <1>4 DEF Phase
    <3> QED
      BY <1>4, <3>1 DEF Close, TypeOK
  <2>2. proc'[w] = FALSE /\ closed'[w] = TRUE /\ conn'[w] = FALSE
        /\ pump'[w] = "none" /\ dog'[w] = "none"
    BY <1>4 DEF Close, TypeOK
  <2> QED
    BY <1>4, <2>1, <2>2 DEF Phase
<1> QED
  BY <1>2, <1>3, <1>4

LEMMA NextPhases == TypeOK /\ Phases /\ [Next]_vars => Phases'
<1> SUFFICES ASSUME TypeOK, Phases, [Next]_vars PROVE Phases'
  OBVIOUS
<1>1. CASE UNCHANGED vars
  BY <1>1 DEF vars, Phases, Phase
<1>2. ASSUME NEW w \in Sockets, Handler(w) \/ BrowserLeaves(w) \/ Tasks(w)
      PROVE  Phases'
  <2> USE DEF HandlerGoes, shellVars, auditVars
  <2>0. Phase(w)
    BY DEF Phases
  <2>1. CASE Accept(w) \/ OpenRefused(w) \/ Replied(w)
    BY <2>0, <2>1 DEF Accept, OpenRefused, Replied, TypeOK, Phases, Phase
  <2>2. CASE BrowserLeaves(w)
    BY <2>0, <2>2 DEF BrowserLeaves, TypeOK, Phases, Phase
  <2>3. CASE OpenStarts(w)
    BY <2>0, <2>3 DEF OpenStarts, TypeOK, Phases, Phase
  <2>4. CASE Connected(w)
    BY <2>0, <2>4 DEF Connected, TypeOK, Phases, Phase
  <2>5. CASE ShellStarted(w)
    <3> SUFFICES ASSUME NEW v \in Sockets PROVE Phase(v)'
      BY DEF Phases
    <3>1. CASE v # w
      BY <2>5, <3>1 DEF ShellStarted, TypeOK, Phases, Phase
    <3>2. CASE v = w
      <4>1. begun[w] = 0 /\ ended[w] = 0
        BY <2>0, <2>5 DEF ShellStarted, Phase
      <4>2. begun'[w] = 1 /\ ended'[w] = 0
        BY <2>5, <4>1 DEF ShellStarted, TypeOK
      <4>3. proc'[w] = TRUE /\ at'[w] = "reply" /\ ~closed'[w] /\ session'[w] = TRUE
            /\ closed'[w] \in BOOLEAN
        BY <2>0, <2>5 DEF ShellStarted, TypeOK, Phase
      <4> QED
        BY <3>2, <4>2, <4>3 DEF Phase
    <3> QED
      BY <3>1, <3>2
  <2>6. CASE OpenFails(w)
    <3> SUFFICES ASSUME NEW v \in Sockets PROVE Phase(v)'
      BY DEF Phases
    <3>1. CASE v # w
      BY <2>6, <3>1 DEF OpenFails, TypeOK, Phases, Phase
    <3>2. CASE v = w
      BY <2>0, <2>6, <3>2 DEF OpenFails, TypeOK, Phase
    <3> QED
      BY <3>1, <3>2
  <2>7. CASE Leave(w)
    <3>1. CASE session[w]
      BY <2>7, <3>1, ClosePhases DEF Leave, TypeOK
    <3>2. CASE ~session[w]
      BY <2>0, <2>7, <3>2 DEF Leave, TypeOK, Phases, Phase
    <3> QED
      BY <3>1, <3>2
  <2>8. CASE HandlerEnds(w)
    BY <2>0, <2>8 DEF HandlerEnds, TypeOK, Phases, Phase
  <2>9. CASE PumpReads(w) \/ PumpSent(w)
    BY <2>0, <2>9 DEF PumpReads, PumpSent, TypeOK, Phases, Phase
  <2>10. CASE PumpCloses(w) \/ DogCloses(w)
    <3>1. Close(w) /\ proc[w] /\ UNCHANGED <<at, gone, session>>
      BY <2>0, <2>10 DEF PumpCloses, DogCloses, Phase
    <3>2. session[w] /\ ~closed[w] /\ at[w] \in {"receive", "reply", "closing"}
      BY <2>0, <3>1 DEF Phase, TypeOK, Stages
    <3> QED
      BY <3>1, <3>2, ClosePhases DEF TypeOK
  <2>11. CASE DogWakes(w)
    BY <2>0, <2>11 DEF DogWakes, TypeOK, Phases, Phase
  <2> QED
    BY <1>2, <2>1, <2>2, <2>3, <2>4, <2>5, <2>6, <2>7, <2>8, <2>9, <2>10, <2>11
       DEF Handler, Open, Tasks
<1> QED
  BY <1>1, <1>2 DEF Next

LEMMA PhasesAlways == Spec => [](TypeOK /\ Phases)
BY InitTypeOK, NextTypeOK, InitPhases, NextPhases, PTL DEF Spec

\* Each session that has begun has one closing line in the audit when its handler
\* is done, and never more than one, whoever closes it.
THEOREM OneClosing == Spec => []OneClosingLine
<1>1. TypeOK /\ Phases => OneClosingLine
  BY DEF TypeOK, Phases, Phase, OneClosingLine
<1> QED
  BY <1>1, PhasesAlways, PTL

\* A session that is over has neither shell nor connection nor tasks.
THEOREM NothingRunning == Spec => []NothingLeftRunning
<1>1. TypeOK /\ Phases => NothingLeftRunning
  BY DEF TypeOK, Phases, Phase, NothingLeftRunning
<1> QED
  BY <1>1, PhasesAlways, PTL

\* Both: one closing line, and nothing left behind.
THEOREM SessionsCloseCleanly == Spec => []ClosedCleanly
BY OneClosing, NothingRunning, PTL DEF ClosedCleanly

-----------------------------------------------------------------------------
(***************************************************************************)
(* The slots.                                                              *)
(***************************************************************************)

LEMMA OccupantsFinite == IsFiniteSet(Occupants) /\ Cardinality(Occupants) \in Nat
<1>1. Occupants \subseteq Sockets
  BY DEF Occupants
<1> QED
  BY <1>1, SocketsFinite, FS_Subset, FS_CardinalityType

LEMMA InitSlots == Init => SlotsCounted
<1> SUFFICES ASSUME Init PROVE SlotsCounted
  OBVIOUS
<1>1. Occupants = {}
  BY DEF Init, Occupants, Occupied
<1> QED
  BY <1>1, FS_EmptySet DEF Init, SlotsCounted

\* A slot is taken.
LEMMA SlotTaken ==
    ASSUME SlotsCounted, NEW w, w \notin Occupants,
           active' = active + 1, Occupants' = Occupants \cup {w}
    PROVE  SlotsCounted'
<1>1. Cardinality(Occupants \cup {w}) = Cardinality(Occupants) + 1
  BY OccupantsFinite, FS_AddElement
<1> QED
  BY <1>1 DEF SlotsCounted

\* A slot is given back: max() has nothing to correct.
LEMMA SlotGivenBack ==
    ASSUME SlotsCounted, NEW w, w \in Occupants,
           active' = Less(active), Occupants' = Occupants \ {w}
    PROVE  SlotsCounted'
<1>1. Cardinality(Occupants \ {w}) = Cardinality(Occupants) - 1
      /\ Cardinality(Occupants \ {w}) \in Nat
  BY OccupantsFinite, FS_RemoveElement, FS_CardinalityType
<1>2. Cardinality(Occupants) > 0
  BY <1>1, OccupantsFinite
<1> QED
  BY <1>1, <1>2, OccupantsFinite DEF SlotsCounted, Less

LEMMA CloseSlots ==
    ASSUME TypeOK, Phases, SlotsCounted, NEW w \in Sockets, Close(w), session[w],
           at[w] \in {"receive", "reply", "closing"},
           at' = [at EXCEPT ![w] = at'[w]], at'[w] \in {"receive", "reply", "closing"}
    PROVE  SlotsCounted'
<1>1. CASE closed[w]
  <2>1. Occupants' = Occupants /\ active' = active
    BY <1>1 DEF Close, Occupants, Occupied, TypeOK, shellVars
  <2> QED
    BY <2>1 DEF SlotsCounted
<1>2. CASE ~closed[w]
  <2>1. proc[w] = TRUE
    BY <1>2 DEF Phases, Phase
  <2>2. active' = Less(active) /\ proc' = [proc EXCEPT ![w] = FALSE]
    BY <1>2, <2>1 DEF Close
  <2>3. w \in Occupants /\ Occupants' = Occupants \ {w}
    BY <2>1, <2>2 DEF Occupants, Occupied, TypeOK
  <2> QED
    BY <2>2, <2>3, SlotGivenBack
<1> QED
  BY <1>1, <1>2

LEMMA NextSlots == TypeOK /\ Phases /\ SlotsCounted /\ [Next]_vars => SlotsCounted'
<1> SUFFICES ASSUME TypeOK, Phases, SlotsCounted, [Next]_vars PROVE SlotsCounted'
  OBVIOUS
<1>0. ASSUME Occupants' = Occupants, active' = active PROVE SlotsCounted'
  BY <1>0 DEF SlotsCounted
<1>1. CASE UNCHANGED vars
  BY <1>0, <1>1 DEF vars, Occupants, Occupied
<1>2. ASSUME NEW w \in Sockets, Handler(w) \/ BrowserLeaves(w) \/ Tasks(w)
      PROVE  SlotsCounted'
  <2> USE DEF HandlerGoes, shellVars
  <2>0. Phase(w)
    BY DEF Phases
  <2>1. CASE Accept(w) \/ OpenRefused(w) \/ Replied(w)
    BY <1>0, <2>1 DEF Accept, OpenRefused, Replied, Occupants, Occupied, TypeOK
  <2>2. CASE BrowserLeaves(w)
    BY <1>0, <2>2 DEF BrowserLeaves, Occupants, Occupied
  <2>3. CASE OpenStarts(w)
    <3>1. w \notin Occupants /\ Occupants' = Occupants \cup {w}
      BY <2>0, <2>3 DEF OpenStarts, Occupants, Occupied, TypeOK, Phase
    <3> QED
      BY <2>3, <3>1, SlotTaken DEF OpenStarts
  <2>4. CASE Connected(w)
    BY <1>0, <2>4 DEF Connected, Occupants, Occupied, TypeOK
  <2>5. CASE ShellStarted(w)
    BY <1>0, <2>5 DEF ShellStarted, Occupants, Occupied, TypeOK
  <2>6. CASE OpenFails(w)
    <3>1. w \in Occupants /\ Occupants' = Occupants \ {w}
      BY <2>0, <2>6 DEF OpenFails, Occupants, Occupied, TypeOK, Phase
    <3> QED
      BY <2>6, <3>1, SlotGivenBack DEF OpenFails
  <2>7. CASE Leave(w)
    <3>1. CASE session[w]
      BY <2>7, <3>1, CloseSlots DEF Leave, TypeOK
    <3>2. CASE ~session[w]
      BY <1>0, <2>7, <3>2 DEF Leave, Occupants, Occupied, TypeOK
    <3> QED
      BY <3>1, <3>2
  <2>8. CASE HandlerEnds(w)
    BY <1>0, <2>8 DEF HandlerEnds, Occupants, Occupied, TypeOK
  <2>9. CASE PumpReads(w) \/ PumpSent(w) \/ DogWakes(w)
    BY <1>0, <2>9 DEF PumpReads, PumpSent, DogWakes, Occupants, Occupied
  <2>10. CASE PumpCloses(w) \/ DogCloses(w)
    <3>1. Close(w) /\ proc[w] /\ UNCHANGED <<at, gone, session>>
      BY <2>0, <2>10 DEF PumpCloses, DogCloses, Phase
    <3>2. session[w] /\ at[w] \in {"receive", "reply", "closing"}
      BY <2>0, <3>1 DEF Phase, TypeOK, Stages
    <3> QED
      BY <3>1, <3>2, CloseSlots DEF TypeOK
  <2> QED
    BY <1>2, <2>1, <2>2, <2>3, <2>4, <2>5, <2>6, <2>7, <2>8, <2>9, <2>10
       DEF Handler, Open, Tasks
<1> QED
  BY <1>1, <1>2 DEF Next

\* The counter of open sessions is the number of handshakes and shells there are:
\* no way a session ends loses a slot or gives one back twice.
THEOREM SlotsExact == Spec => []SlotsCounted
BY InitSlots, NextSlots, InitTypeOK, NextTypeOK, InitPhases, NextPhases, PTL DEF Spec

\* There are never more of them than terminal.max_sessions.
THEOREM LimitHolds == Spec => []LimitKept
<1>1. TypeOK /\ SlotsCounted => LimitKept
  BY MaxSessionsNat DEF TypeOK, SlotsCounted, LimitKept
<1> QED
  BY <1>1, TypeCorrect, SlotsExact, PTL

=============================================================================
