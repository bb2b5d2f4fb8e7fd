----------------------------- MODULE RouterSsh -----------------------------
(***************************************************************************)
(* The one SSH connection to the router that every reading shares          *)
(* (backend/services/openwrt.py, SSHClient): opened by whoever needs it    *)
(* first, under a lock; used for one command at a time, under a semaphore; *)
(* dropped by whoever sees it fail, and not tried again before a delay.    *)
(*                                                                         *)
(* Everything runs on one event loop: an action is the code between two    *)
(* awaits.  The lock and the semaphore serve in the order of arrival: each *)
(* is the sequence of its callers, the holder first.  What the commands    *)
(* are and print is left out.                                              *)
(***************************************************************************)
EXTENDS Integers, SequencesExt

CONSTANTS
    RoCallers,   \* tasks that may be in run() at the same time
    RoConns,     \* names for connections, more than there are callers
    RoNone,      \* None
    RoBase,      \* _CONN_BACKOFF_BASE
    RoTop,       \* _CONN_BACKOFF_MAX
    RoMaxTime    \* bound on the clock

\* A new connection is none of those the callers still hold.
ASSUME ConnsEnough ==
    /\ RoNone \notin RoConns
    /\ IsFiniteSet(RoCallers) /\ IsFiniteSet(RoConns)
    /\ Cardinality(RoConns) > Cardinality(RoCallers)

VARIABLES
    roNow,     \* the clock
    roConn,    \* _conn
    roOpen,    \* connections open at both ends
    roLock,    \* _lock
    roSem,     \* _sem
    roBlock,   \* _conn_block_until
    roFails,   \* _conn_fail_count
    roAt,      \* what each caller awaits
    roUse,     \* its `conn`
    roTry,     \* its `attempt`
    roAsked,   \* its `now`, read before the wait for the lock
    roEarly    \* history: a connection was tried before the delay had passed

roLink == <<roConn, roOpen>>
roQueues == <<roLock, roSem>>
roDelay == <<roBlock, roFails>>
roVars == <<roNow, roLink, roQueues, roDelay, roAt, roUse, roTry, roAsked, roEarly>>

-----------------------------------------------------------------------------
RoInit ==
    /\ roNow = 0
    /\ roConn = RoNone
    /\ roOpen = {}
    /\ roLock = <<>>
    /\ roSem = <<>>
    /\ roBlock = 0
    /\ roFails = 0
    /\ roAt = [c \in RoCallers |-> "idle"]
    /\ roUse = [c \in RoCallers |-> RoNone]
    /\ roTry = [c \in RoCallers |-> 1]
    /\ roAsked = [c \in RoCallers |-> 0]
    /\ roEarly = FALSE

RoTick ==
    /\ roNow < RoMaxTime
    /\ roNow' = roNow + 1
    /\ UNCHANGED <<roLink, roQueues, roDelay, roAt, roUse, roTry, roAsked, roEarly>>

Goes(c, from, to) == roAt[c] = from /\ roAt' = [roAt EXCEPT ![c] = to]

\* The first command on a connection: in line for the channel.
Queue(c, conn) ==
    /\ roUse' = [roUse EXCEPT ![c] = conn]
    /\ roTry' = [roTry EXCEPT ![c] = 1]
    /\ roSem' = Append(roSem, c)

\* run, _get_conn: a connection there is used as it is.
CallConnected(c) ==
    /\ Goes(c, "idle", "channel")
    /\ roConn # RoNone
    /\ Queue(c, roConn)
    /\ UNCHANGED <<roNow, roLink, roLock, roDelay, roAsked, roEarly>>

\* Without one, and with the delay over, the caller waits for the lock.  (Before that
\* it gets its error at once, and nothing changes.)
CallUnconnected(c) ==
    /\ Goes(c, "idle", "lock")
    /\ roConn = RoNone
    /\ roNow >= roBlock
    /\ roAsked' = [roAsked EXCEPT ![c] = roNow]
    /\ roLock' = Append(roLock, c)
    /\ UNCHANGED <<roNow, roLink, roSem, roDelay, roUse, roTry, roEarly>>

HoldsLock(c) == roLock # <<>> /\ Head(roLock) = c

\* Slip: whether another has connected in the meantime is not asked again.
GotLockBlind(c) ==
    /\ HoldsLock(c)
    /\ Goes(c, "lock", "connecting")
    /\ roEarly' = (roEarly \/ roNow < roBlock)
    /\ UNCHANGED <<roNow, roLink, roQueues, roDelay, roUse, roTry, roAsked>>

\* Another may have connected in the meantime; the delay is not looked at again.
GotLock(c) ==
    /\ HoldsLock(c)
    /\ \/ /\ roConn = RoNone
          /\ Goes(c, "lock", "connecting")
          /\ roEarly' = (roEarly \/ roNow < roBlock)
          /\ UNCHANGED <<roQueues, roUse, roTry>>
       \/ /\ roConn # RoNone
          /\ Goes(c, "lock", "channel")
          /\ roLock' = Tail(roLock)
          /\ Queue(c, roConn)
          /\ UNCHANGED roEarly
    /\ UNCHANGED <<roNow, roLink, roDelay, roAsked>>

Unused == RoConns \ (roOpen \cup {roConn} \cup {roUse[c] : c \in RoCallers})

ConnectSucceeds(c) ==
    /\ Goes(c, "connecting", "channel")
    /\ LET new == CHOOSE k \in Unused : TRUE IN
        /\ roConn' = new
        /\ roOpen' = roOpen \cup {new}
        /\ Queue(c, new)
    /\ roLock' = Tail(roLock)
    /\ roFails' = 0
    /\ roBlock' = 0
    /\ UNCHANGED <<roNow, roAsked, roEarly>>

DelayAfter(fails) ==
    LET delay == RoBase * 2 ^ (fails - 1) IN IF delay < RoTop THEN delay ELSE RoTop

\* The count is kept where the delay stops growing: the model tells no more apart.
CountFail == IF DelayAfter(roFails + 1) = RoTop /\ roFails > 0 THEN roFails ELSE roFails + 1

\* Slip: the lock is not given back when the connection fails.
ConnectFailsHolding(c) ==
    /\ Goes(c, "connecting", "idle")
    /\ roFails' = CountFail
    /\ roBlock' = roAsked[c] + DelayAfter(roFails + 1)
    /\ UNCHANGED <<roNow, roLink, roQueues, roUse, roTry, roAsked, roEarly>>

\* The delay runs from when the caller asked, not from when the attempt failed.
ConnectFails(c) ==
    /\ Goes(c, "connecting", "idle")
    /\ roLock' = Tail(roLock)
    /\ roFails' = CountFail
    /\ roBlock' = roAsked[c] + DelayAfter(roFails + 1)
    /\ UNCHANGED <<roNow, roLink, roSem, roUse, roTry, roAsked, roEarly>>

-----------------------------------------------------------------------------
HoldsChannel(c) == roSem # <<>> /\ Head(roSem) = c

StartCommand(c) ==
    /\ HoldsChannel(c)
    /\ Goes(c, "channel", "running")
    /\ UNCHANGED <<roNow, roLink, roQueues, roDelay, roUse, roTry, roAsked, roEarly>>

\* A caller that has its answer holds no connection any more.
Forget(c) ==
    /\ roUse' = [roUse EXCEPT ![c] = RoNone]
    /\ roTry' = [roTry EXCEPT ![c] = 1]

CommandDone(c) ==
    /\ Goes(c, "running", "idle")
    /\ roUse[c] \in roOpen
    /\ roSem' = Tail(roSem)
    /\ Forget(c)
    /\ UNCHANGED <<roNow, roLink, roLock, roDelay, roAsked, roEarly>>

\* _reset_conn: it closes whatever connection is current, which may be another than the
\* one that failed.
ResetConn ==
    /\ roConn' = RoNone
    /\ roOpen' = roOpen \ {roConn}

\* The command does not end in time, or fails a second time: dropped connection, router
\* out of channels, connection closed by another caller.
CommandGivenUp(c) ==
    /\ Goes(c, "running", "idle")
    /\ roSem' = Tail(roSem)
    /\ ResetConn
    /\ Forget(c)
    /\ UNCHANGED <<roNow, roLock, roDelay, roAsked, roEarly>>

CommandFailsOnce(c) ==
    /\ roTry[c] = 1
    /\ Goes(c, "running", "pause")
    /\ roSem' = Tail(roSem)
    /\ UNCHANGED <<roNow, roLink, roLock, roDelay, roUse, roTry, roAsked, roEarly>>

\* The second attempt is on the same connection, whatever became of it.
TryAgain(c) ==
    /\ Goes(c, "pause", "channel")
    /\ roTry' = [roTry EXCEPT ![c] = 2]
    /\ roSem' = Append(roSem, c)
    /\ UNCHANGED <<roNow, roLink, roLock, roDelay, roUse, roAsked, roEarly>>

\* The router, or the network, closes the connection; the client does not know yet.
ConnDrops ==
    /\ roConn \in roOpen
    /\ roOpen' = roOpen \ {roConn}
    /\ UNCHANGED <<roNow, roConn, roQueues, roDelay, roAt, roUse, roTry, roAsked, roEarly>>

-----------------------------------------------------------------------------
\* What a caller does once it has called: everything here ends, well or badly.
CallerStep(c) ==
    \/ GotLock(c) \/ ConnectSucceeds(c) \/ ConnectFails(c)
    \/ StartCommand(c) \/ CommandDone(c) \/ CommandGivenUp(c) \/ CommandFailsOnce(c)
    \/ TryAgain(c)

RoNext ==
    \/ RoTick
    \/ ConnDrops
    \/ \E c \in RoCallers : CallConnected(c) \/ CallUnconnected(c) \/ CallerStep(c)

(***************************************************************************)
(* A connection attempt and a command end: asyncssh has its own timeout    *)
(* for the first and run() gives the second up.                            *)
(***************************************************************************)
RoFairness == \A c \in RoCallers : WF_roVars(CallerStep(c))

RoSpec == RoInit /\ [][RoNext]_roVars

-----------------------------------------------------------------------------
RoTypeOK ==
    /\ roNow \in 0 .. RoMaxTime
    /\ roConn \in RoConns \cup {RoNone}
    /\ roOpen \subseteq RoConns
    /\ roBlock \in 0 .. RoMaxTime + RoTop
    /\ roFails \in Nat
    /\ roAt \in [RoCallers -> {"idle", "lock", "connecting", "channel", "running", "pause"}]
    /\ roUse \in [RoCallers -> RoConns \cup {RoNone}]
    /\ roTry \in [RoCallers -> {1, 2}]
    /\ \A c \in RoCallers :
        /\ roAt[c] \in {"lock", "connecting"} <=> c \in ToSet(roLock)
        /\ roAt[c] \in {"channel", "running"} <=> c \in ToSet(roSem)

\* However many callers find the connection missing, fail and drop it in whatever order,
\* the router has one connection of ours at most, and it is the one the next caller
\* will use: none is left open behind.  (_get_conn and _reset_conn; "riusando una
\* singola connessione".)
OneConnection == roOpen \subseteq {roConn}

\* Every call gets an answer, whoever else fails, times out or drops the connection.
\* (run: "Non solleva: degrada con ('', errore)"; the lock and the semaphore are given
\* back on every path.)
RunAnswers == \A c \in RoCallers : roAt[c] # "idle" ~> roAt[c] = "idle"

\* What the comment on the delay says: after a failure the router is left alone until
\* the delay is over ("non devono causare flood di tentativi").
BackoffKept == ~ roEarly
=============================================================================
