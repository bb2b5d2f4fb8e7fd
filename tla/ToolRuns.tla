------------------------------ MODULE ToolRuns ------------------------------
(***************************************************************************)
(* The network tools one client runs (backend/routers/tools.py and         *)
(* backend/services/nettools.py): the sliding window that limits them      *)
(* (backend/services/ratelimit.py), the check of the target, during which  *)
(* the request awaits the DNS, and the process each command runs in, whose *)
(* output is answered at the end or streamed while it comes.               *)
(*                                                                         *)
(* Everything runs on one event loop: an action is the code between two    *)
(* awaits.  Each name of TlRequests is one request.  The tools written in  *)
(* Python, which start no process, are left out, and so is the output.     *)
(***************************************************************************)
EXTENDS Integers, SequencesExt, Subsequences

CONSTANTS
    TlRequests,  \* requests of one client
    TlStreams,   \* those that ask for /stream
    TlMax,       \* max_hits
    TlWindow,    \* window_seconds
    TlMaxTime    \* bound on the clock

ASSUME TlStreamsOfRequests == TlStreams \subseteq TlRequests
ASSUME RequestsFinite == IsFiniteSet(TlRequests)
ASSUME QuotaNat == TlMax \in Nat /\ TlWindow \in Nat /\ TlMaxTime \in Nat

VARIABLES
    tlNow,   \* the clock
    tlHits,  \* _hits of the client
    tlAt,    \* what each request awaits
    tlProc,  \* its process is running
    tlTime,  \* history: when it was counted
    tlMixed  \* history: a refund gave back the hit of another request

tlVars == <<tlNow, tlHits, tlAt, tlProc, tlTime, tlMixed>>

-----------------------------------------------------------------------------
TlInit ==
    /\ tlNow = 0
    /\ tlHits = <<>>
    /\ tlAt = [r \in TlRequests |-> "out"]
    /\ tlProc = [r \in TlRequests |-> FALSE]
    /\ tlTime = [r \in TlRequests |-> 0]
    /\ tlMixed = FALSE

TlTick ==
    /\ tlNow < TlMaxTime
    /\ tlNow' = tlNow + 1
    /\ UNCHANGED <<tlHits, tlAt, tlProc, tlTime, tlMixed>>

ToolGoes(r, from, to) == tlAt[r] = from /\ tlAt' = [tlAt EXCEPT ![r] = to]

\* Slip: the hits are dropped together, a window after the first of them.
RecentTogether ==
    IF tlHits # <<>> /\ tlNow - Head(tlHits) >= TlWindow THEN <<>> ELSE tlHits

\* _recent.
Recent == Picked(tlHits, {i \in DOMAIN tlHits : tlNow - tlHits[i] < TlWindow})

\* allowed and hit, with no await in between.
Ask(r) ==
    /\ Len(Recent) < TlMax
    /\ ToolGoes(r, "out", "checking")
    /\ tlHits' = Append(Recent, tlNow)
    /\ tlTime' = [tlTime EXCEPT ![r] = tlNow]
    /\ UNCHANGED <<tlNow, tlProc, tlMixed>>

\* 429: the hits that are over are forgotten.
TooMany(r) ==
    /\ tlAt[r] = "out"
    /\ Len(Recent) >= TlMax
    /\ tlHits' = Recent
    /\ UNCHANGED <<tlNow, tlAt, tlProc, tlTime, tlMixed>>

\* refund: it takes the last hit, whoever it was for.
Refund(r) ==
    /\ tlHits' = IF tlHits = <<>> THEN tlHits ELSE Front(tlHits)
    /\ tlMixed' = (tlMixed \/ (tlHits # <<>> /\ Last(tlHits) # tlTime[r]))

\* ToolError: the target is not allowed, or the program is not installed.
Refused(r) ==
    /\ ToolGoes(r, "checking", "refused")
    /\ Refund(r)
    /\ UNCHANGED <<tlNow, tlProc, tlTime>>

\* The process is there; a stream has its first event, and no body yet.
Spawned(r) ==
    /\ ToolGoes(r, "checking", IF r \in TlStreams THEN "started" ELSE "reading")
    /\ tlProc' = [tlProc EXCEPT ![r] = TRUE]
    /\ UNCHANGED <<tlNow, tlHits, tlTime, tlMixed>>

BodyBegins(r) ==
    /\ ToolGoes(r, "started", "reading")
    /\ UNCHANGED <<tlNow, tlHits, tlProc, tlTime, tlMixed>>

Ended(r) ==
    /\ tlProc' = [tlProc EXCEPT ![r] = FALSE]
    /\ UNCHANGED <<tlNow, tlHits, tlTime, tlMixed>>

\* Slip: the `try` begins after the first event.
ClosedAtStartRunning(r) ==
    /\ ToolGoes(r, "started", "done")
    /\ UNCHANGED <<tlNow, tlHits, tlProc, tlTime, tlMixed>>

\* The page has left before the body: the generator is closed on its first event, and its
\* `finally` kills the process.
ClosedAtStart(r) == ToolGoes(r, "started", "done") /\ Ended(r)

\* The process is over; or the page of a stream has left, or the output is too long, and
\* it is killed.
RunEnds(r) == ToolGoes(r, "reading", "done") /\ Ended(r)

\* The time of the command is over.
RunExpires(r) == ToolGoes(r, "reading", "done") /\ Ended(r)

TlNext ==
    \/ TlTick
    \/ \E r \in TlRequests :
        \/ Ask(r) \/ TooMany(r) \/ Refused(r) \/ Spawned(r)
        \/ BodyBegins(r) \/ ClosedAtStart(r) \/ RunEnds(r) \/ RunExpires(r)

(***************************************************************************)
(* The server gives a response its body or closes it, and timers expire.   *)
(* Nothing is assumed of the process nor of the page.                      *)
(***************************************************************************)
TlFairness ==
    \A r \in TlRequests :
        WF_tlVars(BodyBegins(r) \/ ClosedAtStart(r)) /\ WF_tlVars(RunExpires(r))

TlSpec == TlInit /\ [][TlNext]_tlVars

-----------------------------------------------------------------------------
TlTypeOK ==
    /\ tlNow \in 0 .. TlMaxTime
    /\ tlHits \in Seq(0 .. TlMaxTime)
    /\ tlAt \in [TlRequests ->
                    {"out", "checking", "refused", "started", "reading", "done"}]
    /\ tlProc \in [TlRequests -> BOOLEAN]
    /\ tlTime \in [TlRequests -> 0 .. TlMaxTime]

\* The requests that reached the network, or are about to.
LetThrough == {r \in TlRequests : tlAt[r] \notin {"out", "refused"}}

\* However many requests await the check of their target together, no window of time
\* holds more of those let through than the limit; unless one that was refused gave back
\* the hit of another, which counts from then on with the time of the first.
WindowKept ==
    tlMixed \/ \A t \in 0 .. tlNow :
        Cardinality({r \in LetThrough : t - TlWindow < tlTime[r] /\ tlTime[r] <= t}) <= TlMax

\* No command goes on for ever, whatever its output, and whenever the page leaves.
\* ("un nmap continuerebbe a girare per tre minuti per nessuno".)
CommandsEnd == \A r \in TlRequests : tlProc[r] ~> ~ tlProc[r]
=============================================================================
