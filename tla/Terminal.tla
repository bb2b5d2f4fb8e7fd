------------------------------ MODULE Terminal ------------------------------
(***************************************************************************)
(* SSH sessions in the browser: the handler of one WebSocket               *)
(* (backend/routers/terminal.py, terminal_ws), its TerminalSession and the *)
(* two tasks of that session (backend/services/terminal.py), and the       *)
(* counter of open sessions that all the WebSockets share.                 *)
(*                                                                         *)
(* Everything runs on one event loop: an action is the code between two    *)
(* awaits.  Cancelling a task, which close() does, stops it for good: it   *)
(* runs no other line of its own.  What is typed and printed is left out,  *)
(* with the audit of the commands; so is the time of the last activity,    *)
(* the watchdog may find the session idle whenever it wakes up.            *)
(***************************************************************************)
EXTENDS Integers, FiniteSets

CONSTANTS
    Sockets,     \* WebSockets open at the same time
    MaxSessions  \* terminal.max_sessions

ASSUME SocketsFinite == IsFiniteSet(Sockets)
ASSUME MaxSessionsNat == MaxSessions \in Nat

VARIABLES
    active,   \* _active
    at,       \* what the handler awaits; "out" when there is no WebSocket
    gone,     \* the browser has left, and of what it sent nothing is left to read
    session,  \* the handler has a TerminalSession
    conn,     \* session._conn is set
    proc,     \* session._proc is set
    closed,   \* session._closed
    pump,     \* where _pump_output is suspended; "none" when it does not run
    dog,      \* where _idle_watchdog is suspended
    begun,    \* history: lines "terminal.aperta" in the audit, of this WebSocket
    ended     \* history: lines "terminal.chiusa"

vars == <<active, at, gone, session, conn, proc, closed, pump, dog, begun, ended>>
shellVars == <<conn, proc, closed, pump, dog>>
auditVars == <<begun, ended>>

-----------------------------------------------------------------------------
Less(k) == IF k > 0 THEN k - 1 ELSE 0

Init ==
    /\ active = 0
    /\ at = [w \in Sockets |-> "out"]
    /\ gone = [w \in Sockets |-> FALSE]
    /\ session = [w \in Sockets |-> FALSE]
    /\ conn = [w \in Sockets |-> FALSE]
    /\ proc = [w \in Sockets |-> FALSE]
    /\ closed = [w \in Sockets |-> FALSE]
    /\ pump = [w \in Sockets |-> "none"]
    /\ dog = [w \in Sockets |-> "none"]
    /\ begun = [w \in Sockets |-> 0]
    /\ ended = [w \in Sockets |-> 0]

HandlerGoes(w, from, to) == at[w] = from /\ at' = [at EXCEPT ![w] = to]

\* Definitions marked "Slip" are bugs the code could have had, kept to show that
\* a property would notice them; no specification uses them.

\* Slip: whether another has closed the session already is not asked.
CloseAgain(w) ==
    /\ closed' = [closed EXCEPT ![w] = TRUE]
    /\ pump' = [pump EXCEPT ![w] = "none"]
    /\ dog' = [dog EXCEPT ![w] = "none"]
    /\ proc' = [proc EXCEPT ![w] = FALSE]
    /\ active' = IF proc[w] THEN Less(active) ELSE active
    /\ conn' = [conn EXCEPT ![w] = FALSE]
    /\ ended' = [ended EXCEPT ![w] = @ + 1]
    /\ UNCHANGED begun

\* Slip: the tasks of the session are left running.
CloseWithoutCancel(w) ==
    IF closed[w]
    THEN UNCHANGED <<active, shellVars, auditVars>>
    ELSE /\ closed' = [closed EXCEPT ![w] = TRUE]
         /\ proc' = [proc EXCEPT ![w] = FALSE]
         /\ active' = IF proc[w] THEN Less(active) ELSE active
         /\ conn' = [conn EXCEPT ![w] = FALSE]
         /\ ended' = [ended EXCEPT ![w] = @ + 1]
         /\ UNCHANGED <<pump, dog, begun>>

\* TerminalSession.close: the pump, the watchdog and the handler all call it.
Close(w) ==
    IF closed[w]
    THEN UNCHANGED <<active, shellVars, auditVars>>
    ELSE /\ closed' = [closed EXCEPT ![w] = TRUE]
         /\ pump' = [pump EXCEPT ![w] = "none"]
         /\ dog' = [dog EXCEPT ![w] = "none"]
         /\ proc' = [proc EXCEPT ![w] = FALSE]
         /\ active' = IF proc[w] THEN Less(active) ELSE active
         /\ conn' = [conn EXCEPT ![w] = FALSE]
         /\ ended' = [ended EXCEPT ![w] = @ + 1]
         /\ UNCHANGED begun

-----------------------------------------------------------------------------
(***************************************************************************)
(* terminal_ws.                                                            *)
(***************************************************************************)

\* A browser with a valid session connects.
Accept(w) ==
    /\ HandlerGoes(w, "out", "receive")
    /\ UNCHANGED <<active, gone, session, shellVars, auditVars>>

\* The browser goes away; the handler finds out when it reads, and what is sent to
\* the browser in the meantime is dropped.
BrowserLeaves(w) ==
    /\ at[w] # "out" /\ ~gone[w]
    /\ gone' = [gone EXCEPT ![w] = TRUE]
    /\ UNCHANGED <<active, at, session, shellVars, auditVars>>

\* A message asks for what is refused: a second session, a host that is not in
\* the list, a session beyond the limit.
OpenRefused(w) ==
    /\ HandlerGoes(w, "receive", "reply")
    /\ ~gone[w]
    /\ UNCHANGED <<active, gone, session, shellVars, auditVars>>

\* Slip: one session more than the limit.
OpenStartsAtLimit(w) ==
    /\ HandlerGoes(w, "receive", "connect")
    /\ ~gone[w]
    /\ ~session[w]
    /\ active <= MaxSessions
    /\ active' = active + 1
    /\ session' = [session EXCEPT ![w] = TRUE]
    /\ closed' = [closed EXCEPT ![w] = FALSE]
    /\ UNCHANGED <<gone, conn, proc, pump, dog, auditVars>>

\* Slip: the handshake does not count.
OpenStartsUncounted(w) ==
    /\ HandlerGoes(w, "receive", "connect")
    /\ ~gone[w]
    /\ ~session[w]
    /\ active < MaxSessions
    /\ session' = [session EXCEPT ![w] = TRUE]
    /\ closed' = [closed EXCEPT ![w] = FALSE]
    /\ UNCHANGED <<active, gone, conn, proc, pump, dog, auditVars>>

\* open: the slot is taken before the SSH handshake begins.
OpenStarts(w) ==
    /\ HandlerGoes(w, "receive", "connect")
    /\ ~gone[w]
    /\ ~session[w]
    /\ active < MaxSessions
    /\ active' = active + 1
    /\ session' = [session EXCEPT ![w] = TRUE]
    /\ closed' = [closed EXCEPT ![w] = FALSE]
    /\ UNCHANGED <<gone, conn, proc, pump, dog, auditVars>>

Connected(w) ==
    /\ HandlerGoes(w, "connect", "shell")
    /\ conn' = [conn EXCEPT ![w] = TRUE]
    /\ UNCHANGED <<active, gone, session, proc, closed, pump, dog, auditVars>>

\* The shell is there: start the two tasks and tell the browser.
ShellStarted(w) ==
    /\ HandlerGoes(w, "shell", "reply")
    /\ proc' = [proc EXCEPT ![w] = TRUE]
    /\ pump' = [pump EXCEPT ![w] = "read"]
    /\ dog' = [dog EXCEPT ![w] = "sleep"]
    /\ begun' = [begun EXCEPT ![w] = @ + 1]
    /\ UNCHANGED <<active, gone, session, conn, closed, ended>>

\* The connection or the shell could not be had: give the slot back.
OpenFails(w) ==
    /\ HandlerGoes(w, "connect", "reply") \/ HandlerGoes(w, "shell", "reply")
    /\ active' = Less(active)
    /\ conn' = [conn EXCEPT ![w] = FALSE]
    /\ session' = [session EXCEPT ![w] = FALSE]
    /\ UNCHANGED <<gone, proc, closed, pump, dog, auditVars>>

Replied(w) ==
    /\ HandlerGoes(w, "reply", "receive")
    /\ UNCHANGED <<active, gone, session, shellVars, auditVars>>

\* Slip: the handler leaves the session to its tasks.
LeaveOpen(w) ==
    /\ HandlerGoes(w, "receive", "closing")
    /\ UNCHANGED <<active, gone, session, shellVars, auditVars>>

\* "close", a disconnection, a write to a shell that is no longer there: the
\* handler's finally.
Leave(w) ==
    /\ HandlerGoes(w, "receive", "closing")
    /\ IF session[w] THEN Close(w) ELSE UNCHANGED <<active, shellVars, auditVars>>
    /\ UNCHANGED <<gone, session>>

\* ws.close() has returned: the handler ends, and with it the session object.
\* Another WebSocket may take the place of this one.
HandlerEnds(w) ==
    /\ HandlerGoes(w, "closing", "out")
    /\ gone' = [gone EXCEPT ![w] = FALSE]
    /\ session' = [session EXCEPT ![w] = FALSE]
    /\ begun' = [begun EXCEPT ![w] = 0]
    /\ ended' = [ended EXCEPT ![w] = 0]
    /\ UNCHANGED <<active, shellVars>>

-----------------------------------------------------------------------------
(***************************************************************************)
(* _pump_output and _idle_watchdog.                                        *)
(***************************************************************************)

\* The shell has printed something, or has ended.
PumpReads(w) ==
    /\ pump[w] = "read"
    /\ \E next \in {"send", "announce"} : pump' = [pump EXCEPT ![w] = next]
    /\ UNCHANGED <<active, at, gone, session, conn, proc, closed, dog, auditVars>>

PumpSent(w) ==
    /\ pump[w] = "send"
    /\ pump' = [pump EXCEPT ![w] = IF proc[w] THEN "read" ELSE "announce"]
    /\ UNCHANGED <<active, at, gone, session, conn, proc, closed, dog, auditVars>>

\* The browser has been told that the shell has ended.
PumpCloses(w) ==
    /\ pump[w] = "announce"
    /\ Close(w)
    /\ UNCHANGED <<at, gone, session>>

\* The watchdog wakes up and finds that nothing has happened for too long.
DogWakes(w) ==
    /\ dog[w] = "sleep"
    /\ dog' = [dog EXCEPT ![w] = "announce"]
    /\ UNCHANGED <<active, at, gone, session, conn, proc, closed, pump, auditVars>>

DogCloses(w) ==
    /\ dog[w] = "announce"
    /\ Close(w)
    /\ UNCHANGED <<at, gone, session>>

-----------------------------------------------------------------------------
Open(w) == OpenStarts(w) \/ Connected(w) \/ ShellStarted(w) \/ OpenFails(w)

Handler(w) ==
    \/ Accept(w) \/ OpenRefused(w) \/ Open(w) \/ Replied(w)
    \/ Leave(w) \/ HandlerEnds(w)

Tasks(w) == PumpReads(w) \/ PumpSent(w) \/ PumpCloses(w) \/ DogWakes(w) \/ DogCloses(w)

Next == \E w \in Sockets : Handler(w) \/ BrowserLeaves(w) \/ Tasks(w)

Spec == Init /\ [][Next]_vars

(***************************************************************************)
(* Handshakes end: asyncssh.connect has a timeout; create_process has      *)
(* none, and the host is assumed to answer or to drop the connection.      *)
(* What is sent is delivered or dropped (uvicorn pings the WebSocket and   *)
(* drops one that does not answer).  A handler whose browser has gone      *)
(* fails to read.  Nothing is assumed of a browser that stays, of the      *)
(* shell, or of the idle time.                                             *)
(***************************************************************************)
Fairness ==
    \A w \in Sockets :
        /\ WF_vars(Connected(w) \/ ShellStarted(w) \/ OpenFails(w))
        /\ WF_vars(Replied(w))
        /\ WF_vars(gone[w] /\ Leave(w))
        /\ WF_vars(HandlerEnds(w))
        /\ WF_vars(PumpSent(w)) /\ WF_vars(PumpCloses(w)) /\ WF_vars(DogCloses(w))

-----------------------------------------------------------------------------
Stages == {"out", "receive", "connect", "shell", "reply", "closing"}

\* The state is well formed; the counter in particular stays within the limit.
TypeOK ==
    /\ active \in 0 .. MaxSessions
    /\ at \in [Sockets -> Stages]
    /\ gone \in [Sockets -> BOOLEAN]
    /\ session \in [Sockets -> BOOLEAN]
    /\ conn \in [Sockets -> BOOLEAN]
    /\ proc \in [Sockets -> BOOLEAN]
    /\ closed \in [Sockets -> BOOLEAN]
    /\ pump \in [Sockets -> {"none", "read", "send", "announce"}]
    /\ dog \in [Sockets -> {"none", "sleep", "announce"}]
    /\ begun \in [Sockets -> Nat]
    /\ ended \in [Sockets -> Nat]

\* A socket that occupies a slot: a handshake under way or a shell.
Occupied(w) == at[w] \in {"connect", "shell"} \/ proc[w]

Occupants == {w \in Sockets : Occupied(w)}

\* The counter is the number of slots occupied: none is lost, which would close
\* the terminal to everybody for good, and none is given back twice.
SlotsCounted == active = Cardinality(Occupants)

\* Never more handshakes and shells than terminal.max_sessions ("numero massimo di
\* sessioni contemporanee limitato"), although each handshake takes two awaits.
LimitKept == Cardinality(Occupants) <= MaxSessions

\* The audit has one line for the end of each session that has begun, whoever
\* ends it ("chiudono sia il pump sia il WebSocket: una riga sola").
OneClosingLine ==
    \A w \in Sockets :
        /\ ended[w] <= begun[w]
        /\ at[w] = "closing" => ended[w] = begun[w]

\* A session that is over has neither shell nor connection nor tasks: nothing
\* reads from a shell that nobody sees.
NothingLeftRunning ==
    \A w \in Sockets :
        ~session[w] \/ closed[w] =>
            ~proc[w] /\ ~conn[w] /\ pump[w] = "none" /\ dog[w] = "none"

\* However a session ends, its end is told once and leaves nothing running (close, _pump,
\* _watchdog and terminal_ws may all get to it).
ClosedCleanly == OneClosingLine /\ NothingLeftRunning

\* A browser that has gone frees its slot, whatever its session was doing; so does a
\* shell that has ended, or that is found idle, even if the browser stays.
SlotsFreed ==
    \A w \in Sockets :
        /\ gone[w] ~> ~Occupied(w)
        /\ pump[w] = "announce" \/ dog[w] = "announce" ~> ~Occupied(w)

=============================================================================
