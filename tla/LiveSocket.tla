----------------------------- MODULE LiveSocket -----------------------------
(***************************************************************************)
(* The live WebSocket of the pages (backend/main.py, ConnectionManager and *)
(* websocket_endpoint): the list of the clients, the broadcasts that the   *)
(* fast loop, the scanner and the manual refresh send over it, and the     *)
(* handler of each client.                                                 *)
(*                                                                         *)
(* Everything runs on one event loop: an action is the code between two    *)
(* awaits.  The snapshot is one dictionary that every message is made from *)
(* at the moment it is sent: a message is the number of the changes it     *)
(* shows.  Refused connections change nothing and are left out.            *)
(***************************************************************************)
EXTENDS Integers, SequencesExt, Subsequences

CONSTANTS
    LwClients,    \* browsers
    LwSenders,    \* who broadcasts: the fast loop, a scan, a refresh
    LwLoop,       \* the fast loop, one of LwSenders
    LwNobody,     \* no client
    LwMaxChange   \* bound on the changes of the snapshot

ASSUME LwLoopSends == LwLoop \in LwSenders

VARIABLES
    lwChange,   \* the snapshot: how many changes it holds
    lwActive,   \* manager.active
    lwAt,       \* the handler of each client: "out" or "receive"
    lwLeft,     \* the browser has left and the handler does not know yet
    lwGot,      \* the change the last message to each client showed
    lwIndex,    \* where the iteration of each broadcast is, 0 when there is none
    lwTo,       \* the client it is sending to
    lwDead,     \* its `dead`
    lwOwed,     \* history: who was there when it began
    lwSince,    \* history: the snapshot when it began
    lwShifted,  \* history: the list lost a client since
    lwMissed    \* history: a broadcast ended that had left somebody out

lwHandlers == <<lwAt, lwLeft>>
lwSending == <<lwIndex, lwTo, lwDead>>
lwHistory == <<lwOwed, lwSince, lwShifted>>
lwVars == <<lwChange, lwActive, lwHandlers, lwGot, lwSending, lwHistory, lwMissed>>

-----------------------------------------------------------------------------
\* The browser is at the other end.
Here(w) == lwAt[w] = "receive" /\ ~ lwLeft[w]

LwInit ==
    /\ lwChange = 1
    /\ lwActive = <<>>
    /\ lwAt = [w \in LwClients |-> "out"]
    /\ lwLeft = [w \in LwClients |-> FALSE]
    /\ lwGot = [w \in LwClients |-> 0]
    /\ lwIndex = [b \in LwSenders |-> 0]
    /\ lwTo = [b \in LwSenders |-> LwNobody]
    /\ lwDead = [b \in LwSenders |-> {}]
    /\ lwOwed = [b \in LwSenders |-> {}]
    /\ lwSince = [b \in LwSenders |-> 0]
    /\ lwShifted = [b \in LwSenders |-> FALSE]
    /\ lwMissed = FALSE

\* A round of the collector, a scan or an edit changes the snapshot.
Change ==
    /\ lwChange < LwMaxChange
    /\ lwChange' = lwChange + 1
    /\ UNCHANGED <<lwActive, lwHandlers, lwGot, lwSending, lwHistory, lwMissed>>

\* connect, then the snapshot as it is now.
Connect(w) ==
    /\ lwAt[w] = "out" /\ lwGot[w] = 0
    /\ lwAt' = [lwAt EXCEPT ![w] = "receive"]
    /\ lwActive' = Append(lwActive, w)
    /\ lwGot' = [lwGot EXCEPT ![w] = lwChange]
    /\ UNCHANGED <<lwChange, lwLeft, lwSending, lwHistory, lwMissed>>

PageLeaves(w) ==
    /\ lwAt[w] = "receive" /\ ~ lwLeft[w]
    /\ lwLeft' = [lwLeft EXCEPT ![w] = TRUE]
    /\ UNCHANGED <<lwChange, lwActive, lwAt, lwGot, lwSending, lwHistory, lwMissed>>

\* disconnect of some clients, which moves what comes after them in the list.
Disconnect(gone) ==
    lwActive' = Picked(lwActive, {i \in DOMAIN lwActive : lwActive[i] \notin gone})

\* They were in the list, and a broadcast is going over it.
Shortens(b, gone) == lwIndex[b] # 0 /\ gone \cap ToSet(lwActive) # {}

\* The handler finds out, whatever it was doing, and its `finally` takes the client out.
HandlerReturns(w) ==
    /\ lwAt[w] = "receive" /\ lwLeft[w]
    /\ lwAt' = [lwAt EXCEPT ![w] = "out"]
    /\ Disconnect({w})
    /\ lwShifted' = [b \in LwSenders |-> lwShifted[b] \/ Shortens(b, {w})]
    /\ UNCHANGED <<lwChange, lwLeft, lwGot, lwSending, lwOwed, lwSince, lwMissed>>

-----------------------------------------------------------------------------
\* The iteration comes to a place of the list: a message leaves for the client that is
\* there now.
SendTo(b, i) ==
    /\ lwIndex' = [lwIndex EXCEPT ![b] = i]
    /\ lwTo' = [lwTo EXCEPT ![b] = lwActive[i]]
    /\ lwGot' = IF lwLeft[lwActive[i]] THEN lwGot
                ELSE [lwGot EXCEPT ![lwActive[i]] = lwChange]

StartBroadcast(b) ==
    /\ lwIndex[b] = 0
    /\ lwActive # <<>>
    /\ SendTo(b, 1)
    /\ lwDead' = [lwDead EXCEPT ![b] = {}]
    /\ lwOwed' = [lwOwed EXCEPT ![b] = ToSet(lwActive)]
    /\ lwSince' = [lwSince EXCEPT ![b] = lwChange]
    /\ UNCHANGED <<lwChange, lwActive, lwHandlers, lwShifted, lwMissed>>

\* A send to a client that has left may raise.
Fallen(b) ==
    IF lwTo[b] # LwNobody /\ lwLeft[lwTo[b]]
    THEN {lwDead[b], lwDead[b] \cup {lwTo[b]}}
    ELSE {lwDead[b]}

\* History: a broadcast that ends here leaves out somebody who was there all along.
LeftOut(b) ==
    /\ ~ lwShifted[b]
    /\ \E w \in lwOwed[b] : Here(w) /\ lwGot[w] < lwSince[b]

\* Slip: a client is taken out of the list as soon as a send to it raises.
NextSendRemoving(b) ==
    \E dead \in Fallen(b) :
        /\ lwIndex[b] # 0
        /\ lwIndex[b] < Len(lwActive)
        /\ Disconnect(dead)
        /\ IF lwIndex[b] < Len(lwActive')
           THEN /\ lwIndex' = [lwIndex EXCEPT ![b] = @ + 1]
                /\ lwTo' = [lwTo EXCEPT ![b] = lwActive'[lwIndex[b] + 1]]
                /\ lwGot' = [lwGot EXCEPT ![lwActive'[lwIndex[b] + 1]] = lwChange]
                /\ UNCHANGED lwMissed
           ELSE /\ lwIndex' = [lwIndex EXCEPT ![b] = 0]
                /\ lwMissed' = (lwMissed \/ LeftOut(b))
                /\ UNCHANGED <<lwTo, lwGot>>
        /\ lwShifted' = [x \in LwSenders |-> lwShifted[x] \/ (x # b /\ Shortens(x, dead))]
        /\ lwDead' = [lwDead EXCEPT ![b] = {}]
        /\ UNCHANGED <<lwChange, lwHandlers, lwOwed, lwSince>>

\* Slip: the first send that raises ends the broadcast.
NextSendStopping(b) ==
    \E dead \in Fallen(b) :
        /\ lwIndex[b] # 0
        /\ lwIndex[b] < Len(lwActive)
        /\ IF dead = {}
           THEN SendTo(b, lwIndex[b] + 1)
           ELSE /\ lwIndex' = [lwIndex EXCEPT ![b] = 0]
                /\ lwTo' = [lwTo EXCEPT ![b] = LwNobody]
                /\ UNCHANGED lwGot
        /\ UNCHANGED <<lwChange, lwActive, lwHandlers, lwDead, lwHistory, lwMissed>>

\* A send is over, and there is a next place in the list.
NextSend(b) ==
    \E dead \in Fallen(b) :
        /\ lwIndex[b] # 0
        /\ lwIndex[b] < Len(lwActive)
        /\ SendTo(b, lwIndex[b] + 1)
        /\ lwDead' = [lwDead EXCEPT ![b] = dead]
        /\ UNCHANGED <<lwChange, lwActive, lwHandlers, lwHistory, lwMissed>>

\* The end of the list: the clients that fell go.
EndBroadcast(b) ==
    \E dead \in Fallen(b) :
        /\ lwIndex[b] # 0
        /\ lwIndex[b] >= Len(lwActive)
        /\ Disconnect(dead)
        /\ lwIndex' = [lwIndex EXCEPT ![b] = 0]
        /\ lwTo' = [lwTo EXCEPT ![b] = LwNobody]
        /\ lwDead' = [lwDead EXCEPT ![b] = {}]
        /\ lwMissed' = (lwMissed \/ LeftOut(b))
        /\ lwOwed' = [lwOwed EXCEPT ![b] = {}]
        /\ lwSince' = [lwSince EXCEPT ![b] = 0]
        /\ lwShifted' = [x \in LwSenders |-> x # b /\ (lwShifted[x] \/ Shortens(x, dead))]
        /\ UNCHANGED <<lwChange, lwHandlers, lwGot>>

LwNext ==
    \/ Change
    \/ \E w \in LwClients : Connect(w) \/ PageLeaves(w) \/ HandlerReturns(w)
    \/ \E b \in LwSenders : StartBroadcast(b) \/ NextSend(b) \/ EndBroadcast(b)

(***************************************************************************)
(* A send returns or raises (the server closes a socket that does not      *)
(* answer its pings), and the fast loop broadcasts at every round.         *)
(***************************************************************************)
LwFairness ==
    /\ WF_lwVars(StartBroadcast(LwLoop))
    /\ \A b \in LwSenders : WF_lwVars(NextSend(b) \/ EndBroadcast(b))

LwSpec == LwInit /\ [][LwNext]_lwVars

-----------------------------------------------------------------------------
\* In particular who is here is in the list, once, and who is in the list has a handler.
LwTypeOK ==
    /\ lwChange \in 1 .. LwMaxChange
    /\ lwActive \in Seq(LwClients)
    /\ lwAt \in [LwClients -> {"out", "receive"}]
    /\ lwLeft \in [LwClients -> BOOLEAN]
    /\ lwGot \in [LwClients -> 0 .. LwMaxChange]
    /\ lwIndex \in [LwSenders -> Nat]
    /\ lwTo \in [LwSenders -> LwClients \cup {LwNobody}]
    /\ lwDead \in [LwSenders -> SUBSET LwClients]
    /\ \A w \in LwClients : Here(w) => w \in ToSet(lwActive)
    /\ \A w \in ToSet(lwActive) : lwAt[w] = "receive"
    /\ IsInjective(lwActive)

\* A broadcast reaches everybody: when it ends, each client that was there from its
\* beginning has what the snapshot held then or something newer, unless the list was
\* shortened under it.  (broadcast takes out the fallen clients after the loop; two
\* broadcasts may be under way.)
UpdateReachesAll == ~ lwMissed

\* A page that stays connected is brought up to date, even when a broadcast skips it
\* because another page left in the middle.
PageCatchesUp ==
    \A w \in LwClients : \A n \in 1 .. LwMaxChange :
        Here(w) /\ lwChange >= n ~> ~ Here(w) \/ lwGot[w] >= n
=============================================================================
