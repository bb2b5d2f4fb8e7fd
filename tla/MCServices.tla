----------------------------- MODULE MCServices -----------------------------
(***************************************************************************)
(* The parts of the backend that serve pages and tasks beside the          *)
(* collector's rounds.  They share no state, so they are run one at a      *)
(* time: `serving` says which, and the states of the run are the sum of    *)
(* those of the parts and not their product.  A part that is not the one   *)
(* stays in its first state, where none of its fair steps is enabled.      *)
(***************************************************************************)
EXTENDS Terminal, LogArchive, RouterSsh, LiveSocket, ConfigStore, ToolRuns

CONSTANTS h1, h2, anon, mask, none

VARIABLE serving

servicesVars ==
    <<serving, vars, logVars, roVars, lwVars, cfVars, tlVars>>

\* What a page may send of the hosts h1 and h2: the other way round, with a secret taken
\* away, after a host without a name, with a new secret.
HostLists ==
    LET Item(h, s) == [id |-> h, secret |-> s] IN
    {<<Item(h2, mask), Item(h1, mask)>>, <<Item(h1, none), Item(h2, mask)>>,
     <<Item(anon, mask), Item(h1, mask)>>, <<Item(h2, h2)>>}

Template == [hosts |-> <<[id |-> h2, secret |-> none]>>, nets |-> 1]

Parts == {"terminal", "log", "router", "pages", "config", "tools"}

ServicesInit ==
    /\ serving \in Parts
    /\ Init /\ LogInit /\ RoInit /\ LwInit /\ CfInit /\ TlInit
    /\ serving # "config" => cfFile = CfNone

\* One part goes on and the others stay as they are.
Alone(part) ==
    /\ serving = part /\ UNCHANGED serving
    /\ part # "terminal" => UNCHANGED vars
    /\ part # "log" => UNCHANGED logVars
    /\ part # "router" => UNCHANGED roVars
    /\ part # "pages" => UNCHANGED lwVars
    /\ part # "config" => UNCHANGED cfVars
    /\ part # "tools" => UNCHANGED tlVars

ServicesNext ==
    \/ Alone("terminal") /\ Next
    \/ Alone("log") /\ LogNext
    \/ Alone("router") /\ RoNext
    \/ Alone("pages") /\ LwNext
    \/ Alone("config") /\ CfNext
    \/ Alone("tools") /\ TlNext

ServicesSpec ==
    /\ ServicesInit /\ [][ServicesNext]_servicesVars
    /\ Fairness /\ LogFairness /\ RoFairness /\ LwFairness /\ TlFairness

\* The type invariant of the part that goes on; the others are where they started.
ServicesTypeOK ==
    /\ serving = "terminal" => TypeOK
    /\ serving = "log" => LogTypeOK
    /\ serving = "router" => RoTypeOK
    /\ serving = "pages" => LwTypeOK
    /\ serving = "config" => CfTypeOK
    /\ serving = "tools" => TlTypeOK
=============================================================================
