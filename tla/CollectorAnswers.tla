--------------------------- MODULE CollectorAnswers ---------------------------
(***************************************************************************)
(* What POST /api/services/refresh answers with.  The collector of         *)
(* Collector, observed: how the overview on display compares in age with   *)
(* each refresh that has not answered yet.  The three variables added here *)
(* are history variables: they record the past and constrain no step.      *)
(***************************************************************************)
EXTENDS Collector

VARIABLES
    after,    \* for each round that is building: the refreshes that had begun when it read the catalogue
    current,  \* refreshes younger than the reading behind the overview on display
    failed    \* refreshes whose own build raised

ghosts == <<after, current, failed>>

Alive == {r \in Requests : stage[r] # "off"}

Moves(p, from, to) == stage[p] = from /\ stage'[p] = to

Observe ==
    /\ after' = [p \in Actors |->
                    CASE Moves(p, "docker", "services") -> Alive
                      [] Moves(p, "services", "services") -> after[p] \cap Alive'
                      [] OTHER -> {}]
    /\ current' = LET publishing == {p \in Actors : Moves(p, "services", "history")}
                  IN  Alive' \cap IF publishing = {} THEN current
                                  ELSE UNION {after[p] : p \in publishing}
    /\ failed' = {r \in Alive' : r \in failed \/ Moves(r, "services", "resources")}

AInit ==
    /\ Init
    /\ after = [p \in Actors |-> {}]
    /\ current = {}
    /\ failed = {}

ANext == Next /\ Observe

ASpec == AInit /\ [][ANext]_<<vars, ghosts>>

AFairSpec == ASpec /\ Fairness

-----------------------------------------------------------------------------
\* A refresh answers with an overview read after it was asked for, even when the
\* loop starts a slow round in the middle of it and the two overwrite each
\* other; unless its own build raised.  It is the "busy" answer of
\* refresh_monitor that keeps out the rounds that had read before.
AnswersFresh ==
    [][\A r \in Requests :
          Moves(r, "send", "off") => r \in current \cup failed]_<<vars, ghosts>>

=============================================================================
