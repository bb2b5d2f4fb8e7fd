------------------------------ MODULE LineLife ------------------------------
(***************************************************************************)
(* What the archive of the backend's log promises of each line: once       *)
(* logged it is pending until it is archived or lost, and it stays so.     *)
(* There is no way back from the archive, and none into it for a line that *)
(* was given up.                                                           *)
(***************************************************************************)
EXTENDS Integers

CONSTANT MaxLines  \* bound on the lines logged

Lines == 1 .. MaxLines

VARIABLE fate

Fates == {"unborn", "pending", "archived", "lost"}

Init == fate = [l \in Lines |-> "unborn"]

\* The fates a line may have next.
After(f) == CASE f = "unborn"   -> {"unborn", "pending"}
              [] f = "pending"  -> {"pending", "archived", "lost"}
              [] f = "archived" -> {"archived"}
              [] f = "lost"     -> {"lost"}

Next == fate' \in [Lines -> Fates] /\ \A l \in Lines : fate'[l] \in After(fate[l])

Settled == \A l \in Lines : fate[l] = "pending" ~> fate[l] \in {"archived", "lost"}

Spec == Init /\ [][Next]_fate /\ Settled

=============================================================================
