------------------------- MODULE MCDeviceStoreRaces -------------------------
(***************************************************************************)
(* Instances of DeviceStoreRaces for TLC.                                  *)
(***************************************************************************)
EXTENDS DeviceStoreRaces, TLC

CONSTANTS r1, r2, i1

\* Slots are positions in a list whose order nothing depends on.
Symmetry == Permutations(Slots)

\* The first request does everything; the second one comes in its way.
AllOps == {"add", "edit", "hide", "unhide", "delete"}
TwoOps == r1 :> AllOps @@ r2 :> {"add", "edit"}

\* What overlapping requests are about: one address.
OneAddress ==
    /\ \A r \in Busy :
          <<call[r].key, call[r].ip, call[r].mac>> \in
              {<<i1, i1, None>>, <<i1, i1, Keep>>, <<i1, Keep, Keep>>}
    /\ \A c \in {memory, disk} :
          /\ \A s \in Slots : c.devices[s] \in {Free, [ip |-> i1, mac |-> None]}
          /\ c.hidden \subseteq {i1}

\* Bound: requests overlap over one address and before any save has raised; after that
\* they come one at a time, all of them, with addresses that parse.
Bound ==
    IF errors = 0
    THEN apart \/ OneAddress
    ELSE Busy \subseteq {r1} /\ Bad \notin {call[r1].key, call[r1].ip} \cup memory.hidden

=============================================================================
