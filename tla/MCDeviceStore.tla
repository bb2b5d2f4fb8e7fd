---------------------------- MODULE MCDeviceStore ----------------------------
(***************************************************************************)
(* Instances of DeviceStore for TLC.                                       *)
(***************************************************************************)
EXTENDS DeviceStore, TLC

\* Slots are positions in a list whose order nothing depends on; addresses of
\* one kind are interchangeable.
Symmetry == Permutations(Slots) \cup Permutations(Ips)

HidingOps == [r \in Requests |-> {"add", "hide", "delete"}]

=============================================================================
