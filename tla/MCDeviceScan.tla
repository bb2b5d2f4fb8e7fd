---------------------------- MODULE MCDeviceScan ----------------------------
(***************************************************************************)
(* Instances of DeviceScan for TLC.                                        *)
(***************************************************************************)
EXTENDS DeviceScan

AllOps == [r \in Requests |-> {"add", "edit", "hide", "unhide", "delete"}]

AddressOps == [r \in Requests |-> {"add", "edit"}]

=============================================================================
