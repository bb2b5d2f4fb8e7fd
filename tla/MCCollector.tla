----------------------------- MODULE MCCollector -----------------------------
(***************************************************************************)
(* Instances of Collector for TLC.                                         *)
(***************************************************************************)
EXTENDS Collector

\* Every row has a name of its own: the catalogue the UI writes.
OwnName == [x \in Rows |-> x]

=============================================================================
