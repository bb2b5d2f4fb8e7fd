-------------------------- MODULE MCCollectorAnswers --------------------------
(***************************************************************************)
(* Instances of CollectorAnswers for TLC.                                  *)
(***************************************************************************)
EXTENDS CollectorAnswers

\* Every row has a name of its own.
OwnName == [x \in Rows |-> x]

=============================================================================
