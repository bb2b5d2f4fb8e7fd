------------------------------- MODULE MCWan -------------------------------
(***************************************************************************)
(* The interfaces of the runs about the traffic of the uplink.             *)
(***************************************************************************)
EXTENDS WanRates

Interfaces == <<"lan", "wan">>
=============================================================================
