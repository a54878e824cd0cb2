-------------------------- MODULE MCMainnetReader ---------------------------
(* Instances of MainnetReader for TLC: a unit of time is five seconds.     *)
EXTENDS MainnetReader
=============================================================================
