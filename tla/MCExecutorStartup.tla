------------------------- MODULE MCExecutorStartup --------------------------
(* Instances of ExecutorStartup for TLC.                                   *)
EXTENDS ExecutorStartup
=============================================================================
