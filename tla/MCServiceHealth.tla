---------------------------- MODULE MCServiceHealth ----------------------------
(* Small instances of ServiceHealth.                                       *)
EXTENDS ServiceHealth
=============================================================================
