---------------------------- MODULE MCTaskTrigger ----------------------------
(* Values of TaskTrigger's constants for TLC. *)
EXTENDS TaskTrigger, TLC

CONSTANTS obj, kid
=============================================================================
