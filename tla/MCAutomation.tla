----------------------------- MODULE MCAutomation -----------------------------
(* Values of Automation's constants for TLC. *)
EXTENDS Automation, TLC

CONSTANTS k1, daily, due

\* The row is the rule due's; the rule daily has nothing to hand off.
OneKey == k1 :> due
=============================================================================
