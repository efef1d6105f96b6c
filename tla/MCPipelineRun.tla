---------------------------- MODULE MCPipelineRun ----------------------------
(* Values of PipelineRun's constants for TLC. *)
EXTENDS PipelineRun, TLC

CONSTANTS list, one

\* list waits for three children one after another, one for its only one.
Sizes == (list :> 3) @@ (one :> 1)

\* The first child of list waits for something itself.
FirstMayWait == {<<list, 1>>}
=============================================================================
