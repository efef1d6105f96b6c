------------------------------ MODULE MCInFolder ------------------------------
(* Values of InFolder's constants for TLC. *)
EXTENDS InFolder, TLC

CONSTANTS f, g, a, b

\* The first write is told from the second by its stamp: which content it has makes no difference,
\* but for none, which cannot be read.
TwoWrites == <<{a, none}, {a, b}>>

\* A project with runs per file, one with runs per batch, and one whose runs per
\* batch leave their files.
OnePipeline == {[in |-> "takes", inbatch |-> "absent"], [in |-> "absent", inbatch |-> "takes"],
                [in |-> "absent", inbatch |-> "leaves"]}
=============================================================================
