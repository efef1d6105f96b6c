----------------------------- MODULE MCJobRunner -----------------------------
(* Values of JobRunner's constants for TLC. *)
EXTENDS JobRunner, TLC

CONSTANTS a, b, c, gpu, cpu

\* a and b start at once; c comes after both.
JoinAfter == (a :> {}) @@ (b :> {}) @@ (c :> {a, b})

\* One step on its own.
OneAfter == (a :> {})

\* a and b can run at the same time; c needs both resources.
JoinUses  == (a :> {gpu}) @@ (b :> {cpu}) @@ (c :> {gpu, cpu})
OneUses   == (a :> {gpu})
GateLimit == (gpu :> 1) @@ (cpu :> 2)
NoLimit   == (gpu :> 0) @@ (cpu :> 0)
=============================================================================
