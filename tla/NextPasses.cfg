\* Every acyclic pipeline of three nodes, with every choice of conditions and on_error.
SPECIFICATION Spec
CONSTANT N = 3
INVARIANTS
    PassesAgree
    NothingLeftBehind
CHECK_DEADLOCK FALSE
