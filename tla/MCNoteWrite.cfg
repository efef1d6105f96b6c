\* Two notes, two clients, two workers of the watcher, three of the calls, edits and crashes.
SPECIFICATION Spec
CONSTANTS
    c1 = c1
    c2 = c2
    w1 = w1
    w2 = w2
    Notes = {1, 2}
    Clients = {c1, c2}
    Workers = {w1, w2}
    Free = free
    Made = {1}
    Ops = {"replace", "delete", "rename"}
    MaxCalls = 2
    MaxEdits = 1
    MaxCrashes = 1
    MaxMoves = 3
SYMMETRY Alike
INVARIANTS
    TypeOK
    NoLostUpdate
    SettledIndex
    QueueIsServed
    CallsGoOn
CHECK_DEADLOCK FALSE
