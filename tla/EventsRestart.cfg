\* One writer and one caller, and a server that starts again.
SPECIFICATION Spec
CONSTANTS
    Writers = {w1}
    Callers = {c1}
    None = None
    BufLen = 1
    RingLen = 2
    MaxEvents = 3
    MaxLost = 1
    MaxRestarts = 1
INVARIANT
    NewHubIsNoticed
