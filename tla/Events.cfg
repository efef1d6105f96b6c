\* Two writers and one caller: a full channel, a ring that forgets, an answer
\* that is lost and a server that starts again.
SPECIFICATION FairSpec
CONSTANTS
    Writers = {w1, w2}
    Callers = {c1}
    None = None
    BufLen = 1
    RingLen = 2
    MaxEvents = 3
    MaxLost = 1
    MaxRestarts = 1
INVARIANTS
    TypeOK
    MissedNothing
    InOrderOnce
PROPERTIES
    CloseEndsWaits
    EveryChangeIsTold
