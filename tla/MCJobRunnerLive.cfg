\* One run of three nodes under the fairness of the goroutines, no crash.
SPECIFICATION FairSpec
CONSTANTS
    a = a
    b = b
    c = c
    gpu = gpu
    cpu = cpu
    None = None
    Loop = Loop
    Steps = {a, b, c}
    After <- JoinAfter
    Continues = {b}
    Conditional = {c}
    Runs = {r1}
    Workers = {w1, w2}
    Callers = {k1}
    Resources = {gpu, cpu}
    Uses <- JoinUses
    PluginUses = {}
    Limit <- GateLimit
    Tries = 2
    MayWait = {a}
    MayRunAgain = {a}
    MaxAgain = 1
    MaxCrashes = 0
PROPERTY
    RunsEnd
