\* A run of one step, and a crash: why does its step fail?
SPECIFICATION Spec
CONSTANTS
    a = a
    b = b
    c = c
    gpu = gpu
    cpu = cpu
    None = None
    Loop = Loop
    Steps = {a}
    After <- OneAfter
    Continues = {}
    Conditional = {}
    Runs = {r1}
    Workers = {w1}
    Callers = {k1}
    Resources = {gpu, cpu}
    Uses <- OneUses
    PluginUses = {}
    Limit <- NoLimit
    Tries = 1
    MayWait = {}
    MayRunAgain = {}
    MaxAgain = 0
    MaxCrashes = 1
PROPERTY FailsByItsExecutor
