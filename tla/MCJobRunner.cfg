\* One run of three nodes, c after a and b, with every way a step ends, two workers, the
\* loop, one caller, one crash.
SPECIFICATION Spec
CONSTANTS
    a = a
    b = b
    c = c
    gpu = gpu
    cpu = cpu
    None = None
    Loop = Loop
    Steps = {a, b, c}
    After <- JoinAfter
    Continues = {b}
    Conditional = {c}
    Runs = {r1}
    Workers = {w1, w2}
    Callers = {k1}
    Resources = {gpu, cpu}
    Uses <- JoinUses
    PluginUses = {gpu}
    Limit <- GateLimit
    Tries = 2
    MayWait = {a}
    MayRunAgain = {a}
    MaxAgain = 1
    MaxCrashes = 1
INVARIANTS
    SingleExecution
    DependenciesHold
    GateIsExact
    ToldOnce
PROPERTIES
    EndsAreFinal
    LifecycleSpec
