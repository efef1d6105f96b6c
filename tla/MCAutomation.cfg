\* Two rules, one of them with a row to hand off, three runs, two crashes, under the fairness of the ticks.
SPECIFICATION FairSpec
CONSTANTS
    k1 = k1
    daily = daily
    due = due
    None = None
    Rules = {due, daily}
    Keys = {k1}
    RuleOf <- OneKey
    Jobs = {j1, j2, j3}
    MaxCrashes = 2
INVARIANTS
    OneAction
    OnRecord
    FiredWasDone
PROPERTIES
    PendingSettles
