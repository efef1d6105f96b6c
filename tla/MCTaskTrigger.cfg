\* An objective and one sub-task, two attempts, one round, two runs, two troubles.
SPECIFICATION FairSpec
CONSTANTS
    obj = obj
    kid = kid
    Objective = obj
    Kids = {kid}
    Agents = {agent}
    Nobody = nobody
    MaxAttempts = 2
    MaxRounds = 1
    Ids = {1, 2}
    Endings = {"completed", "failed"}
    MaxTroubles = 2
INVARIANTS
    TypeOK
    AttemptsBounded
    OneRunAtWork
PROPERTIES
    ClosedStaysClosed
    HoldsEnd
    ObjectiveGoesOn
CHECK_DEADLOCK FALSE
