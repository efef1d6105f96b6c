\* One task, one run, a crash between taking the task and storing its run.
SPECIFICATION FairSpec
CONSTANTS
    obj = obj
    kid = kid
    Objective = obj
    Kids = {kid}
    Agents = {agent}
    Nobody = nobody
    MaxAttempts = 2
    MaxRounds = 1
    Ids = {1}
    Endings = {"completed"}
    MaxTroubles = 1
PROPERTIES
    GoneHoldersRelease
CHECK_DEADLOCK FALSE
