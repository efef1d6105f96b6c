\* Two paths, two writes, one deed, one trouble; a project with runs per file, one with runs per batch,
\* one whose runs leave their files as they are.
SPECIFICATION FairSpec
CONSTANTS
    f = f
    g = g
    a = a
    b = b
    none = none
    Paths = {f, g}
    Writes <- TwoWrites
    Projects <- OnePipeline
    ByHand = {"working"}
    MaxDeeds = 1
    MaxTroubles = 1
INVARIANTS
    TypeOK
    HashOfVersion
    WorkingForItsRun
    ToldOnce
    SettledOnceTold
PROPERTIES
    EveryFileIsTaken
