\* An each of three that waits and a node of one child, two tries, room for two children.
SPECIFICATION FairSpec
CONSTANTS
    list = list
    one = one
    Nodes = {list, one}
    Size <- Sizes
    EachNodes = {list}
    WaitNodes = {list, one}
    Continues = {one}
    MayWait <- FirstMayWait
    Tries = 2
    MaxChildren = 2
    MaxCrashes = 1
INVARIANTS
    OneAfterAnother
    OutcomeOfChildren
    ChildrenBounded
    ChildrenStopped
PROPERTY
    ParentGoesOn
CHECK_DEADLOCK FALSE
