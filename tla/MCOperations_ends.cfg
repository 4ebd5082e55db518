SPECIFICATION FairSpec
CONSTANTS
    i1 = i1
    i2 = i2
    i3 = i3
    Instance <- TwoInstances
    Op <- OneOp
    Idle = 1
    Hard = 2
    Happens <- Unordered
PROPERTY EveryOperationEnds
CHECK_DEADLOCK FALSE
