SPECIFICATION Spec
CONSTANTS
    i1 = i1
    i2 = i2
    i3 = i3
    Instance <- ThreeInstances
    Op <- OneOp
    Idle = 1
    Hard = 2
    Happens <- Nothing
INVARIANT LastReportCloses
CHECK_DEADLOCK FALSE
