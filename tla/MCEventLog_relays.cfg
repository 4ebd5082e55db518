SPECIFICATION FairSpec
CONSTANTS
    i1 = i1
    i2 = i2
    install = install
    Instance <- Instances
    Action <- OneAction
    Bridged <- OneAction
    Batch = 1
    Retention = 1
    MaxId = 3
    Happens <- Everything
INVARIANTS HeardOnce NothingSkipped
PROPERTIES ImplementsFanout Delivery
CHECK_DEADLOCK FALSE
