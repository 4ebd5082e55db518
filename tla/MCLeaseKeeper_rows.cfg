SPECIFICATION LeaseSpec
CONSTANTS
    i1 = i1
    i2 = i2
    core_leader = core_leader
    Nobody = Nobody
    Lease <- Leases
    Keeper <- Instances
    TTL = 1
    Heartbeat = 1
    AnswerDelay = 0
    Disturbs <- ByHand
SYMMETRY Symmetry
CONSTRAINT FewReleases
PROPERTIES LiveRowOnlyGivenUp
CHECK_DEADLOCK FALSE
