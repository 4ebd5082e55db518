SPECIFICATION LeaseFairSpec
CONSTANTS
    i1 = i1
    i2 = i2
    core_leader = core_leader
    Nobody = Nobody
    Lease <- Leases
    Keeper <- Instances
    TTL = 2
    Heartbeat = 1
    AnswerDelay = 1
    Disturbs <- NoReleases
INVARIANTS WorkerFollowsLease
PROPERTIES ImplementsLock StaleWorkEnds Takeover
