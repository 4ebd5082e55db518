SPECIFICATION LeaseFairSpec
CONSTANTS
    i1 = i1
    i2 = i2
    core_leader = core_leader
    Nobody = Nobody
    Keeper <- OneInstance
    Lease <- Leases
    TTL = 1
    Heartbeat = 1
    AnswerDelay = 0
    Disturbs <- OnlyRelease

PROPERTY HolderWorks
