SPECIFICATION ServicesSpec
CONSTANTS
    i1 = i1
    i2 = i2
    Instance <- Instances
    Op <- One
    Idle = 1
    Hard = 1
    Happens <- Disturbances
    Bell <- Instances
    Note <- Notes
    Restricted <- Secrets
    Limit = 1
    Changes = 3
    Router <- Two
    EnvSet = {2}
    Sync <- Two
    Patches = 1
    Installs = 2
    Adapter <- Two
    Targets = {1}
    Loads = 2
    Setups = 2
    Handlings = 1
    Request <- One
    Replies = 2
    Plugin <- Plugins
    Longer <- Longers
    Pinned <- Pins
    Routers = 4
    Windows = 2
    Member <- Three
    Able <- Three
    Ttl = 1
    WorkItem <- Items
    Spread = 2
    Score <- Scores
    MemberChanges = 2
    Edits = 1
    GitCall <- Three
    Deaths = 1
    Releases = 2
    RepoChanges = 2
    Listing <- One
    Syncs = 1
    Stream <- One
    Forwards = 3
    QueueSize = 2
VIEW PartView
SYMMETRY Symmetry
CONSTRAINT FewRunning
INVARIANTS FinishedOnce OutcomeIsTrue OwnOverrideHolds ContextSettles RoutesFollowPlugin GateHasAReason
    WorkSettles PushedIsThere ListingIsCurrent NoHoles
PROPERTIES BellRemembers
CHECK_DEADLOCK FALSE
