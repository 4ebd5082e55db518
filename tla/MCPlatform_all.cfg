SPECIFICATION PlatformSpec
CONSTANTS
    i1 = i1
    i2 = i2
    c1 = c1
    c2 = c2
    c3 = c3
    KvCall <- Calls
    MaxFailures = 1
    Lines = 3
    PeerLines = 2
    Buffer = 2
    Batch = 1
    Keep = 1
    Account <- Three
    Login <- Two
    Subject <- People
    GroupId <- Two
    GrantCall <- Two
    Server <- Instances
    Txn <- Two
    Ttl = 1
    Attempt <- One
    Reload <- Two
    Visit <- Two
    Node <- Two
    Callback <- Two
    Writer <- Three
    HomeOf <- Homes
    DocField <- Fields
    Editable <- Edits
    Locked <- Env
    Unasked <- Theme
    Odd <- Refuse
    Sealed = {2}
    Updates <- Saves
    Faults = 1
    TicksPerDay = 3
    Horizon = 21
    Linger = 1
    LastTick = 15
    Plans <- SmallPlans
    Host <- Three
    Stagger = 2
    DrainTime = 3
    BootTime = 1
    Requests = 1
    Stops = 1
VIEW PartView
INVARIANTS ValuesStand LogsAreKept UserHasWhatWasAsked SessionsHold OneSessionPerCode SettingsSettle
    StateIsWhatIsMeant RestartRolls
PROPERTIES AccountsStand GrantsHold
CHECK_DEADLOCK FALSE
