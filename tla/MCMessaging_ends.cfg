SPECIFICATION FairSpec
CONSTANTS
    i1 = i1
    i2 = i2
    ask = ask
    p1 = p1
    Instance <- TwoInstances
    Home = i1
    Interactive <- OneMessage
    Provider <- OneProvider
    Click <- TwoClicks
    Message <- OneMessage
    MaxRetries = 2
    QueueSize = 1
    Registrations = 2
    Happens <- Everything
INVARIANTS OneIsHandled InOnePlace
PROPERTIES EveryMessageEnds ClickIsAnswered
CHECK_DEADLOCK FALSE
