SPECIFICATION FairSpec
CONSTANTS
    i1 = i1
    i2 = i2
    d1 = d1
    d2 = d2
    Nothing = Nothing
    NoRow = NoRow
    NotLoaded = NotLoaded
    Instance <- TwoInstances
    Version <- TwoVersions
    Latest = 1
    Async <- SecondAsync
    AutoEnable = FALSE
    MaxEvents = 2
    Disk <- OneDisk
    Mount <- SharedDisk
    Installed <- FirstOnly
    Scripts <- OneUpgrade
PROPERTY Converges
