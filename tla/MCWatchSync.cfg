SPECIFICATION Spec
CONSTANTS
    a = a
    b = b
    c1 = c1
    c2 = c2
    Configs <- One
    Wired = {a}
    Channel <- Alone
    Releases <- Line
    Commits = {c1, c2}
    Retracts <- Clean
    Onboarded <- V1
    Origin = c1
    Runs = {r1}
    MaxMoves = 1
    MaxPins = 0
    MaxCloses = 0
    MaxFaults = 0
    NoTag = NoTag
    Broken = Broken
    NoRun = NoRun
    NoListing = NoListing
    NotAsked = NotAsked
    r1 = r1
    r2 = r2
PROPERTIES
    SyncRefusesMoved
