SPECIFICATION Spec
CONSTANTS
    a = a
    b = b
    c1 = c1
    c2 = c2
    Configs <- One
    Wired = {a}
    Channel <- Alone
    Releases <- Line
    Commits = {c1, c2}
    Retracts <- Clean
    Onboarded <- V1
    Origin = c1
    Runs = {r1, r2}
    MaxMoves = 0
    MaxPins = 0
    MaxCloses = 1
    MaxFaults = 1
    NoTag = NoTag
    Broken = Broken
    NoRun = NoRun
    NoListing = NoListing
    NotAsked = NotAsked
    r1 = r1
    r2 = r2
INVARIANTS
    OneOpenItem
