SPECIFICATION Spec
CONSTANTS
    a = a
    b = b
    c1 = c1
    c2 = c2
    Configs <- Both
    Wired = {a}
    Channel <- Mixed
    Releases <- Canary
    Commits = {c1, c2}
    Retracts <- Withdrawn
    Onboarded <- V1
    Origin = c1
    Runs = {r1, r2}
    MaxMoves = 1
    MaxPins = 0
    MaxCloses = 1
    MaxFaults = 1
    NoTag = NoTag
    Broken = Broken
    NoRun = NoRun
    NoListing = NoListing
    NotAsked = NotAsked
    r1 = r1
    r2 = r2
SYMMETRY Symmetry
INVARIANTS
    TypeOK
    ItemPerRun
    IntegrityFirst
