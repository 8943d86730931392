SPECIFICATION FairSpec
CONSTANTS
    Slices = {1}
    Slice = 1
    Paths = {p, q}
    CPaths = {l1, l2}
    Files = {x, y, torn}
    Torn = torn
    Digest <- MCDigest
    InScope <- Scope
    Onboarded <- V1
    Releases <- Ten
    Surface <- Grows
    Runs = {n1}
    Retractable <- Skipped
    MaxEdits = 0
    MaxBumps = 2
    MaxUpdates = 0
    MaxReviews = 1
    EngineCached = TRUE
    NoFile = NoFile
    Untracked = Untracked
    NoRelease = NoRelease
    NoJob = NoJob
    Mangled = Mangled
    Blank = Blank
    NoRun = NoRun
    NoBranch = NoBranch
    NoEngine = NoEngine
    n1 = n1
    n2 = n2
    p = p
    q = q
    l1 = l1
    l2 = l2
    x = x
    y = y
    torn = torn
PROPERTIES
    CatchesUp
CHECK_DEADLOCK FALSE
