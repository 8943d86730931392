SPECIFICATION Spec
CONSTANTS
    Slices = {1}
    Slice = 1
    Paths = {p, q}
    CPaths = {l1, l2}
    Files = {x, y, torn}
    Torn = torn
    Digest <- MCDigest
    InScope <- Scope
    Onboarded <- V1
    Releases <- Three
    Surface <- Returns
    Runs = {n1}
    Retractable = {}
    MaxEdits = 1
    MaxBumps = 2
    MaxUpdates = 1
    MaxReviews = 0
    EngineCached = FALSE
    NoFile = NoFile
    Untracked = Untracked
    NoRelease = NoRelease
    NoJob = NoJob
    Mangled = Mangled
    Blank = Blank
    NoRun = NoRun
    NoBranch = NoBranch
    NoEngine = NoEngine
    n1 = n1
    n2 = n2
    p = p
    q = q
    l1 = l1
    l2 = l2
    x = x
    y = y
    torn = torn
INVARIANTS
    RedInOwnBytes
CHECK_DEADLOCK FALSE
