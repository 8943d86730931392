SPECIFICATION Spec
CONSTANTS
    Slices = {1}
    Slice = 1
    Paths = {p, q}
    CPaths = {l1, l2}
    Files = {x, y, torn}
    Torn = torn
    Digest <- MCDigest
    InScope <- Scope
    Onboarded <- V1
    Releases <- Ten
    Surface <- Changes
    Runs = {n1, n2}
    Retractable = {}
    MaxEdits = 1
    MaxBumps = 1
    MaxUpdates = 1
    MaxReviews = 1
    EngineCached = FALSE
    NoFile = NoFile
    Untracked = Untracked
    NoRelease = NoRelease
    NoJob = NoJob
    Mangled = Mangled
    Blank = Blank
    NoRun = NoRun
    NoBranch = NoBranch
    NoEngine = NoEngine
    n1 = n1
    n2 = n2
    p = p
    q = q
    l1 = l1
    l2 = l2
    x = x
    y = y
    torn = torn
INVARIANTS
    TypeOK
    PinsInLockstep
    RedOnlyByEdit
PROPERTIES
    ChecksumFollowsVersion
    PinLostToPrefix
    NeverBackwards
SYMMETRY Symmetry
CHECK_DEADLOCK FALSE
