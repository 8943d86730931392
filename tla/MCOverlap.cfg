SPECIFICATION HSpec
CONSTANTS
    Slices = {1, 2}
    Releases = {r1, r2}
    Paths = {p, q}
    CPaths = {l1, l2, l3}
    Files = {x, y, torn}
    Surface <- Overlapping
    InScope <- TwoScopes
    Torn = torn
    Digest <- MCDigest
    NoFile = NoFile
    Untracked = Untracked
    NoRelease = NoRelease
    NoJob = NoJob
    r1 = r1
    r2 = r2
    r3 = r3
    p = p
    q = q
    l1 = l1
    l2 = l2
    l3 = l3
    x = x
    y = y
    torn = torn
    dx = dx
    dy = dy
    dtorn = dtorn
PROPERTIES
    ApplyEndsGreen
