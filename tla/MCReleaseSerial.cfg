SPECIFICATION Spec
CONSTANTS
    Cutters = {c1}
    Paths = {p}
    Targets <- Line
    Migrated <- Majors
    MaxEdits = 3
    CleanTree = TRUE
    NoTag = NoTag
    c1 = c1
    c2 = c2
    p = p
    q = q
INVARIANTS
    TypeOK
    BumpCoversDelta
    JumpsLoseNothingQuietly
