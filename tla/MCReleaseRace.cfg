SPECIFICATION Spec
CONSTANTS
    Cutters = {c1, c2}
    Paths = {p}
    Targets <- Two
    Migrated = {}
    MaxEdits = 2
    CleanTree = TRUE
    NoTag = NoTag
    c1 = c1
    c2 = c2
    p = p
    q = q
INVARIANTS
    FreshManifests
PROPERTIES
    TagsNeverMove
