\* Two launchers, two slice configs, two versions.
SPECIFICATION Spec
CONSTANTS
    good = good
    other = other
    Launchers = {l1, l2}
    Configs = {c1, c2}
    Versions = {v1, v2}
    Contents = {good, other}
    Torn = Torn
    Absent = Absent
    Mirrors <- Directories
SYMMETRY Symmetry
INVARIANTS
    VerifiedBeforeExec
