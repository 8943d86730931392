\* One profile, two files, two PRs at once, three commits by hand.
SPECIFICATION Spec
CONSTANTS
    f = f
    g = g
    p = p
    Files = {f, g}
    Profiles = {p}
    Unbound = Unbound
    Every = Every
    Releases <- Tags
    Shipped <- Payloads
    Onboarded <- v1
    NotText = NotText
    Litter = {f}
    MaxOpen = 2
    MaxCommits = 3
\* An exhausted bound may leave only a conflicting PR open.
CHECK_DEADLOCK FALSE
INVARIANTS
    TypeOK
    NothingOwedIsForgotten
