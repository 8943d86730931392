SPECIFICATION Spec
CONSTANTS
    own = own
    other = other
    dev = dev
    Main = Main
    Unprotected = Unprotected
    NoBranch = NoBranch
    NoManifest = NoManifest
    NoJob = NoJob
    Unasked = Unasked
    Slices <- Pair
    CoreRules <- Rules
    PublisherRules <- RuleSets
    Trees <- Checkout
    Platforms <- Admin
    Project <- Repos
    BaseBranches <- Branches
    MaxChanges = 1
INVARIANTS
    GateRequired
CHECK_DEADLOCK FALSE
