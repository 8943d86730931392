SPECIFICATION Spec
CONSTANTS
    Slices = {docs, lint}
    Shared = {gate}
    Releases <- Line
    MaxResets = 2
    MaxEdits = 1
    Torn = Torn
    Blank = Blank
    NoFile = NoFile
    NoJob = NoJob
    NoSlice = NoSlice
    docs = docs
    lint = lint
    gate = gate
INVARIANTS
    ReferencesMoveTogether
PROPERTIES
    SlicesApart
    CompleteIsReady
CHECK_DEADLOCK FALSE
