CONSTANTS
    v1 = v1
    v2 = v2
    root = root
    other = other
    Values <- MCValues
    CheckAccepts <- MCCheckAccepts
    Modes <- MCModes
    ModeStrings <- MCModeStrings
    ParseError = ParseError
    Owners <- MCOwners
    ProcOwner = root
    Inherit = Inherit
    NoFile = NoFile
    NoValue = NoValue
    Empty = Empty
    Partial = Partial
    MaxUpdates = 1
    MaxCrashes = 1
SPECIFICATION Spec
CONSTANT Configs <- MCConfigsAll
CONSTANT MaxFailures = 1
PROPERTY Convergence
