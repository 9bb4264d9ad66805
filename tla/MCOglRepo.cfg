SPECIFICATION Spec
CONSTANTS
    Names = {1, 2}
    Depth = 2
    Contents = {1, 2}
    Leaves = {"file", "symlink", "local"}
    Careful = TRUE
    MaxEvents = 3
INVARIANTS TypeOK CleanMatches CleanIsStored RootComplete
PROPERTY Implements
