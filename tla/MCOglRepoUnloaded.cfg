SPECIFICATION CarelessSpec
CONSTANTS
    Names = {1, 2}
    Depth = 2
    Contents = {1, 2}
    Leaves = {"file", "symlink", "local"}
    Careful = FALSE
    MaxEvents = 3
INVARIANT ModifiedLoaded
