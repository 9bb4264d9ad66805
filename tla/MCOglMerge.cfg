SPECIFICATION Spec
CONSTANTS
    Names = {1, 2}
    Depth = 3
    Contents = {1, 2}
    Leaves = {"file", "local"}
    Slots <- MCSlots
INVARIANTS TypeOK   MergeMarks
