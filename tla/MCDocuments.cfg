\* Does a draft outlive the editor that typed it?
SPECIFICATION DocSpec
CONSTANTS
    DocEdits = {e1, e2}
    DocForeign = {f1}
    MaxDrafts = 2
    MaxLost = 1
INVARIANTS
    UnsavedEditsAreRetained
CHECK_DEADLOCK FALSE
