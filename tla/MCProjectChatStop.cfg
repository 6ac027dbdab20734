\* A turn is stopped while its answer is being stored.
SPECIFICATION Spec
CONSTANTS
    Projects = {p1}
    Tasks = {}
    Calls = {c1}
    Keys = {k1}
    Messages = {m1}
    MaxTurns = 1
    MaxMoves = 0
    MaxDowns = 0
    MaxFaults = 0
INVARIANTS
    StoppedIsNotCompleted
