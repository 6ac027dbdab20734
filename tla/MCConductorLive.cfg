\* Progress of one task against moves, blockers and a crash.
SPECIFICATION ProgressSpec
CONSTANTS
    Tasks = {t1}
    NoTask = NoTask
    Projects = {p1}
    Calls = {c1}
    Users = {"recheck", "move", "block"}
    MaxJobs = 2
    MaxHandoffs = 2
    MaxEdits = 0
    MaxDowns = 1
PROPERTIES
    WorkEnds
    QueuedMovesOn
    WaitingMovesOn
