\* What Conductor may never do, in five scenarios.
SPECIFICATION SafetySpec
CONSTANTS
    t1 = t1
    t2 = t2
    p1 = p1
    p2 = p2
    c1 = c1
    c2 = c2
    NoTask = NoTask
    Tasks = {t1, t2}
    Projects = {p1, p2}
    Calls = {c1, c2}
    Users = {"release", "recheck", "moveProject", "edit", "pause", "stages", "cancel", "manual", "resume"}
    MaxJobs = 2
    MaxHandoffs = 2
    MaxEdits = 1
    MaxDowns = 1
SYMMETRY Symmetry
INVARIANTS
    TypeOK
    NoSelectionLoop
    ReservationIsExclusive
    HandoffStartedOnce
    NoOrphanedJob
PROPERTIES
    PauseStopsStarts
    FreshHandoffIsNotHeld
    ReviewIsEarned
    ImplementsLifecycle
