\* What each loop promises to do at last, across a crash or a restart.
SPECIFICATION LoopsSpec
CONSTANTS
    p1 = p1
    p2 = p2
    c1 = c1
    k1 = k1
    k2 = k2
    m1 = m1
    MaxJobs = 2
    Tasks = {t1, t2}
    NoTask = NoTask
    MaxDowns = 1
    MaxFaults = 0
    Envs = {"a"}
    AutoEnvs = {}
    MaxRunning = 1
    MaxEnvFaults = 1
    MaxEnvRestarts = 1
    MaxEnvClicks = 2
    MaxTime = 3
    Cadence = 2
    MaxCalls = 0
    MaxJobEdits = 2
    MaxBreaks = 1
    MaxJobRestarts = 1
    MaxRuns = 1
PROPERTIES
    InFlightEnds
    PendingIsServed
    TurnEnds
    PendingIsTaken
    StopCompletes
    DueIsConsumed
CHECK_DEADLOCK FALSE
