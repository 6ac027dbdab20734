\* Do pods run only for previews that hold a place, when people click at any moment?
SPECIFICATION EnvSpec
CONSTANTS
    Envs = {"a"}
    AutoEnvs = {}
    MaxRunning = 1
    MaxEnvFaults = 0
    MaxEnvRestarts = 0
    MaxEnvClicks = 4
INVARIANTS
    CapacityHolds
CHECK_DEADLOCK FALSE
