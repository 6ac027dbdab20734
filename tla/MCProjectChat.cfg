\* Overlapping and repeated messages, tools, moves, a stop or crash, and a finish that fails.
SPECIFICATION Spec
CONSTANTS
    Projects = {p1, p2}
    Tasks = {a1}
    Calls = {c1, c2}
    Keys = {k1, k2}
    Messages = {m1, m2}
    MaxTurns = 2
    MaxMoves = 1
    MaxDowns = 1
    MaxFaults = 1
SYMMETRY Symmetry
INVARIANTS
    OneTurnPerMessage
    SessionContinues
    TurnInFlightIsHeld
PROPERTIES
    StopRevokesWrites
