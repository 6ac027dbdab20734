\* Does a save of the drawer ever replace what its editor has not shown?
SPECIFICATION BodySpec
CONSTANTS
    BodyEdits = {e1, e2}
    BodyForeign = {}
    PageVisits = 0
    DrawerVisits = 2
    MaxBodyLost = 0
INVARIANTS
    BaselineIsWhatIsShown
CHECK_DEADLOCK FALSE
