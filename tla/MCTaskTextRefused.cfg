\* Is a save of the drawer refused where nobody else wrote and no answer was lost?
SPECIFICATION BodySpec
CONSTANTS
    BodyEdits = {e1, e2}
    BodyForeign = {}
    PageVisits = 0
    DrawerVisits = 2
    MaxBodyLost = 0
INVARIANTS
    RefusedMeansElsewhere
CHECK_DEADLOCK FALSE
