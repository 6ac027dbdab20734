\* A blocker is added between selection and start.
SPECIFICATION Spec
CONSTANTS
    Tasks = {t1}
    NoTask = NoTask
    Projects = {p1}
    Calls = {c1}
    Users = {"block"}
    MaxJobs = 1
    MaxHandoffs = 1
    MaxEdits = 0
    MaxDowns = 0
INVARIANTS
    RefusedStartIsNotAFailure
