\* The task's text is edited while its run is under way.
SPECIFICATION Spec
CONSTANTS
    Tasks = {t1}
    NoTask = NoTask
    Projects = {p1}
    Calls = {c1}
    Users = {"edit"}
    MaxJobs = 1
    MaxHandoffs = 1
    MaxEdits = 1
    MaxDowns = 0
PROPERTIES
    ChangedContentIsNotReviewed
