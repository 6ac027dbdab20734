\* Safety of the queue, the editors, environments, jobs, the composer and the workflows.
\* One set of model values for the tasks, the tabs and the edits of the parts: they
\* are symmetric, and a behaviour is of one part.
SPECIFICATION AppSpec
CONSTANTS
    MaxJobs = 3
    Tasks = {x1, x2}
    NoTask = NoTask
    MaxDowns = 2
    MaxFaults = 1
    DocEdits = {x1, x2}
    DocForeign = {f1}
    MaxDrafts = 2
    MaxLost = 1
    BodyEdits = {x1, x2}
    BodyForeign = {f1}
    PageVisits = 1
    DrawerVisits = 2
    MaxBodyLost = 1
    Envs = {"a", "b"}
    AutoEnvs = {"b"}
    MaxRunning = 1
    MaxEnvFaults = 1
    MaxEnvRestarts = 0
    MaxEnvClicks = 2
    MaxTime = 2
    Cadence = 2
    MaxCalls = 2
    MaxJobEdits = 1
    MaxBreaks = 0
    MaxJobRestarts = 0
    MaxRuns = 2
    Tabs = {x1, x2}
    MaxMessages = 2
    MaxSends = 3
    MaxMishaps = 1
    Browsers = {x1, x2}
    Projects = {"project"}
    Cards = {"c1", "c2"}
    InitialStages <- TwoWorkflows
    InitialHome <- OneProject
    InitialTasks <- OneTask
    Asked <- AllRequests
    MaxStageId = 9
    MaxWorkflowId = 3
    MaxRequests = 2
SYMMETRY Symmetry
INVARIANTS
    AppTypeOK
    OneActiveJobPerTask
    NeverReplayed
    AcknowledgedCancelHolds
    InFlightIsHeld
    AutosaveIsArmed
    EditsAreSavedOrReported
    PlacesAreKept
    ConversationIsLinear
    ReferencesHold
PROPERTIES
    ImplementsLifecycle
    DocImplementsShared
    FreshEditorOverwritesNothing
    CleanupIsConfirmed
    RepeatIsAnswered
    OccurrenceUsesOneVersion
    NoTaskLeftBehind
    MoveStoresWhatIsShown
CHECK_DEADLOCK FALSE
