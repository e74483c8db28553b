SPECIFICATION HalvesSpec
CONSTANTS
    Jobs <- AllJobs
    SnapRadius = 1
    NoPosition = NoPosition
    AutoController = "pid"
    GridController = "external_grid"
    Tracks <- SomeTracks
    Lookahead = 3
    Backtrack = 1
    Entry = 2
    Window = 1
    GoalTolerance = 1
    StopTolerance = 2
    MaxSlips = 1
    Scenes <- SomeScenes
    MinShortcut = 1
    PerSector = 2
    RayBudget = 3
    Quota = 1
    Queries <- SomeQueries
    Steep = 20
    Goals = {g1, g2}
    Nobody = Nobody
    MaxLoads = 2
INVARIANTS
    Route3DSafe
    CheapestRoute
PROPERTIES
    PlanIsShortest
    TasksServeTheRoute
    NoCornerIsCut
    RoutesEnd
\* A job ends when its requests are answered, a track when its tasks are done.
CHECK_DEADLOCK FALSE
