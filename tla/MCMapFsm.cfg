CONSTANTS
    Waypoints = {w1}
    Goals = {g1}
    Explores = {e1}
    StateEvents = {"stop", "explore"}
    Looks = {"track"}
    UseServos = {TRUE, FALSE}
    PoseFirst = TRUE
    MaxRecoveries = 1
    Timeout = 1
    MaxEvents = 2
SPECIFICATION Spec
INVARIANTS
    NoError
    DrivesToItsGoal
    ServoAsAsked
PROPERTIES
    WaypointsFollowedUnlessPlanning
    GoalKept
    StopObeyed
