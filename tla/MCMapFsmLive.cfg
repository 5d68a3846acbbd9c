CONSTANTS
    Waypoints = {w1}
    Goals = {g1}
    Explores = {e1}
    StateEvents = {"forward", "follow"}
    Looks = {"done", "face"}
    UseServos = {}
    PoseFirst = TRUE
    MaxRecoveries = 1
    Timeout = 1
    MaxEvents = 1
SPECIFICATION FairSpec
PROPERTY ComesToRest
