-------------------------------- MODULE MapFsm --------------------------------
(***************************************************************************)
(* The task state machine of a vehicle: components/mapfsm on the generic   *)
(* state machine components/common/@statemch.  Each cycle of 50 ms handles *)
(* the messages that have come, most of which queue an event, and then     *)
(* calls update: the current state's routine runs and may return an event, *)
(* the first queued event the state knows decides the next state, and the  *)
(* others are dropped.                                                     *)
(*                                                                         *)
(* Poses and maps are abstract: wherever a routine compares distances or   *)
(* angles, every outcome is possible.  A path is known by what it leads    *)
(* to: the waypoints it was clicked as, or the goal it was planned for.    *)
(***************************************************************************)
EXTENDS Integers, Sequences, SequencesExt

CONSTANTS
    Waypoints,    \* paths clicked by the operator             (Path messages)
    Goals,        \* goals clicked by the operator       (Goal_Point messages)
    Explores,     \* paths of the exploration planner  (Explore_Path messages)
    StateEvents,  \* events sent by the operator's displays (StateEvent messages)
    Looks,        \* types of Look_Msg messages sent
    UseServos,    \* values of Use_Servo messages sent
    PoseFirst,    \* whether commands are sent only after the first pose
    MaxRecoveries,  \* recoveries after which sGoToPoint plans again       (3)
    Timeout,      \* cycles after which the timeout of a routine has passed
    MaxEvents     \* bound: events queued in a cycle

ASSUME MapFsmAssumption ==
    /\ MaxRecoveries \in Nat \ {0} /\ Timeout \in Nat /\ MaxEvents \in Nat
    /\ PoseFirst \in BOOLEAN
    /\ StateEvents \subseteq {"stop", "forward", "backup", "spinLeft",
                               "spinRight", "follow", "explore"}
    /\ Looks \subseteq {"done", "look", "face", "track"}
    /\ UseServos \subseteq BOOLEAN
    /\ "none" \notin Waypoints \cup Goals \cup Explores

Manoeuvres == {"sSpinLeft", "sSpinRight", "sForceSpinLeft", "sForceSpinRight",
               "sBackup", "sForceBackup", "sForward", "sForceForward"}
States == Manoeuvres \cup
    {"sInitial", "sWait", "sPath", "sFollow", "sLook", "sTrackHuman",
     "sGoToPoint", "sExplore"}

VARIABLES
    state, events,   \* currentState and events of MP.sm
    posed,           \* MPOSE is not empty
    failed,          \* MATLAB has stopped the program at an error
    data             \* PATH_DATA, PATH, the routines' DATA, the last commands

vars == <<state, events, posed, failed, data>>

Init ==
    /\ state = "sInitial"
    /\ events = <<>>
    /\ posed = FALSE
    /\ failed = FALSE
    /\ data = [type        |-> "none",    \* or "waypoints", "planned"
               waypoints   |-> "none",
               goal        |-> "none",    \* goToPointGoal
               explore     |-> "none",    \* explorePath
               newExplore  |-> FALSE,     \* newExplorePath
               planned     |-> "none",    \* goToPointPath
               path        |-> "none",    \* PATH
               age         |-> 0,         \* cycles since t0, where it counts
               havePath    |-> FALSE,     \* of sGoToPoint
               recovering  |-> FALSE, attempts |-> 0,
               waitForGoal |-> 3,         \* of sExplore
               look        |-> "still",   \* of sLook
               bodyFace    |-> FALSE,
               useServo    |-> TRUE,
               servo       |-> "unset",   \* the last Servo1Cmd
               velocity    |-> "zero"]    \* the last SetVelocity

-----------------------------------------------------------------------------
(* Messages.  A handler that fails stops the program: ipcReceiveMessages   *)
(* does not catch the error.                                               *)

Commanded == ~failed /\ Len(events) < MaxEvents /\ (PoseFirst => posed)

\* setEvent
SetEvent(event) == events' = Append(events, event)

RecvPose ==
    /\ ~failed /\ ~posed
    /\ posed' = TRUE
    /\ UNCHANGED <<state, events, failed, data>>

RecvStateEvent ==
    /\ Commanded
    /\ \E event \in StateEvents : SetEvent(event)
    /\ UNCHANGED <<state, posed, failed, data>>

\* A slip: the type of the path is left as it was.
RecvPathUntyped ==
    /\ Commanded
    /\ \E w \in Waypoints : data' = [data EXCEPT !.waypoints = w]
    /\ SetEvent("path")
    /\ UNCHANGED <<state, posed, failed>>

RecvPath ==
    /\ Commanded
    /\ \E w \in Waypoints :
          data' = [data EXCEPT !.waypoints = w, !.type = "waypoints"]
    /\ SetEvent("path")
    /\ UNCHANGED <<state, posed, failed>>

\* A goal without a heading gets one from the pose, if there is one.
RecvGoalPoint ==
    /\ Commanded
    /\ \/ /\ \E g \in Goals : data' = [data EXCEPT !.goal = g]
          /\ SetEvent("goToPoint")
          /\ UNCHANGED failed
       \/ ~posed /\ failed' = TRUE /\ UNCHANGED <<data, events>>
    /\ UNCHANGED <<state, posed>>

RecvExplorePath ==
    /\ ~failed
    /\ \E e \in Explores :
          data' = [data EXCEPT !.explore = e, !.newExplore = TRUE]
    /\ UNCHANGED <<state, events, posed, failed>>

RecvLookMsg ==
    /\ Commanded
    /\ \/ /\ "done" \in Looks
          /\ SetEvent("done_looking")
          /\ UNCHANGED <<failed, data>>
       \/ \E type \in Looks \cap {"look", "face"} :
             /\ data' = [data EXCEPT !.bodyFace = (type = "face")]
             /\ SetEvent("look")
             /\ UNCHANGED failed
       \/ /\ "track" \in Looks
          /\ IF posed THEN /\ data' = [data EXCEPT !.bodyFace = FALSE]
                           /\ SetEvent("track")
                           /\ UNCHANGED failed
                      ELSE failed' = TRUE /\ UNCHANGED <<data, events>>
    /\ UNCHANGED <<state, posed>>

Looking == {"sLook", "sTrackHuman"}

\* Looking, the routine commands the servo.  To point it needs the pose.
RecvUseServo ==
    /\ Commanded
    /\ \E use \in UseServos \ {data.useServo} :
          /\ failed' = (~posed /\ state \notin Looking /\ ~use)
          /\ data' = [data EXCEPT !.useServo = use,
                        !.servo = IF state \in Looking THEN @
                                  ELSE IF use THEN "sweep" ELSE "point"]
    /\ UNCHANGED <<state, events, posed>>

-----------------------------------------------------------------------------
(* The routines of the states.  An update is the set of its outcomes, each *)
(* with the data it leaves and the event it returns ("none" for []).       *)

Outcome(d, ret) == [data |-> d, ret |-> ret]

SetVelocity(d, v) == [d EXCEPT !.velocity = v]

Elapsed(d) == d.age > Timeout

TimeoutOf(d) == IF Elapsed(d) THEN "timeout" ELSE "none"

\* sSpinLeft, sSpinRight, sBackup, sForward and their forced forms: one that
\* has gone the distance is done, whatever the time.
Direction(s) == CASE s \in {"sSpinLeft", "sForceSpinLeft"}   -> "left"
                  [] s \in {"sSpinRight", "sForceSpinRight"} -> "right"
                  [] s \in {"sBackup", "sForceBackup"}       -> "back"
                  [] s \in {"sForward", "sForceForward"}     -> "forward"

ManoeuvreUpdate(s, d) ==
    {Outcome(SetVelocity(d, Direction(s)), ret) : ret \in {"done", TimeoutOf(d)}}

\* A slip: a planned path comes first, whatever the type.
SPathEntryPlanned(d) ==
    [d EXCEPT !.age = 0,
              !.path = IF d.planned = "none" THEN d.waypoints ELSE d.planned]

SPathEntry(d) ==
    [d EXCEPT !.age = 0,
              !.path = IF d.type = "waypoints" THEN d.waypoints
                       ELSE d.planned]

\* The velocity "along" includes the turns towards and along the path.
\* Far from the path, and backing off at its start, a timeout is forgotten.
SPathUpdate(d) ==
    IF d.path = "none" THEN {Outcome(SetVelocity(d, "zero"), "stop")}
    ELSE {Outcome(d, "done"), Outcome(SetVelocity(d, "back"), "recovery"),
          Outcome(SetVelocity(d, "along"), "obstacle")}
         \cup {Outcome(SetVelocity(d, "along"), ret) :
                  ret \in {TimeoutOf(d), "off path"}}

SFollowUpdate(d) ==
    IF d.path = "none" THEN {Outcome(SetVelocity(d, "zero"), "stop")}
    ELSE {Outcome(d, "done"), Outcome(SetVelocity(d, "along"), TimeoutOf(d))}

\* A slip: the path of the former goal is kept.
SGoToPointEntryKept(d) == d

SGoToPointEntry(d) == [d EXCEPT !.havePath = FALSE]

\* getPath and the entry of sPath: the planner may find no path.
PlanFound(d) ==
    {SPathEntry([d EXCEPT !.planned = p, !.type = "planned", !.havePath = TRUE,
                          !.attempts = 0, !.recovering = FALSE]) :
        p \in {d.goal, "none"}}

Recover(d) ==
    IF d.recovering THEN d
    ELSE [d EXCEPT !.recovering = TRUE, !.attempts = @ + 1]

Recovered(d) ==
    [d EXCEPT !.recovering = FALSE,
              !.havePath = ~(d.recovering /\ d.attempts >= MaxRecoveries)]

\* What sGoToPoint makes of an outcome of sPath: it ends at the goal only.
SGoToPointReact(r) ==
    LET replan == Outcome([r.data EXCEPT !.havePath = FALSE], "none")
    IN  CASE r.ret \in {"obstacle", "timeout", "stop", "off path"} -> {replan}
          [] r.ret = "done"     -> {replan, r}
          [] r.ret = "recovery" -> {Outcome(Recover(r.data), "none")}
          [] r.ret = "none"     -> {Outcome(Recovered(r.data), "none")}

SGoToPointUpdate(d) ==
    LET ready == IF d.havePath THEN {d} ELSE PlanFound(d)
        after == UNION {SPathUpdate(e) : e \in ready}
    IN  (UNION {SGoToPointReact(r) : r \in after})
        \cup (IF d.havePath THEN {} ELSE {Outcome(d, "done")})

SExploreEntry(d) == [d EXCEPT !.waitForGoal = 3, !.age = 0]

\* A slip: any exploration path received counts as new.
NewGoalUnflagged(d) ==
    IF d.explore = "none" THEN d
    ELSE SGoToPointEntry([d EXCEPT !.newExplore = FALSE, !.goal = d.explore,
                                   !.waitForGoal = 0])

NewGoal(d) ==
    IF ~d.newExplore THEN d
    ELSE SGoToPointEntry([d EXCEPT !.newExplore = FALSE, !.goal = d.explore,
                                   !.waitForGoal = 0])

\* The path to its end, a pause, a turn on the spot, and rest.
SExploreStep(d) ==
    CASE d.waitForGoal = 0 ->
            {IF r.ret = "done"
             THEN [SetVelocity(r.data, "zero") EXCEPT !.waitForGoal = 1, !.age = 0]
             ELSE r.data : r \in SGoToPointUpdate(d)}
      [] d.waitForGoal = 1 ->
            {IF Elapsed(d) THEN [d EXCEPT !.waitForGoal = 2, !.age = 0] ELSE d}
      [] d.waitForGoal = 2 ->
            {IF r.ret = "none" THEN r.data ELSE [r.data EXCEPT !.waitForGoal = 3] :
                r \in ManoeuvreUpdate("sSpinLeft", d)}
      [] d.waitForGoal = 3 -> {SetVelocity(d, "zero")}

SExploreUpdate(d) == {Outcome(e, "none") : e \in SExploreStep(NewGoal(d))}

SLookEntry(d) == [d EXCEPT !.look = "still"]

\* The servo points at the target; the vehicle turns if that is not enough.
Turn(d, look) ==
    [d EXCEPT !.servo = "point", !.look = look,
              !.velocity = IF look = "still" THEN @ ELSE look]

SLookUpdate(d) ==
    {Outcome(e, "none") :
        e \in {Turn(d, "left"), Turn(d, "right"),
               Turn(SetVelocity(d, "zero"), "still")}
              \cup (IF d.bodyFace THEN {} ELSE {Turn(d, d.look)})}

\* A slip: the servo is left where the state has pointed it.
SLookExitForgotten(d) == d

SLookExit(d) == IF d.useServo THEN [d EXCEPT !.servo = "sweep"] ELSE d

StateUpdate(s, d) ==
    CASE s = "sInitial"    -> {Outcome(d, IF posed THEN "pose" ELSE "none")}
      [] s = "sWait"       -> {Outcome(d, "none")}
      [] s \in Manoeuvres  -> ManoeuvreUpdate(s, d)
      [] s = "sPath"       -> SPathUpdate(d)
      [] s = "sFollow"     -> SFollowUpdate(d)
      [] s = "sGoToPoint"  -> SGoToPointUpdate(d)
      [] s = "sExplore"    -> SExploreUpdate(d)
      [] s \in Looking     -> SLookUpdate(d)

StateEntry(s, former) ==
  LET d == [former EXCEPT !.age = 0]
  IN
    CASE s \in Manoeuvres \cup {"sFollow", "sInitial", "sWait"} -> d
      [] s = "sPath"                           -> SPathEntry(d)
      [] s = "sGoToPoint"                      -> SGoToPointEntry(d)
      [] s = "sExplore"                        -> SExploreEntry(d)
      [] s \in Looking                         -> SLookEntry(d)

StateExit(s, d) ==
    CASE s \in Manoeuvres     -> SetVelocity(d, "zero")
      [] s = "sLook"          -> SLookExit(d)
      [] s = "sTrackHuman"    -> SLookExit(SetVelocity(d, "zero"))
      [] OTHER                -> d

-----------------------------------------------------------------------------
(* The transitions, and the update of the state machine.                   *)

Orders == [path |-> "sPath", backup |-> "sBackup", forward |-> "sForward",
           spinLeft |-> "sSpinLeft", spinRight |-> "sSpinRight",
           look |-> "sLook", track |-> "sTrackHuman", explore |-> "sExplore",
           goToPoint |-> "sGoToPoint"]

\* "follow" in a manoeuvre forces it; sForceForward names sForceBackup.
FollowTarget(s) ==
    CASE s \in {"sSpinLeft", "sForceSpinLeft"}                  -> "sForceSpinLeft"
      [] s \in {"sSpinRight", "sForceSpinRight"}                -> "sForceSpinRight"
      [] s \in {"sBackup", "sForceBackup", "sForceForward"}     -> "sForceBackup"
      [] s = "sForward"                                         -> "sForceForward"
      [] OTHER                                                  -> "sFollow"

\* The states in which an event ends what the vehicle does.
Ends == [stop     |-> States \ {"sInitial", "sWait"},
         done     |-> Manoeuvres \cup {"sPath", "sFollow", "sGoToPoint"},
         timeout  |-> Manoeuvres \cup {"sPath"},
         obstacle |-> {"sPath"}]

\* The next state, or "none" if the state does not know the event.
Target(s, event) ==
    IF s = "sInitial" THEN IF event = "pose" THEN "sWait" ELSE "none"
    ELSE IF event \in DOMAIN Orders THEN Orders[event]
    ELSE IF event = "follow" THEN FollowTarget(s)
    ELSE IF event \in DOMAIN Ends /\ s \in Ends[event] THEN "sWait"
    ELSE IF event = "timeout" /\ s = "sFollow" THEN "sPath"
    ELSE IF event = "done_looking" /\ s \in Looking THEN "sExplore"
    ELSE "none"

\* A slip: the last known event decides.
DecisionOfLast(s, queue) ==
    LET known == {i \in DOMAIN queue : Target(s, queue[i]) # "none"}
    IN  IF known = {} THEN "none"
        ELSE Target(s, queue[CHOOSE i \in known : \A j \in known : j <= i])

\* The state the first known event leads to.
Decision(s, queue) ==
    LET known == {i \in DOMAIN queue : Target(s, queue[i]) # "none"}
    IN  IF known = {} THEN "none"
        ELSE Target(s, queue[CHOOSE i \in known : \A j \in known : i <= j])

\* A slip: t0 is taken at every update.
AgedAnew(s, d) == [d EXCEPT !.age = 1]

\* Time passes for the routines that look at it.
Aged(s, d) ==
    IF s \in Looking \cup {"sInitial", "sWait"} \/ Elapsed(d) THEN d
    ELSE [d EXCEPT !.age = @ + 1]

\* A state's entry fails that reads a field of PATH_DATA never assigned, and
\* so does its update.
Undefined(s, d) == \/ s = "sPath" /\ d.type = "none"
                   \/ s = "sGoToPoint" /\ d.goal = "none"

Update ==
    /\ ~failed
    /\ \E r \in StateUpdate(state, Aged(state, data)) :
          LET queue == IF r.ret = "none" THEN events ELSE Append(events, r.ret)
              next  == Decision(state, queue)
          IN  IF next = "none"
              THEN data' = r.data /\ UNCHANGED <<state, failed>>
              ELSE /\ state' = next
                   /\ data' = StateEntry(next, StateExit(state, r.data))
                   /\ failed' = Undefined(next, data')
    /\ events' = <<>>
    /\ UNCHANGED posed

Message == \/ RecvPose \/ RecvStateEvent \/ RecvPath \/ RecvGoalPoint
           \/ RecvExplorePath \/ RecvLookMsg \/ RecvUseServo

Next == Message \/ Update

Spec == Init /\ [][Next]_vars

FairSpec == Spec /\ WF_vars(Update)

-----------------------------------------------------------------------------
(* Properties.                                                             *)

\* No handler or routine reads what was never assigned: every state is entered
\* with the path or goal it needs, and the handlers that read the pose run
\* when there is one ("Waiting for initial pose", sInitial.m:8).
NoError == ~failed

\* Outside the states that look, the servo does what Use_Servo asked for last,
\* though messages and exits of states both command it
\* (mapfsmRecvUseServoFcn.m, sLook.m:22-32).
ServoAsAsked ==
    state \notin Looking /\ ~failed
      => data.servo \in IF data.useServo THEN {"unset", "sweep"} ELSE {"point"}

\* An update that looks at events: messages only add to them.
Cycle == events # <<>> /\ events' = <<>>

FirstKnown(event) ==
    \E i \in DOMAIN events :
        /\ events[i] = event /\ Target(state, event) # "none"
        /\ \A j \in 1 .. i - 1 : Target(state, events[j]) = "none"

\* The planner is called in this cycle, before the events are looked at.
Planning ==
    \/ state = "sGoToPoint" /\ ~data.havePath
    \/ state = "sExplore" /\ NewGoal(data).waitForGoal = 0
                           /\ ~NewGoal(data).havePath

\* The operator's waypoints are the path of the vehicle that takes them up
\* ("PATH_DATA.type = 0; %Waypoints", mapfsmRecvPathFcn.m:7), but for the
\* cycles in which the planner is called: there its path replaces them.
WaypointsFollowedUnlessPlanning ==
    [][Cycle /\ FirstKnown("path") /\ ~Planning
         => data'.path = data.waypoints]_vars

\* A goal survives the cycle in which it is taken up, unless an exploration
\* path takes its place (sExplore.m:29-34).
GoalKept ==
    [][Cycle /\ FirstKnown("goToPoint")
         => \/ data'.goal = data.goal
            \/ state = "sExplore" /\ data.newExplore]_vars

\* A vehicle that goes to a point follows a path planned for its goal, and one
\* that explores has an exploration path for its goal: no message changes
\* either under it, whatever orders are dropped.
DrivesToItsGoal ==
    "goToPoint" \notin ToSet(events) =>
      /\ state = "sGoToPoint" /\ data.havePath
           => data.path \in {data.goal, "none"}
      /\ state = "sExplore" /\ data.waitForGoal = 0
           => /\ data.goal \in Explores
              /\ data.havePath => data.path \in {data.goal, "none"}

\* A stop is lost only behind another order of the same cycle, and only a
\* vehicle that waits need not obey it (update.m:14-28, mapfsm.m:67-279).
StopObeyed ==
    [][Cycle /\ state \notin {"sInitial", "sWait"} =>
         \A i \in DOMAIN events :
            /\ events[i] = "stop"
            /\ \A j \in 1 .. i - 1 : Target(state, events[j]) = "none"
            => state' = "sWait"]_vars

\* Left alone, a vehicle ends its manoeuvres and its blind following, and one
\* that explores comes to rest at the end of its path: it does not pause or
\* turn for ever, and stands still (timeouts of sSpinLeft.m:6 and its kind,
\* sFollow.m:6, sExplore.m:36-57).
ComesToRest ==
    <>[](events = <<>> /\ ~data.newExplore)
      => <>[](/\ state \notin Manoeuvres \cup {"sFollow"}
              /\ state = "sExplore" /\ data.waitForGoal # 0
                   => data.waitForGoal = 3 /\ data.velocity = "zero")

=============================================================================
