---------------------------- MODULE MapFsmProofs ----------------------------
(***************************************************************************)
(* The task state machine, for any paths, goals, timeouts and numbers of   *)
(* events in a cycle.                                                      *)
(*                                                                         *)
(* The first part says which data each routine, entry and exit leaves      *)
(* alone, the second which event decides a cycle.  MapInv says what queued *)
(* events and data know of each other: between the message and the update  *)
(* that takes it up, no other message takes back what it brought.          *)
(***************************************************************************)
EXTENDS MapFsm, SequenceTheorems, WellFoundedInduction, TLAPS

-----------------------------------------------------------------------------
(* The data the routines share.                                            *)

Fields == {"type", "waypoints", "goal", "explore", "newExplore", "planned",
           "path", "age", "havePath", "recovering", "attempts", "waitForGoal",
           "look", "bodyFace", "useServo", "servo", "velocity"}

IsData(d) == d = [f \in Fields |-> d[f]] /\ d.waitForGoal \in 0 .. 3

\* What no routine changes, and what only the planner and exploration change.
SameOrders(d, e) ==
    /\ IsData(e)
    /\ e.waypoints = d.waypoints /\ e.explore = d.explore
    /\ e.useServo = d.useServo

SameGoal(d, e) ==
    /\ SameOrders(d, e)
    /\ e.goal = d.goal /\ e.newExplore = d.newExplore

SamePath(d, e) ==
    /\ SameGoal(d, e)
    /\ e.type = d.type /\ e.path = d.path /\ e.waitForGoal = d.waitForGoal

Same(d, e) == SamePath(d, e) /\ e.havePath = d.havePath /\ e.servo = d.servo

\* The path is left alone, and may be given up, or the planner has replaced it.
PathFor(d, e) ==
    \/ e.type = d.type /\ e.path = d.path /\ (e.havePath => d.havePath)
    \/ ~d.havePath /\ e.type = "planned" /\ e.path \in {d.goal, "none"}

LEMMA VelocityOnly ==
    ASSUME NEW d, IsData(d), NEW v
    PROVE  Same(d, SetVelocity(d, v))
  BY DEF IsData, Fields, SetVelocity, Same, SamePath, SameGoal, SameOrders

LEMMA AgeOnly ==
    ASSUME NEW s, NEW d, IsData(d)
    PROVE  Same(d, Aged(s, d))
  BY DEF IsData, Fields, Aged, Same, SamePath, SameGoal, SameOrders

LEMMA Itself ==
    ASSUME NEW d, IsData(d)
    PROVE  Same(d, d)
  BY DEF Same, SamePath, SameGoal, SameOrders

Waiting(d, w, a) == [d EXCEPT !.waitForGoal = w, !.age = a]

LEMMA WaitOnly ==
    ASSUME NEW d, IsData(d), NEW w \in 0 .. 3, NEW a
    PROVE  LET e == Waiting(d, w, a)
           IN  /\ SameGoal(d, e) /\ e.type = d.type /\ e.path = d.path
               /\ e.havePath = d.havePath /\ e.servo = d.servo /\ e.waitForGoal = w
  BY DEF IsData, Fields, SameGoal, SameOrders, Waiting

GoalTaken(d, w) == [d EXCEPT !.newExplore = FALSE, !.goal = d.explore, !.waitForGoal = w]

LEMMA GoalOnly ==
    ASSUME NEW d, IsData(d), NEW w \in 0 .. 3
    PROVE  LET g == GoalTaken(d, w)
           IN  /\ SameOrders(d, g) /\ g.servo = d.servo
               /\ g.type = d.type /\ g.path = d.path
               /\ g.goal = d.explore /\ ~g.newExplore /\ g.waitForGoal = w
  BY DEF IsData, Fields, SameOrders, GoalTaken

LEMMA Manoeuvring ==
    ASSUME NEW s, NEW d, IsData(d), NEW r \in ManoeuvreUpdate(s, d)
    PROVE  Same(d, r.data) /\ r.ret \in {"done", "timeout", "none"}
  BY VelocityOnly DEF ManoeuvreUpdate, Outcome, TimeoutOf

PathReturns == {"done", "stop", "recovery", "obstacle", "timeout", "off path", "none"}

LEMMA FollowingPath ==
    ASSUME NEW d, IsData(d), NEW r \in SPathUpdate(d)
    PROVE  Same(d, r.data) /\ r.ret \in PathReturns
<1>1. Same(d, d) /\ Same(d, SetVelocity(d, "zero")) /\ Same(d, SetVelocity(d, "back"))
      /\ Same(d, SetVelocity(d, "along"))
  BY VelocityOnly, Itself
<1>2. TimeoutOf(d) \in PathReturns
  BY DEF TimeoutOf, PathReturns
<1>3. \E e \in {d, SetVelocity(d, "zero"), SetVelocity(d, "back"), SetVelocity(d, "along")},
         ret \in PathReturns : r = [data |-> e, ret |-> ret]
  <2>1. CASE d.path = "none"
    BY <2>1 DEF SPathUpdate, Outcome, PathReturns
  <2>2. CASE d.path # "none"
    BY <1>2, <2>2 DEF SPathUpdate, Outcome, PathReturns
  <2> QED
    BY <2>1, <2>2
<1> QED
  BY <1>1, <1>3

LEMMA FollowingBlindly ==
    ASSUME NEW d, IsData(d), NEW r \in SFollowUpdate(d)
    PROVE  /\ Same(d, r.data) /\ r.ret \in {"done", "stop", "timeout", "none"}
           /\ r.ret = "timeout" => d.path # "none"
  BY VelocityOnly, Itself DEF SFollowUpdate, Outcome, TimeoutOf

LEMMA Pointing ==
    ASSUME NEW d, IsData(d), NEW look
    PROVE  /\ SamePath(d, Turn(d, look)) /\ Turn(d, look).servo = "point"
  BY DEF Turn, IsData, Fields, SamePath, SameGoal, SameOrders

LEMMA LookingAt ==
    ASSUME NEW d, IsData(d), NEW r \in SLookUpdate(d)
    PROVE  SamePath(d, r.data) /\ r.data.servo = "point" /\ r.ret = "none"
<1>1. IsData(SetVelocity(d, "zero")) /\ SamePath(d, SetVelocity(d, "zero"))
  BY VelocityOnly DEF Same, SamePath, SameGoal, SameOrders
<1>2. SamePath(d, Turn(SetVelocity(d, "zero"), "still"))
      /\ Turn(SetVelocity(d, "zero"), "still").servo = "point"
  BY <1>1, Pointing DEF SamePath, SameGoal, SameOrders
<1> QED
  BY <1>2, Pointing DEF SLookUpdate, Outcome

LEMMA Planning1 ==
    ASSUME NEW d, IsData(d), NEW e \in PlanFound(d)
    PROVE  /\ SameGoal(d, e) /\ e.type = "planned" /\ e.path \in {d.goal, "none"}
           /\ e.waitForGoal = d.waitForGoal /\ e.servo = d.servo /\ e.havePath
<1>1. PICK p \in {d.goal, "none"} :
         e = SPathEntry([d EXCEPT !.planned = p, !.type = "planned", !.havePath = TRUE,
                                  !.attempts = 0, !.recovering = FALSE])
  BY DEF PlanFound
<1> DEFINE g == [d EXCEPT !.planned = p, !.type = "planned", !.havePath = TRUE,
                          !.attempts = 0, !.recovering = FALSE]
<1>2. /\ SameGoal(d, g) /\ g.type = "planned" /\ g.planned = p
      /\ g.waitForGoal = d.waitForGoal /\ g.servo = d.servo /\ g.havePath
  BY DEF IsData, Fields, SameGoal, SameOrders
<1>3. e = [g EXCEPT !.age = 0, !.path = g.planned]
  BY <1>1, <1>2 DEF SPathEntry
<1> HIDE DEF g
<1> QED
  BY <1>2, <1>3 DEF IsData, Fields, SameGoal, SameOrders

LEMMA Recovering ==
    ASSUME NEW d, IsData(d)
    PROVE  /\ Same(d, Recover(d))
           /\ SamePath(d, Recovered(d)) /\ Recovered(d).servo = d.servo
  BY DEF Recover, Recovered, IsData, Fields, Same, SamePath, SameGoal, SameOrders

LEMMA Reacting ==
    ASSUME NEW o, IsData(o.data), o.ret \in PathReturns, NEW r \in SGoToPointReact(o)
    PROVE  /\ SamePath(o.data, r.data) /\ r.data.servo = o.data.servo
           /\ r.ret \in {"none", "done"}
<1>1. SamePath(o.data, [o.data EXCEPT !.havePath = FALSE])
      /\ [o.data EXCEPT !.havePath = FALSE].servo = o.data.servo
  BY DEF IsData, Fields, SamePath, SameGoal, SameOrders
<1>2. SamePath(o.data, o.data)
  BY Itself DEF Same
<1>3. SamePath(o.data, Recover(o.data)) /\ Recover(o.data).servo = o.data.servo
  BY Recovering DEF Same
<1>4. SamePath(o.data, Recovered(o.data)) /\ Recovered(o.data).servo = o.data.servo
  BY Recovering
<1>5. \/ r = o /\ r.ret = "done"
      \/ \E e \in {[o.data EXCEPT !.havePath = FALSE], Recover(o.data), Recovered(o.data)} :
            r = [data |-> e, ret |-> "none"]
  <2>1. CASE o.ret \in {"obstacle", "timeout", "stop", "off path"}
    BY <2>1 DEF SGoToPointReact, Outcome
  <2>2. CASE o.ret = "done"
    BY <2>2 DEF SGoToPointReact, Outcome
  <2>3. CASE o.ret = "recovery"
    BY <2>3 DEF SGoToPointReact, Outcome
  <2>4. CASE o.ret = "none"
    BY <2>4 DEF SGoToPointReact, Outcome
  <2> QED
    BY <2>1, <2>2, <2>3, <2>4 DEF PathReturns
<1>6. CASE r = o /\ r.ret = "done"
  BY <1>2, <1>6
<1>7. ASSUME NEW e \in {[o.data EXCEPT !.havePath = FALSE], Recover(o.data), Recovered(o.data)},
             r = [data |-> e, ret |-> "none"]
      PROVE  /\ SamePath(o.data, r.data) /\ r.data.servo = o.data.servo
             /\ r.ret \in {"none", "done"}
  BY <1>1, <1>3, <1>4, <1>7
<1> QED
  BY <1>5, <1>6, <1>7

\* sGoToPoint changes the path by the planner only, and then has one for its goal.
GoneToPoint(d, e) ==
    /\ SameGoal(d, e) /\ e.waitForGoal = d.waitForGoal /\ e.servo = d.servo
    /\ PathFor(d, e)

LEMMA GoingToPoint ==
    ASSUME NEW d, IsData(d), NEW r \in SGoToPointUpdate(d)
    PROVE  GoneToPoint(d, r.data) /\ r.ret \in {"none", "done"}
<1>1. CASE r = Outcome(d, "done") /\ ~d.havePath
  BY <1>1, Itself DEF Outcome, GoneToPoint, PathFor, Same, SamePath
<1>2. CASE \E e \in IF d.havePath THEN {d} ELSE PlanFound(d) :
               \E o \in SPathUpdate(e) : r \in SGoToPointReact(o)
  <2>1. PICK e \in (IF d.havePath THEN {d} ELSE PlanFound(d)) :
                \E o \in SPathUpdate(e) : r \in SGoToPointReact(o)
    BY <1>2
  <2>2. PICK o \in SPathUpdate(e) : r \in SGoToPointReact(o)
    BY <2>1
  <2>3. /\ SameGoal(d, e) /\ e.waitForGoal = d.waitForGoal /\ e.servo = d.servo
        /\ PathFor(d, e) /\ (d.havePath => e = d)
        /\ ~d.havePath => e.type = "planned" /\ e.path \in {d.goal, "none"}
    <3>1. CASE d.havePath
      BY <2>1, <3>1, Itself DEF Same, SamePath, PathFor
    <3>2. CASE ~d.havePath
      BY <2>1, <3>2, Planning1 DEF PathFor
    <3> QED
      BY <3>1, <3>2
  <2>4. Same(e, o.data) /\ o.ret \in PathReturns
    BY <2>3, FollowingPath DEF SameGoal, SameOrders
  <2>5. SamePath(o.data, r.data) /\ r.data.servo = o.data.servo /\ r.ret \in {"none", "done"}
    BY <2>2, <2>4, Reacting DEF Same, SamePath, SameGoal, SameOrders
  <2> QED
    BY <2>3, <2>4, <2>5 DEF GoneToPoint, PathFor, Same, SamePath, SameGoal, SameOrders
<1>3. \/ \E e \in IF d.havePath THEN {d} ELSE PlanFound(d) :
               \E o \in SPathUpdate(e) : r \in SGoToPointReact(o)
      \/ r \in IF d.havePath THEN {} ELSE {Outcome(d, "done")}
  <2> DEFINE ready == IF d.havePath THEN {d} ELSE PlanFound(d)
             after == UNION {SPathUpdate(e) : e \in ready}
             rest  == IF d.havePath THEN {} ELSE {Outcome(d, "done")}
  <2>1. r \in (UNION {SGoToPointReact(o) : o \in after}) \cup rest
    BY DEF SGoToPointUpdate
  <2> HIDE DEF rest, ready, after
  <2>2. CASE r \in UNION {SGoToPointReact(o) : o \in after}
    <3>1. PICK o \in after : r \in SGoToPointReact(o)
      BY <2>2
    <3>2. PICK e \in ready : o \in SPathUpdate(e)
      BY <3>1 DEF after
    <3> QED
      BY Zenon, <3>1, <3>2 DEF ready
  <2>3. CASE r \in rest
    BY Zenon, <2>3 DEF rest
  <2> QED
    BY Zenon, <2>1, <2>2, <2>3
<1>4. r \in (IF d.havePath THEN {} ELSE {Outcome(d, "done")})
        => r = Outcome(d, "done") /\ ~d.havePath
  OBVIOUS
<1> QED
  BY <1>1, <1>2, <1>3, <1>4

\* A new exploration path becomes the goal.
LEMMA TakingGoal ==
    ASSUME NEW d, IsData(d)
    PROVE  /\ SameOrders(d, NewGoal(d))
           /\ NewGoal(d).servo = d.servo
           /\ NewGoal(d).type = d.type /\ NewGoal(d).path = d.path
           /\ ~d.newExplore => NewGoal(d) = d
           /\ d.newExplore => /\ NewGoal(d).goal = d.explore /\ ~NewGoal(d).newExplore
                              /\ ~NewGoal(d).havePath /\ NewGoal(d).waitForGoal = 0
<1>1. CASE ~d.newExplore
  BY <1>1 DEF NewGoal, SameOrders
<1>2. CASE d.newExplore
  <2> DEFINE g == GoalTaken(d, 0)
  <2>1. /\ SameOrders(d, g) /\ g.servo = d.servo /\ g.type = d.type /\ g.path = d.path
        /\ g.goal = d.explore /\ ~g.newExplore /\ g.waitForGoal = 0
    BY GoalOnly
  <2>2. NewGoal(d) = [g EXCEPT !.havePath = FALSE]
    BY <1>2 DEF NewGoal, SGoToPointEntry, GoalTaken
  <2> HIDE DEF g
  <2> QED
    BY <1>2, <2>1, <2>2 DEF IsData, Fields, SameOrders
<1> QED
  BY <1>1, <1>2

LEMMA ExploringStep ==
    ASSUME NEW d, IsData(d), NEW e \in SExploreStep(d)
    PROVE  /\ SameGoal(d, e) /\ e.servo = d.servo
           /\ \/ d.waitForGoal = 0 /\ PathFor(d, e)
              \/ e.type = d.type /\ e.path = d.path
                 /\ (e.waitForGoal = 0 => d.waitForGoal = 0 /\ e = d)
<1>1. CASE d.waitForGoal = 0
  <2>1. PICK r \in SGoToPointUpdate(d) :
           e = IF r.ret = "done"
               THEN [SetVelocity(r.data, "zero") EXCEPT !.waitForGoal = 1, !.age = 0]
               ELSE r.data
    <3>1. SExploreStep(d) =
            {IF r.ret = "done"
             THEN [SetVelocity(r.data, "zero") EXCEPT !.waitForGoal = 1, !.age = 0]
             ELSE r.data : r \in SGoToPointUpdate(d)}
      <4>1. d.waitForGoal # 1 /\ d.waitForGoal # 2 /\ d.waitForGoal # 3
        BY <1>1
      <4> QED
        BY Zenon, <1>1, <4>1 DEF SExploreStep
    <3> QED
      BY <3>1
  <2>2. GoneToPoint(d, r.data)
    BY GoingToPoint
  <2>3. CASE r.ret # "done"
    BY <1>1, <2>1, <2>2, <2>3 DEF GoneToPoint
  <2>4. CASE r.ret = "done"
    <3> DEFINE g == SetVelocity(r.data, "zero")
    <3>1. Same(r.data, g)
      BY <2>2, VelocityOnly DEF GoneToPoint, SameGoal, SameOrders
    <3>2. e = Waiting(g, 1, 0)
      BY <2>1, <2>4 DEF Waiting
    <3> HIDE DEF g
    <3>3. IsData(g)
      BY <3>1 DEF Same, SamePath, SameGoal, SameOrders
    <3>4. /\ SameGoal(g, e) /\ e.type = g.type /\ e.path = g.path
          /\ e.havePath = g.havePath /\ e.servo = g.servo
      BY <3>2, <3>3, WaitOnly
    <3> QED
      BY <1>1, <2>2, <3>1, <3>4
      DEF GoneToPoint, PathFor, Same, SamePath, SameGoal, SameOrders
  <2> QED
    BY <2>3, <2>4
<1>2. CASE d.waitForGoal = 1
  <2>1. e = d \/ e = Waiting(d, 2, 0)
    <3>1. SExploreStep(d) =
            {IF Elapsed(d) THEN Waiting(d, 2, 0) ELSE d}
      BY <1>2 DEF SExploreStep, Waiting
    <3> QED
      BY <3>1
  <2>2. CASE e = d
    BY <1>2, <2>2, Itself DEF Same, SamePath
  <2>3. CASE e = Waiting(d, 2, 0)
    BY <2>3, WaitOnly
  <2> QED
    BY <2>1, <2>2, <2>3
<1>3. CASE d.waitForGoal = 2
  <2>1. PICK r \in ManoeuvreUpdate("sSpinLeft", d) :
           e = IF r.ret = "none" THEN r.data ELSE [r.data EXCEPT !.waitForGoal = 3]
    BY <1>3 DEF SExploreStep
  <2>2. Same(d, r.data)
    BY Manoeuvring
  <2> QED
    BY <1>3, <2>1, <2>2 DEF IsData, Fields, Same, SamePath, SameGoal, SameOrders
<1>4. CASE d.waitForGoal = 3
  <2>1. e = SetVelocity(d, "zero")
    BY <1>4 DEF SExploreStep
  <2> QED
    BY <1>4, <2>1, VelocityOnly DEF Same, SamePath
<1>5. d.waitForGoal \in 0 .. 3
  BY DEF IsData
<1> QED
  BY <1>1, <1>2, <1>3, <1>4, <1>5

-----------------------------------------------------------------------------
(* What a routine, an exit and an entry do, in any state.                  *)

Returns == PathReturns \cup {"pose"}

\* The routine calls the planner.
Plans(s, d) ==
    \/ s = "sGoToPoint" /\ ~d.havePath
    \/ s = "sExplore" /\ (d.newExplore \/ (d.waitForGoal = 0 /\ ~d.havePath))

Ran(s, d, r) ==
    /\ SameOrders(d, r.data) /\ r.ret \in Returns
    /\ r.data.newExplore => d.newExplore
    /\ r.data.goal = IF s = "sExplore" /\ d.newExplore THEN d.explore ELSE d.goal
    /\ s \notin Looking => r.data.servo = d.servo
    /\ s \in Looking => r.data.servo = "point"
    /\ \/ r.data.type = d.type /\ r.data.path = d.path
       \/ r.data.type = "planned" /\ Plans(s, d)
    /\ s = "sGoToPoint" => PathFor(d, r.data)
    /\ s = "sExplore" /\ r.data.waitForGoal = 0 =>
          /\ PathFor(NewGoal(d), r.data)
          /\ r.data.goal = NewGoal(d).goal /\ (d.newExplore \/ d.waitForGoal = 0)
    /\ s = "sFollow" /\ r.ret = "timeout" => d.path # "none"

LEMMA ExploringRan ==
    ASSUME NEW d, IsData(d), NEW r \in SExploreUpdate(d)
    PROVE  Ran("sExplore", d, r)
<1>1. PICK e \in SExploreStep(NewGoal(d)) : r = [data |-> e, ret |-> "none"]
  BY DEF SExploreUpdate, Outcome
<1> DEFINE g == NewGoal(d)
<1>2. /\ SameOrders(d, g) /\ g.servo = d.servo
      /\ g.type = d.type /\ g.path = d.path
      /\ ~d.newExplore => g = d
      /\ d.newExplore => g.goal = d.explore /\ ~g.newExplore /\ ~g.havePath
  BY TakingGoal
<1> HIDE DEF g
<1>3. /\ SameGoal(g, e) /\ e.servo = g.servo
      /\ \/ g.waitForGoal = 0 /\ PathFor(g, e)
         \/ e.type = g.type /\ e.path = g.path
            /\ (e.waitForGoal = 0 => g.waitForGoal = 0 /\ e = g)
  BY <1>1, <1>2, ExploringStep DEF SameOrders, g
<1>4. r.data = e /\ r.ret = "none" /\ r.ret \in Returns
  BY <1>1 DEF Returns, PathReturns
<1>5. SameOrders(d, e) /\ e.servo = d.servo /\ (e.newExplore => d.newExplore)
  BY <1>2, <1>3 DEF SameGoal, SameOrders
<1>6. e.goal = IF d.newExplore THEN d.explore ELSE d.goal
  BY <1>2, <1>3 DEF SameGoal
<1>7. \/ e.type = d.type /\ e.path = d.path
      \/ e.type = "planned" /\ Plans("sExplore", d)
  <2>1. CASE d.newExplore
    <3>1. Plans("sExplore", d)
      BY Zenon, <2>1 DEF Plans
    <3>2. e.type = "planned" \/ (e.type = g.type /\ e.path = g.path)
      BY <1>3 DEF PathFor
    <3> QED
      BY <1>2, <3>1, <3>2
  <2>2. CASE ~d.newExplore
    BY <1>2, <1>3, <2>2 DEF PathFor, Plans
  <2> QED
    BY <2>1, <2>2
<1>8. e.waitForGoal = 0 => /\ PathFor(g, e) /\ e.goal = g.goal
                           /\ (d.newExplore \/ d.waitForGoal = 0)
  BY <1>2, <1>3 DEF PathFor, SameGoal
<1> QED
  BY <1>4, <1>5, <1>6, <1>7, <1>8 DEF Ran, Looking, g

LEMMA Routine ==
    ASSUME NEW s \in States, NEW d, IsData(d), NEW r \in StateUpdate(s, d)
    PROVE  Ran(s, d, r)
<1>1. ASSUME Same(d, r.data), r.ret \in Returns,
             s \notin Looking \cup {"sGoToPoint", "sExplore", "sFollow"}
      PROVE  Ran(s, d, r)
  BY <1>1 DEF Ran, Same, SamePath, SameGoal, SameOrders
<1>2. CASE s \in {"sInitial", "sWait"}
  <2>1. r.data = d /\ r.ret \in {"pose", "none"}
    BY <1>2 DEF StateUpdate, Outcome, Manoeuvres, Looking
  <2> QED
    BY <1>1, <1>2, <2>1, Itself DEF Looking, Returns, PathReturns
<1>3. CASE s \in Manoeuvres
  <2>1. r \in ManoeuvreUpdate(s, d)
    BY <1>3 DEF StateUpdate, Manoeuvres, Looking
  <2>2. Same(d, r.data) /\ r.ret \in {"done", "timeout", "none"}
    BY <2>1, Manoeuvring
  <2> QED
    BY <1>1, <1>3, <2>2 DEF Looking, Manoeuvres, Returns, PathReturns
<1>4. CASE s = "sPath"
  <2>1. r \in SPathUpdate(d)
    BY <1>4 DEF StateUpdate, Manoeuvres, Looking
  <2> QED
    BY <1>1, <1>4, <2>1, FollowingPath DEF Looking, Returns
<1>5. CASE s = "sFollow"
  <2>1. r \in SFollowUpdate(d)
    BY <1>5 DEF StateUpdate, Manoeuvres, Looking
  <2> QED
    BY <1>5, <2>1, FollowingBlindly
    DEF Looking, Returns, PathReturns, Ran, Same, SamePath, SameGoal, SameOrders
<1>6. CASE s = "sGoToPoint"
  <2>1. r \in SGoToPointUpdate(d)
    BY <1>6 DEF StateUpdate, Manoeuvres, Looking
  <2> QED
    BY <1>6, <2>1, GoingToPoint
    DEF Looking, Returns, PathReturns, Ran, GoneToPoint, PathFor, SameGoal, Plans
<1>7. CASE s = "sExplore"
  <2>1. r \in SExploreUpdate(d)
    BY <1>7 DEF StateUpdate, Manoeuvres, Looking
  <2> QED
    BY <1>7, <2>1, ExploringRan
<1>8. CASE s \in Looking
  <2>1. r \in SLookUpdate(d)
    BY <1>8 DEF StateUpdate, Manoeuvres, Looking
  <2> QED
    BY <1>8, <2>1, LookingAt
    DEF Looking, Returns, PathReturns, Ran, SamePath, SameGoal, SameOrders
<1> QED
  BY <1>2, <1>3, <1>4, <1>5, <1>6, <1>7, <1>8 DEF States, Looking

LEMMA Exiting ==
    ASSUME NEW s \in States, NEW d, IsData(d)
    PROVE  LET e == StateExit(s, d)
           IN  /\ SamePath(d, e)
               /\ s \notin Looking => e.servo = d.servo
               /\ s \in Looking => e.servo = IF d.useServo THEN "sweep" ELSE d.servo
<1>1. ASSUME NEW c, IsData(c)
      PROVE  SamePath(c, SLookExit(c)) /\ SLookExit(c).servo = IF c.useServo THEN "sweep" ELSE c.servo
  BY <1>1 DEF SLookExit, IsData, Fields, SamePath, SameGoal, SameOrders
<1>2. Same(d, SetVelocity(d, "zero")) /\ Same(d, d)
  BY VelocityOnly, Itself
<1>3. CASE s \in Manoeuvres
  BY <1>2, <1>3 DEF StateExit, Same, Manoeuvres, Looking
<1>4. CASE s = "sLook"
  BY <1>1, <1>4 DEF StateExit, Looking, Manoeuvres
<1>5. CASE s = "sTrackHuman"
  <2>1. StateExit(s, d) = SLookExit(SetVelocity(d, "zero"))
    BY <1>5 DEF StateExit, Manoeuvres
  <2>2. IsData(SetVelocity(d, "zero"))
    BY <1>2 DEF Same, SamePath, SameGoal, SameOrders
  <2> QED
    BY <1>1, <1>2, <1>5, <2>1, <2>2 DEF Looking, Same, SamePath, SameGoal, SameOrders
<1>6. CASE s \notin Manoeuvres \cup {"sLook", "sTrackHuman"}
  BY <1>2, <1>6 DEF StateExit, Same, Looking
<1> QED
  BY <1>3, <1>4, <1>5, <1>6

LEMMA Entering ==
    ASSUME NEW s \in States, NEW d, IsData(d)
    PROVE  LET e == StateEntry(s, d)
           IN  /\ SameGoal(d, e) /\ e.type = d.type /\ e.servo = d.servo
               /\ e.path = IF s # "sPath" THEN d.path
                           ELSE IF d.type = "waypoints" THEN d.waypoints ELSE e.planned
               /\ s = "sGoToPoint" => ~e.havePath
               /\ s = "sExplore" => e.waitForGoal = 3
<1> DEFINE c == [d EXCEPT !.age = 0]
<1>1. Same(d, c)
  BY DEF IsData, Fields, Same, SamePath, SameGoal, SameOrders
<1>2. IsData(c)
  BY <1>1 DEF Same, SamePath, SameGoal, SameOrders
<1>8. StateEntry(s, d) =
        CASE s \in Manoeuvres \cup {"sFollow", "sInitial", "sWait"} -> c
          [] s = "sPath"      -> SPathEntry(c)
          [] s = "sGoToPoint" -> SGoToPointEntry(c)
          [] s = "sExplore"   -> SExploreEntry(c)
          [] s \in Looking    -> SLookEntry(c)
  BY Zenon DEF StateEntry
<1> HIDE DEF c
<1>3. CASE s \in Manoeuvres \cup {"sFollow", "sInitial", "sWait"}
  <2>1. StateEntry(s, d) = c
    BY <1>3, <1>8 DEF Looking, Manoeuvres
  <2> QED
    BY <1>1, <1>3, <2>1 DEF Same, SamePath, Manoeuvres
<1>4. CASE s = "sPath"
  <2>1. StateEntry(s, d) = SPathEntry(c)
    BY <1>4, <1>8 DEF Manoeuvres, Looking
  <2>2. /\ SameGoal(c, SPathEntry(c)) /\ SPathEntry(c).type = c.type
        /\ SPathEntry(c).servo = c.servo /\ SPathEntry(c).planned = c.planned
        /\ SPathEntry(c).path = IF c.type = "waypoints" THEN c.waypoints ELSE c.planned
    BY <1>2 DEF SPathEntry, IsData, Fields, SameGoal, SameOrders
  <2> QED
    BY <1>1, <1>4, <2>1, <2>2 DEF Same, SamePath, SameGoal, SameOrders
<1>5. CASE s = "sGoToPoint"
  <2>1. StateEntry(s, d) = SGoToPointEntry(c)
    BY <1>5, <1>8 DEF Manoeuvres, Looking
  <2>2. SamePath(c, SGoToPointEntry(c)) /\ ~SGoToPointEntry(c).havePath
        /\ SGoToPointEntry(c).servo = c.servo
    BY <1>2 DEF SGoToPointEntry, IsData, Fields, SamePath, SameGoal, SameOrders
  <2> QED
    BY <1>1, <1>5, <2>1, <2>2 DEF Same, SamePath, SameGoal, SameOrders
<1>6. CASE s = "sExplore"
  <2>1. StateEntry(s, d) = Waiting(c, 3, 0)
    BY <1>6, <1>8 DEF Manoeuvres, Looking, SExploreEntry, Waiting
  <2> QED
    BY <1>1, <1>2, <1>6, <2>1, WaitOnly DEF Same, SamePath, SameGoal, SameOrders
<1>7. CASE s \in Looking
  <2>1. StateEntry(s, d) = SLookEntry(c)
    BY <1>7, <1>8 DEF Manoeuvres, Looking
  <2>2. Same(c, SLookEntry(c))
    BY <1>2 DEF SLookEntry, IsData, Fields, Same, SamePath, SameGoal, SameOrders
  <2> QED
    BY <1>1, <1>7, <2>1, <2>2 DEF Same, SamePath, SameGoal, SameOrders, Looking
<1> QED
  BY <1>3, <1>4, <1>5, <1>6, <1>7 DEF States, Looking

-----------------------------------------------------------------------------
(* The event that decides a cycle.                                         *)

\* Every set of natural numbers has a least element.
LEMMA LeastElement ==
    ASSUME NEW T \in SUBSET Nat, T # {}
    PROVE  \E x \in T : \A y \in T : x <= y
<1> DEFINE Less == {ss \in Nat \X Nat : ss[1] < ss[2]}
<1>1. IsWellFoundedOn(Less, Nat)
  BY NatLessThanWellFounded DEF OpToRel
<1>2. PICK x \in T : \A y \in T : ~ (<<y, x>> \in Less)
  <2> HIDE DEF Less
  <2> QED
    BY <1>1, WFMin
<1>3. \A y \in T : ~ (y < x)
  BY <1>2
<1> QED
  BY <1>3

Unknown(s, queue, i) == \A j \in DOMAIN queue : j < i => Target(s, queue[j]) = "none"

\* It is the first that the state knows, if any.
LEMMA FirstDecides ==
    ASSUME NEW s, NEW S, NEW queue \in Seq(S)
    PROVE  /\ Decision(s, queue) = "none" <=> \A i \in DOMAIN queue : Target(s, queue[i]) = "none"
           /\ \A i \in DOMAIN queue :
                Target(s, queue[i]) # "none" /\ Unknown(s, queue, i)
                  => Decision(s, queue) = Target(s, queue[i])
           /\ Decision(s, queue) # "none" =>
                \E i \in DOMAIN queue : /\ Target(s, queue[i]) # "none"
                                       /\ Unknown(s, queue, i)
                                       /\ Decision(s, queue) = Target(s, queue[i])
<1> DEFINE known == {i \in DOMAIN queue : Target(s, queue[i]) # "none"}
<1>1. DOMAIN queue \subseteq Nat /\ known \in SUBSET Nat
  BY LenProperties
<1>2. CASE known = {}
  <2>1. Decision(s, queue) = "none"
    BY <1>2 DEF Decision
  <2>2. \A i \in DOMAIN queue : Target(s, queue[i]) = "none"
    BY <1>2
  <2> QED
    BY <2>1, <2>2
<1>3. CASE known # {}
  <2> DEFINE first == CHOOSE i \in known : \A j \in known : i <= j
  <2>1. first \in known /\ \A j \in known : first <= j
    <3>1. \E x \in known : \A y \in known : x <= y
      <4> HIDE DEF known
      <4> QED
        BY <1>1, <1>3, LeastElement
    <3> QED
      BY <3>1
  <2>2. Decision(s, queue) = Target(s, queue[first])
    BY <1>3 DEF Decision
  <2> HIDE DEF first
  <2>3. Decision(s, queue) # "none" /\ first \in DOMAIN queue
    BY <2>1, <2>2
  <2>4. Unknown(s, queue, first)
    BY <1>1, <2>1 DEF Unknown
  <2>5. ASSUME NEW i \in DOMAIN queue, Target(s, queue[i]) # "none", Unknown(s, queue, i)
        PROVE  i = first
    <3>1. i \in known /\ first <= i /\ i \in Nat /\ first \in Nat
      BY <1>1, <2>1, <2>5
    <3>2. ~(first < i)
      BY <2>1, <2>3, <2>5 DEF Unknown
    <3> QED
      BY <3>1, <3>2
  <2> QED
    BY <2>1, <2>2, <2>3, <2>4, <2>5
<1> QED
  BY <1>2, <1>3

LEMMA TargetIsState ==
    ASSUME NEW s, NEW event
    PROVE  Target(s, event) \in States \cup {"none"}
  BY DEF Target, Orders, FollowTarget, States, Manoeuvres

\* Every state but the initial one knows these.
LEMMA Known ==
    ASSUME NEW s \in States
    PROVE  /\ s # "sInitial" => /\ Target(s, "goToPoint") = "sGoToPoint"
                                /\ Target(s, "path") = "sPath"
           /\ s \notin {"sInitial", "sWait"} => Target(s, "stop") = "sWait"
           /\ \A event : s = "sInitial" => Target(s, event) \in {"sWait", "none"}
  BY DEF Target, Orders, Ends, States, Manoeuvres

\* Only these events lead where a path or a goal is needed.
LEMMA Needs ==
    ASSUME NEW s \in States, NEW event
    PROVE  /\ Target(s, event) = "sPath" => event = "path" \/ (event = "timeout" /\ s = "sFollow")
           /\ Target(s, event) = "sGoToPoint" => event = "goToPoint"
  BY DEF Target, Orders, FollowTarget, Ends, States, Manoeuvres

-----------------------------------------------------------------------------
(* The invariant.                                                          *)

Queued == {"stop", "forward", "backup", "spinLeft", "spinRight", "follow",
           "explore", "path", "goToPoint", "done_looking", "look", "track"}

TypeOK == state \in States /\ events \in Seq(Queued) /\ IsData(data)

\* The message that queued an event has brought the path or goal it needs, and
\* nothing takes that back before the update.
Brought ==
    /\ "path" \in ToSet(events) => data.type = "waypoints"
    /\ "goToPoint" \in ToSet(events) => data.goal # "none"

NewIsPath == data.newExplore => data.explore \in Explores

PathHasType == data.path # "none" => data.type # "none"

MapInv ==
    TypeOK /\ Brought /\ NewIsPath /\ PathHasType /\ DrivesToItsGoal /\ ServoAsAsked

LEMMA MapInit == Init => MapInv
<1> SUFFICES ASSUME Init PROVE MapInv
  OBVIOUS
<1>1. state = "sInitial" /\ events = <<>> /\ ~failed
  BY DEF Init
<1>2. ToSet(events) = {}
  BY <1>1 DEF ToSet
<1>3. /\ data.path = "none" /\ ~data.newExplore /\ data.servo = "unset" /\ data.useServo
  BY DEF Init
<1>4. IsData(data)
  BY DEF Init, IsData, Fields
<1>5. events \in Seq(Queued) /\ state \in States /\ state \notin Looking
  BY <1>1 DEF States, Looking
<1> QED
  BY <1>1, <1>2, <1>3, <1>4, <1>5
  DEF MapInv, TypeOK, Brought, NewIsPath, PathHasType, DrivesToItsGoal, ServoAsAsked

LEMMA Queuing ==
    ASSUME events \in Seq(Queued), NEW e \in Queued, SetEvent(e)
    PROVE  /\ events' \in Seq(Queued) /\ events' # <<>>
           /\ ToSet(events') = ToSet(events) \cup {e}
<1>1. /\ events' \in Seq(Queued) /\ Len(events') = Len(events) + 1 /\ Len(events) \in Nat
      /\ \A i \in 1 .. Len(events) : events'[i] = events[i]
      /\ events'[Len(events) + 1] = e
  BY AppendProperties, LenProperties DEF SetEvent
<1>2. DOMAIN events' = DOMAIN events \cup {Len(events) + 1} /\ DOMAIN events = 1 .. Len(events)
  BY <1>1, LenProperties
<1>3. events' # <<>>
  BY <1>1
<1>4. ToSet(events') = {events'[i] : i \in DOMAIN events'} /\ ToSet(events) = {events[i] : i \in DOMAIN events}
  BY DEF ToSet
<1> QED
  BY <1>1, <1>2, <1>3, <1>4

\* Messages add to the events, and none takes back what another brought.
LEMMA MessageStep ==
    ASSUME MapInv, Message
    PROVE  MapInv'
<1> USE DEF MapInv, TypeOK, Brought, NewIsPath, PathHasType, DrivesToItsGoal, ServoAsAsked
<1>1. CASE RecvPose
  BY <1>1 DEF RecvPose
<1>2. CASE RecvStateEvent
  <2>1. PICK e \in StateEvents : SetEvent(e)
    BY <1>2 DEF RecvStateEvent
  <2>2. e \in Queued \ {"path", "goToPoint"}
    BY MapFsmAssumption DEF MapFsmAssumption, Queued
  <2> QED
    BY <1>2, <2>1, <2>2, Queuing DEF RecvStateEvent
<1>3. CASE RecvPath
  <2>1. PICK w \in Waypoints : data' = [data EXCEPT !.waypoints = w, !.type = "waypoints"]
    BY <1>3 DEF RecvPath
  <2>2. /\ IsData(data') /\ data'.type = "waypoints" /\ data'.goal = data.goal
        /\ data'.newExplore = data.newExplore /\ data'.explore = data.explore
        /\ data'.path = data.path /\ data'.havePath = data.havePath
        /\ data'.waitForGoal = data.waitForGoal
        /\ data'.servo = data.servo /\ data'.useServo = data.useServo
    BY <2>1 DEF IsData, Fields
  <2>3. events' \in Seq(Queued) /\ ToSet(events') = ToSet(events) \cup {"path"}
    BY <1>3, Queuing DEF RecvPath, Queued
  <2> QED
    BY <1>3, <2>2, <2>3 DEF RecvPath
<1>4. CASE RecvGoalPoint
  <2>1. CASE failed' /\ UNCHANGED <<data, events>>
    BY <1>4, <2>1 DEF RecvGoalPoint
  <2>2. CASE ~(failed' /\ UNCHANGED <<data, events>>)
    <3>1. PICK g \in Goals : data' = [data EXCEPT !.goal = g]
      BY <1>4, <2>2 DEF RecvGoalPoint
    <3>2. /\ IsData(data') /\ data'.goal = g /\ data'.type = data.type
          /\ data'.newExplore = data.newExplore /\ data'.explore = data.explore
          /\ data'.path = data.path
          /\ data'.servo = data.servo /\ data'.useServo = data.useServo
      BY <3>1 DEF IsData, Fields
    <3>3. events' \in Seq(Queued) /\ ToSet(events') = ToSet(events) \cup {"goToPoint"}
      BY <1>4, <2>2, Queuing DEF RecvGoalPoint, Queued
    <3>4. g # "none"
      BY MapFsmAssumption DEF MapFsmAssumption
    <3> QED
      BY <1>4, <2>2, <3>2, <3>3, <3>4 DEF RecvGoalPoint
  <2> QED
    BY <2>1, <2>2
<1>5. CASE RecvExplorePath
  <2>1. PICK e \in Explores : data' = [data EXCEPT !.explore = e, !.newExplore = TRUE]
    BY <1>5 DEF RecvExplorePath
  <2>2. /\ IsData(data') /\ data'.goal = data.goal /\ data'.type = data.type
        /\ data'.explore = e /\ data'.waitForGoal = data.waitForGoal
        /\ data'.path = data.path /\ data'.havePath = data.havePath
        /\ data'.servo = data.servo /\ data'.useServo = data.useServo
    BY <2>1 DEF IsData, Fields
  <2> QED
    BY <1>5, <2>2 DEF RecvExplorePath
<1>6. CASE RecvLookMsg
  <2>1. \/ UNCHANGED data
        \/ \E b : data' = [data EXCEPT !.bodyFace = b]
    BY <1>6 DEF RecvLookMsg
  <2>2. /\ IsData(data') /\ data'.goal = data.goal /\ data'.type = data.type
        /\ data'.newExplore = data.newExplore /\ data'.explore = data.explore
        /\ data'.waitForGoal = data.waitForGoal
        /\ data'.path = data.path /\ data'.havePath = data.havePath
        /\ data'.servo = data.servo /\ data'.useServo = data.useServo
    <3>1. CASE UNCHANGED data
      BY <3>1
    <3>2. CASE \E b : data' = [data EXCEPT !.bodyFace = b]
      BY <3>2 DEF IsData, Fields
    <3> QED
      BY <2>1, <3>1, <3>2
  <2>3. \/ UNCHANGED events
        \/ \E e \in {"done_looking", "look", "track"} : SetEvent(e)
    BY <1>6 DEF RecvLookMsg
  <2>4. /\ events' \in Seq(Queued)
        /\ ToSet(events') \subseteq ToSet(events) \cup {"done_looking", "look", "track"}
        /\ ToSet(events) \subseteq ToSet(events')
    <3>1. {"done_looking", "look", "track"} \subseteq Queued
      BY DEF Queued
    <3> QED
      BY <2>3, <3>1, Queuing
  <2>5. state' = state /\ (~failed' => ~failed)
    BY <1>6 DEF RecvLookMsg, Commanded
  <2> QED
    BY <2>2, <2>4, <2>5
<1>7. CASE RecvUseServo
  <2>1. PICK use \in UseServos :
           data' = [data EXCEPT !.useServo = use,
                        !.servo = IF state \in Looking THEN @
                                  ELSE IF use THEN "sweep" ELSE "point"]
    BY <1>7 DEF RecvUseServo
  <2>2. /\ IsData(data') /\ data'.goal = data.goal /\ data'.type = data.type
        /\ data'.newExplore = data.newExplore /\ data'.explore = data.explore
        /\ data'.waitForGoal = data.waitForGoal
        /\ data'.path = data.path /\ data'.havePath = data.havePath
        /\ data'.useServo = use
        /\ state \notin Looking => data'.servo = IF use THEN "sweep" ELSE "point"
    BY <2>1 DEF IsData, Fields
  <2> QED
    BY <1>7, <2>2 DEF RecvUseServo
<1> QED
  BY <1>1, <1>2, <1>3, <1>4, <1>5, <1>6, <1>7 DEF Message

-----------------------------------------------------------------------------
(* An update: the routine makes r of the data d, and the state becomes     *)
(* next, or stays if that is "none".                                       *)

Decided(r, next) ==
    /\ next = "none" => \A i \in DOMAIN events : Target(state, events[i]) = "none"
    /\ next # "none" => \/ \E i \in DOMAIN events : next = Target(state, events[i])
                        \/ next = Target(state, r.ret)
    /\ \A i \in DOMAIN events :
         Target(state, events[i]) # "none" /\ Unknown(state, events, i)
           => next = Target(state, events[i])

Left(r, next) ==
    /\ state' = next /\ next \in States
    /\ SameGoal(r.data, data') /\ data'.type = r.data.type
    /\ data'.servo = IF state \in Looking /\ data.useServo THEN "sweep" ELSE r.data.servo
    /\ next # "sPath" => data'.path = r.data.path
    /\ next = "sPath" /\ r.data.type = "waypoints" => data'.path = r.data.waypoints
    /\ next = "sGoToPoint" => ~data'.havePath
    /\ next = "sExplore" => data'.waitForGoal = 3
    /\ failed' = Undefined(next, data')

Cycled(d, r, next) ==
    /\ Same(data, d) /\ Ran(state, d, r) /\ Decided(r, next)
    /\ next = "none" => state' = state /\ data' = r.data /\ failed' = failed
    /\ next # "none" => Left(r, next)
    /\ events' = <<>>

LEMMA Deciding ==
    ASSUME events \in Seq(Queued), NEW r, r.ret \in Returns
    PROVE  Decided(r, Decision(state, IF r.ret = "none" THEN events
                                      ELSE Append(events, r.ret)))
<1>1. CASE r.ret = "none"
  BY <1>1, FirstDecides DEF Decided
<1>2. CASE r.ret # "none"
  <2> DEFINE queue == Append(events, r.ret)
  <2>1. /\ queue \in Seq(Queued \cup Returns) /\ Len(events) \in Nat
        /\ \A i \in 1 .. Len(events) : queue[i] = events[i]
        /\ queue[Len(events) + 1] = r.ret /\ Len(queue) = Len(events) + 1
    <3>1. events \in Seq(Queued \cup Returns)
      OBVIOUS
    <3> QED
      BY <3>1, AppendProperties, LenProperties
  <2>2. DOMAIN queue = 1 .. Len(events) + 1 /\ DOMAIN events = 1 .. Len(events)
    BY <2>1, LenProperties
  <2> HIDE DEF queue
  <2>3. /\ Decision(state, queue) = "none" <=> \A i \in DOMAIN queue : Target(state, queue[i]) = "none"
        /\ \A i \in DOMAIN queue :
             Target(state, queue[i]) # "none" /\ Unknown(state, queue, i)
               => Decision(state, queue) = Target(state, queue[i])
        /\ Decision(state, queue) # "none" =>
             \E i \in DOMAIN queue : Decision(state, queue) = Target(state, queue[i])
    BY <2>1, FirstDecides
  <2>4. ASSUME NEW i \in DOMAIN events
        PROVE  /\ i \in DOMAIN queue /\ queue[i] = events[i]
               /\ Unknown(state, events, i) => Unknown(state, queue, i)
    BY <2>1, <2>2 DEF Unknown
  <2>5. ASSUME NEW i \in DOMAIN queue
        PROVE  (i \in DOMAIN events /\ queue[i] = events[i]) \/ queue[i] = r.ret
    BY <2>1, <2>2
  <2>6. Decided(r, Decision(state, queue))
    BY <2>3, <2>4, <2>5 DEF Decided
  <2> QED
    BY <1>2, <2>6 DEF queue
<1> QED
  BY <1>1, <1>2

LEMMA UpdateCycles ==
    ASSUME TypeOK, Update
    PROVE  \E d, r, next : Cycled(d, r, next)
<1> DEFINE d == Aged(state, data)
<1>1. PICK r \in StateUpdate(state, d) :
          LET queue == IF r.ret = "none" THEN events ELSE Append(events, r.ret)
              next  == Decision(state, queue)
          IN  IF next = "none"
              THEN data' = r.data /\ UNCHANGED <<state, failed>>
              ELSE /\ state' = next
                   /\ data' = StateEntry(next, StateExit(state, r.data))
                   /\ failed' = Undefined(next, data')
  BY DEF Update
<1>2. Same(data, d)
  BY AgeOnly DEF TypeOK
<1> HIDE DEF d
<1>3. Ran(state, d, r)
  BY <1>2, Routine DEF TypeOK, Same, SamePath, SameGoal, SameOrders
<1> DEFINE queue == IF r.ret = "none" THEN events ELSE Append(events, r.ret)
           next  == Decision(state, queue)
<1>4. Decided(r, next)
  BY <1>3, Deciding DEF Ran, TypeOK
<1>5. /\ next = "none" => data' = r.data /\ UNCHANGED <<state, failed>>
      /\ next # "none" => /\ state' = next
                         /\ data' = StateEntry(next, StateExit(state, r.data))
                         /\ failed' = Undefined(next, data')
  BY <1>1
<1>6. next \in States \cup {"none"}
  <2> HIDE DEF queue
  <2> SUFFICES ASSUME next # "none" PROVE next \in States
    OBVIOUS
  <2>1. \E e : next = Target(state, e)
    BY <1>4 DEF Decided
  <2> QED
    BY <2>1, TargetIsState
<1> HIDE DEF next
<1>7. next # "none" => Left(r, next)
  <2> SUFFICES ASSUME next # "none" PROVE Left(r, next)
    OBVIOUS
  <2> DEFINE e == StateExit(state, r.data)
  <2>1. IsData(r.data) /\ r.data.useServo = data.useServo
    BY <1>2, <1>3 DEF Ran, Same, SamePath, SameGoal, SameOrders
  <2>2. /\ SamePath(r.data, e)
        /\ state \notin Looking => e.servo = r.data.servo
        /\ state \in Looking => e.servo = IF data.useServo THEN "sweep" ELSE r.data.servo
    BY <2>1, Exiting DEF TypeOK
  <2>3. next \in States /\ IsData(e) /\ data' = StateEntry(next, e) /\ state' = next
        /\ failed' = Undefined(next, data')
    BY <1>5, <1>6, <2>2 DEF SamePath, SameGoal, SameOrders
  <2> HIDE DEF e
  <2>4. /\ SameGoal(e, data') /\ data'.type = e.type /\ data'.servo = e.servo
        /\ next # "sPath" => data'.path = e.path
        /\ next = "sPath" /\ e.type = "waypoints" => data'.path = e.waypoints
        /\ next = "sGoToPoint" => ~data'.havePath
        /\ next = "sExplore" => data'.waitForGoal = 3
    BY <2>3, Entering
  <2>5. SameGoal(r.data, data')
    BY <2>2, <2>4 DEF SamePath, SameGoal, SameOrders
  <2>6. e.type = r.data.type /\ e.path = r.data.path /\ e.waypoints = r.data.waypoints
    BY <2>2 DEF SamePath, SameGoal, SameOrders
  <2>7. data'.servo = IF state \in Looking /\ data.useServo THEN "sweep" ELSE r.data.servo
    BY <2>2, <2>4
  <2> QED
    BY <2>3, <2>4, <2>5, <2>6, <2>7 DEF Left
<1>8. events' = <<>>
  BY DEF Update
<1>9. Cycled(d, r, next)
  BY <1>2, <1>3, <1>4, <1>5, <1>7, <1>8 DEF Cycled
<1> QED
  BY <1>9

LEMMA InQueue ==
    ASSUME events \in Seq(Queued), NEW i \in DOMAIN events
    PROVE  events[i] \in Queued /\ events[i] \in ToSet(events)
  BY LenProperties, ElementOfSeq DEF ToSet

\* What is entered has the path or the goal it needs.
LEMMA Needed ==
    ASSUME MapInv, NEW d, NEW r, NEW next, Cycled(d, r, next)
    PROVE  /\ next = "sPath" => data.type # "none"
           /\ next = "sGoToPoint" => data.goal # "none"
<1>1. state \in States /\ events \in Seq(Queued) /\ r.ret \in Returns
      /\ (state = "sFollow" /\ r.ret = "timeout" => d.path # "none") /\ d.path = data.path
  BY DEF MapInv, TypeOK, Cycled, Ran, Same, SamePath
<1>2. next # "none" => \/ \E i \in DOMAIN events : next = Target(state, events[i])
                       \/ next = Target(state, r.ret)
  BY DEF Cycled, Decided
<1>3. ASSUME NEW i \in DOMAIN events, next = Target(state, events[i])
      PROVE  /\ next = "sPath" => data.type # "none"
             /\ next = "sGoToPoint" => data.goal # "none"
  <2>1. events[i] \in Queued /\ events[i] \in ToSet(events)
    BY <1>1, InQueue
  <2>2. events[i] # "timeout"
    BY <2>1 DEF Queued
  <2> QED
    BY <1>1, <1>3, <2>1, <2>2, Needs DEF MapInv, Brought
<1>4. ASSUME next = Target(state, r.ret)
      PROVE  /\ next = "sPath" => data.type # "none"
             /\ next # "sGoToPoint"
  <2>1. r.ret # "path" /\ r.ret # "goToPoint"
    BY <1>1 DEF Returns, PathReturns
  <2> QED
    BY <1>1, <1>4, <2>1, Needs DEF MapInv, PathHasType
<1> QED
  BY <1>2, <1>3, <1>4

LEMMA UpdateStep ==
    ASSUME MapInv, Update
    PROVE  MapInv'
<1>1. PICK d, r, next : Cycled(d, r, next)
  BY UpdateCycles DEF MapInv
<1>2. Same(data, d) /\ Ran(state, d, r) /\ Decided(r, next) /\ events' = <<>>
  BY <1>1 DEF Cycled
<1>3. /\ next = "none" => state' = state /\ data' = r.data /\ failed' = failed
      /\ next # "none" => Left(r, next)
  BY <1>1 DEF Cycled
<1>4. ~failed /\ state \in States /\ events \in Seq(Queued)
  BY DEF Update, MapInv, TypeOK
<1>5. ToSet(events') = {}
  BY <1>2 DEF ToSet
<1>6. /\ d.goal = data.goal /\ d.explore = data.explore /\ d.newExplore = data.newExplore
      /\ d.type = data.type /\ d.path = data.path /\ d.waitForGoal = data.waitForGoal
      /\ d.havePath = data.havePath /\ d.servo = data.servo /\ d.useServo = data.useServo
      /\ IsData(d)
  BY <1>2 DEF Same, SamePath, SameGoal, SameOrders
<1>7. /\ IsData(r.data) /\ r.data.explore = data.explore /\ r.data.useServo = data.useServo
      /\ r.data.newExplore => data.newExplore
      /\ ~(state = "sExplore" /\ data.newExplore) => r.data.goal = data.goal
      /\ state \notin Looking => r.data.servo = data.servo
      /\ state \in Looking => r.data.servo = "point"
      /\ (r.data.type = data.type /\ r.data.path = data.path) \/ r.data.type = "planned"
  BY <1>2, <1>6 DEF Ran, SameOrders
<1>8. TypeOK'
  BY <1>2, <1>3, <1>4, <1>7 DEF TypeOK, Left, SameGoal, SameOrders
<1>9. Brought'
  BY <1>5 DEF Brought
<1>10. NewIsPath'
  BY <1>3, <1>7 DEF MapInv, NewIsPath, Left, SameGoal, SameOrders
<1>11. PathHasType'
  BY <1>1, <1>3, <1>7, Needed DEF MapInv, PathHasType, Left
<1>12. ASSUME state' = "sGoToPoint", data'.havePath
       PROVE  data'.path \in {data'.goal, "none"}
  <2>1. next = "none"
    BY <1>3, <1>12 DEF Left
  <2>2. state = "sGoToPoint" /\ data' = r.data
    BY <1>3, <1>12, <2>1
  <2>3. "goToPoint" \notin ToSet(events)
    <3>1. Target(state, "goToPoint") # "none"
      BY <2>2, <1>4, Known
    <3> QED
      BY <1>2, <2>1, <3>1 DEF Decided, ToSet
  <2>4. PathFor(d, r.data) /\ r.data.goal = data.goal
    BY <1>2, <1>7, <2>2 DEF Ran
  <2>5. data.havePath => data.path \in {data.goal, "none"}
    BY <2>2, <2>3 DEF MapInv, DrivesToItsGoal
  <2> QED
    BY <1>6, <1>12, <2>2, <2>4, <2>5 DEF PathFor
<1>13. ASSUME state' = "sExplore", data'.waitForGoal = 0
       PROVE  /\ data'.goal \in Explores
              /\ data'.havePath => data'.path \in {data'.goal, "none"}
  <2>1. next = "none"
    BY <1>3, <1>13 DEF Left
  <2>2. state = "sExplore" /\ data' = r.data
    BY <1>3, <1>13, <2>1
  <2>3. "goToPoint" \notin ToSet(events)
    <3>1. Target(state, "goToPoint") # "none"
      BY <2>2, <1>4, Known
    <3> QED
      BY <1>2, <2>1, <3>1 DEF Decided, ToSet
  <2> DEFINE g == NewGoal(d)
  <2>4. PathFor(g, r.data) /\ r.data.goal = g.goal /\ (d.newExplore \/ d.waitForGoal = 0)
    BY <1>2, <1>13, <2>2 DEF Ran
  <2>5. /\ ~d.newExplore => g = d
        /\ d.newExplore => g.goal = d.explore /\ ~g.havePath
    BY <1>6, TakingGoal
  <2> HIDE DEF g
  <2>6. CASE d.newExplore
    <3>1. g.goal \in Explores
      BY <1>6, <2>5, <2>6 DEF MapInv, NewIsPath
    <3> QED
      BY <2>2, <2>4, <2>5, <2>6, <3>1 DEF PathFor
  <2>7. CASE ~d.newExplore
    <3>1. /\ data.goal \in Explores
          /\ data.havePath => data.path \in {data.goal, "none"}
      BY <1>6, <2>2, <2>3, <2>4, <2>7 DEF MapInv, DrivesToItsGoal
    <3> QED
      BY <1>6, <2>2, <2>4, <2>5, <2>7, <3>1 DEF PathFor
  <2> QED
    BY <2>6, <2>7
<1>14. DrivesToItsGoal'
  BY <1>12, <1>13 DEF DrivesToItsGoal
<1>15. ServoAsAsked'
  <2> SUFFICES ASSUME state' \notin Looking
               PROVE  data'.servo \in IF data'.useServo THEN {"unset", "sweep"} ELSE {"point"}
    BY DEF ServoAsAsked
  <2>1. data'.useServo = data.useServo
    BY <1>3, <1>7 DEF Left, SameGoal, SameOrders
  <2>2. state \notin Looking => data.servo \in IF data.useServo THEN {"unset", "sweep"} ELSE {"point"}
    BY <1>4 DEF MapInv, ServoAsAsked
  <2>3. CASE next = "none"
    BY <1>3, <1>7, <2>1, <2>2, <2>3
  <2>4. CASE next # "none"
    <3>1. data'.servo = IF state \in Looking /\ data.useServo THEN "sweep" ELSE r.data.servo
      BY <1>3, <2>4 DEF Left
    <3> QED
      BY <1>7, <2>1, <2>2, <3>1
  <2> QED
    BY <2>3, <2>4
<1> QED
  BY <1>8, <1>9, <1>10, <1>11, <1>14, <1>15 DEF MapInv

LEMMA StutterStep ==
    ASSUME MapInv, UNCHANGED vars
    PROVE  MapInv'
  BY DEF vars, MapInv, TypeOK, Brought, NewIsPath, PathHasType, DrivesToItsGoal, ServoAsAsked

LEMMA MapInvariance == Spec => []MapInv
<1>1. MapInv /\ [Next]_vars => MapInv'
  BY MessageStep, UpdateStep, StutterStep DEF Next
<1> QED
  BY <1>1, MapInit, PTL DEF Spec

-----------------------------------------------------------------------------
(* The properties.                                                         *)

\* A vehicle drives where it was last sent, by the operator, by the planner of
\* its own routine or by exploration, whatever paths, goals and orders come
\* while it does (sGoToPoint.m, sExplore.m, mapfsmRecv*.m).
THEOREM GoesWhereSent == Spec => []DrivesToItsGoal
<1>1. MapInv => DrivesToItsGoal
  BY DEF MapInv
<1> QED
  BY <1>1, MapInvariance, PTL

\* Outside the looking states the servo does what was asked for last, though
\* messages and exits command it (mapfsmRecvUseServoFcn.m, sLook.m:22-32).
THEOREM ServoObeys == Spec => []ServoAsAsked
<1>1. MapInv => ServoAsAsked
  BY DEF MapInv
<1> QED
  BY <1>1, MapInvariance, PTL

\* A cycle that looks at events is an update: messages leave some.
LEMMA CycleIsUpdate ==
    ASSUME MapInv, [Next]_vars, Cycle
    PROVE  Update
<1>1. events # <<>> /\ events' = <<>> /\ events \in Seq(Queued)
  BY DEF Cycle, MapInv, TypeOK
<1>2. ASSUME Message
      PROVE  FALSE
  <2>1. ASSUME NEW e, SetEvent(e)
        PROVE  FALSE
    <3>1. Len(events') = Len(events) + 1 /\ Len(events) \in Nat /\ Len(events') = 0
      BY <1>1, <2>1 DEF SetEvent
    <3> QED
      BY <3>1
  <2>2. events' # events
    BY <1>1
  <2> QED
    BY <1>2, <2>1, <2>2
    DEF Message, RecvPose, RecvStateEvent, RecvPath, RecvGoalPoint, RecvExplorePath,
        RecvLookMsg, RecvUseServo
<1> QED
  BY <1>1, <1>2 DEF Next, vars

LEMMA KnownFirst ==
    ASSUME MapInv, NEW event, FirstKnown(event), NEW d, NEW r, NEW next, Cycled(d, r, next)
    PROVE  next = Target(state, event) /\ next # "none" /\ event \in ToSet(events)
<1>1. PICK i \in DOMAIN events :
         /\ events[i] = event /\ Target(state, event) # "none"
         /\ \A j \in 1 .. i - 1 : Target(state, events[j]) = "none"
  BY DEF FirstKnown
<1>2. DOMAIN events = 1 .. Len(events) /\ Len(events) \in Nat
  BY LenProperties DEF MapInv, TypeOK
<1>3. Unknown(state, events, i)
  BY <1>1, <1>2 DEF Unknown
<1> QED
  BY <1>1, <1>3 DEF Cycled, Decided, ToSet

\* The vehicle that takes up the operator's path follows it, but for the cycles in
\* which the planner is called (mapfsmRecvPathFcn.m:7, sGoToPoint.m:133).
THEOREM WaypointsTaken == Spec => WaypointsFollowedUnlessPlanning
<1>1. ASSUME MapInv, [Next]_vars, Cycle, FirstKnown("path"), ~Planning
      PROVE  data'.path = data.waypoints
  <2>1. PICK d, r, next : Cycled(d, r, next)
    BY <1>1, CycleIsUpdate, UpdateCycles DEF MapInv
  <2>2. next = Target(state, "path") /\ next # "none" /\ "path" \in ToSet(events)
    BY <1>1, <2>1, KnownFirst
  <2>3. next = "sPath"
    <3>1. state # "sInitial"
      BY <2>2 DEF Target
    <3> QED
      BY <1>1, <2>2, <3>1, Known DEF MapInv, TypeOK
  <2>4. data.type = "waypoints"
    BY <1>1, <2>2 DEF MapInv, Brought
  <2>5. Same(data, d) /\ Ran(state, d, r) /\ Left(r, "sPath")
    BY <2>1, <2>3 DEF Cycled
  <2>6. ~Plans(state, d)
    <3>1. /\ d.newExplore = data.newExplore /\ d.waitForGoal = data.waitForGoal
          /\ d.havePath = data.havePath /\ IsData(data)
      BY <1>1, <2>5 DEF Same, SamePath, SameGoal, MapInv, TypeOK
    <3>2. /\ ~data.newExplore => NewGoal(data) = data
          /\ data.newExplore => NewGoal(data).waitForGoal = 0 /\ ~NewGoal(data).havePath
      BY <3>1, TakingGoal
    <3>3. ~Planning
      BY <1>1
    <3> QED
      BY <3>1, <3>2, <3>3 DEF Planning, Plans
  <2>7. r.data.type = "waypoints" /\ r.data.waypoints = data.waypoints
    BY <2>4, <2>5, <2>6 DEF Ran, Same, SamePath, SameGoal, SameOrders
  <2> QED
    BY <2>5, <2>7 DEF Left
<1> QED
  BY <1>1, MapInvariance, PTL DEF Spec, WaypointsFollowedUnlessPlanning

\* A goal survives the cycle that takes it up, unless an exploration path takes its
\* place (sExplore.m:29-34).
THEOREM GoalSurvives == Spec => GoalKept
<1>1. ASSUME MapInv, [Next]_vars, Cycle, FirstKnown("goToPoint"),
             ~(state = "sExplore" /\ data.newExplore)
      PROVE  data'.goal = data.goal
  <2>1. PICK d, r, next : Cycled(d, r, next)
    BY <1>1, CycleIsUpdate, UpdateCycles DEF MapInv
  <2>2. next # "none"
    BY <1>1, <2>1, KnownFirst
  <2>3. Same(data, d) /\ Ran(state, d, r) /\ Left(r, next)
    BY <2>1, <2>2 DEF Cycled
  <2> QED
    BY <1>1, <2>3 DEF Ran, Left, Same, SamePath, SameGoal
<1> QED
  BY <1>1, MapInvariance, PTL DEF Spec, GoalKept

\* A stop before any other order of the cycle stops the vehicle (update.m:14-28).
THEOREM StopsWhenTold == Spec => StopObeyed
<1>1. ASSUME MapInv, [Next]_vars, Cycle, state \notin {"sInitial", "sWait"},
             NEW i \in DOMAIN events, events[i] = "stop",
             \A j \in 1 .. i - 1 : Target(state, events[j]) = "none"
      PROVE  state' = "sWait"
  <2>1. PICK d, r, next : Cycled(d, r, next)
    BY <1>1, CycleIsUpdate, UpdateCycles DEF MapInv
  <2>2. Target(state, "stop") = "sWait"
    BY <1>1, Known DEF MapInv, TypeOK
  <2>3. FirstKnown("stop")
    BY <1>1, <2>2 DEF FirstKnown
  <2>4. next = "sWait"
    BY <1>1, <2>1, <2>2, <2>3, KnownFirst
  <2> QED
    BY <2>1, <2>4 DEF Cycled, Left
<1>2. MapInv /\ [Next]_vars =>
        [Cycle /\ state \notin {"sInitial", "sWait"} =>
           \A i \in DOMAIN events :
              /\ events[i] = "stop"
              /\ \A j \in 1 .. i - 1 : Target(state, events[j]) = "none"
              => state' = "sWait"]_vars
  BY <1>1
<1> QED
  BY <1>2, MapInvariance, PTL DEF Spec, StopObeyed

\* If the operator sends nothing before the first pose, no handler, routine or entry
\* reads what was never assigned, whatever comes after (sInitial.m:8,
\* mapfsmRecvGoalPointFcn.m:11).
THEOREM RunsOn ==
    ASSUME PoseFirst = TRUE
    PROVE  Spec => []NoError
<1>1. Init => NoError
  BY DEF Init, NoError
<1>2. ASSUME MapInv, NoError, Message
      PROVE  NoError'
  BY <1>2 DEF NoError, Message, Commanded, RecvPose, RecvStateEvent, RecvPath,
              RecvGoalPoint, RecvExplorePath, RecvLookMsg, RecvUseServo
<1>3. ASSUME MapInv, NoError, Update
      PROVE  NoError'
  <2>1. PICK d, r, next : Cycled(d, r, next)
    BY <1>3, UpdateCycles DEF MapInv
  <2>2. CASE next = "none"
    BY <1>3, <2>1, <2>2 DEF Cycled, NoError
  <2>3. CASE next # "none"
    <3>1. /\ Same(data, d) /\ Ran(state, d, r) /\ Left(r, next)
      BY <2>1, <2>3 DEF Cycled
    <3>2. /\ next = "sPath" => data.type # "none"
          /\ next = "sGoToPoint" => data.goal # "none"
      BY <1>3, <2>1, Needed
    <3>3. next = "sPath" => data'.type # "none"
      BY <3>1, <3>2 DEF Ran, Left, Same, SamePath
    <3>4. next = "sGoToPoint" => data'.goal # "none"
      <4>1. /\ data'.goal = r.data.goal /\ d.goal = data.goal
            /\ d.newExplore = data.newExplore /\ d.explore = data.explore
        BY <3>1 DEF Left, Same, SamePath, SameGoal, SameOrders
      <4>2. CASE state = "sExplore" /\ d.newExplore
        <5>1. data.explore \in Explores /\ data.explore # "none"
          BY <1>3, <4>1, <4>2, MapFsmAssumption DEF MapFsmAssumption, MapInv, NewIsPath
        <5> QED
          BY <3>1, <4>1, <4>2, <5>1 DEF Ran
      <4>3. CASE ~(state = "sExplore" /\ d.newExplore)
        BY <3>1, <3>2, <4>1, <4>3 DEF Ran
      <4> QED
        BY <4>2, <4>3
    <3>5. ~Undefined(next, data')
      BY <3>3, <3>4 DEF Undefined
    <3> QED
      BY <3>1, <3>5 DEF Left, NoError
  <2> QED
    BY <2>2, <2>3
<1>4. MapInv /\ NoError /\ [Next]_vars => NoError'
  BY <1>2, <1>3 DEF Next, NoError, vars
<1> QED
  BY <1>1, <1>4, MapInvariance, PTL DEF Spec

=============================================================================
