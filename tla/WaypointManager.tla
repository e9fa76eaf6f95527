-------------------------- MODULE WaypointManager --------------------------
(***************************************************************************)
(* WaypointManagerInterpolater of telemetry_handler_wp_manager.cpp.  All   *)
(* its callbacks (topics, costmap, action client) are in one mutually      *)
(* exclusive group, so they never overlap each other; but they do overlap  *)
(* the telemetry node's, whose globals they read without a lock.  So a     *)
(* callback takes a step of its own for each load of a global after the    *)
(* first, and the other thread may store in between:                       *)
(*                                                                         *)
(*   goalCb   GoalCb, GoalLoad, GoalAdd                                    *)
(*   rtbCb    RtbCb, RtbPose, RtbBase, RtbLoad, RtbPlan, startCb, RtbEnd   *)
(*   startCb  StartCb, StartArmed, StartMode, StartPose, StartSend         *)
(*                                                                         *)
(* pc names the next step, read holds what was loaded, and nested says     *)
(* that it is rtbCb which startCb returns to.  Every other callback is one *)
(* step.                                                                   *)
(*                                                                         *)
(* completed_goals_count_, last_reached_goal_idx_, latitude_ and longitude_*)
(* are written and never used; they are left out, as are the markers.      *)
(***************************************************************************)
EXTENDS TelemetryLink, NavAction, ReturnPaths, Functions, SequencesExt

CONSTANTS
  Via,         \* stands for the interpolated points of a path
  Costmaps     \* the sets of lethal map points a costmap may show

ASSUME ManagerAssumption ==
  /\ Costmaps \subseteq SUBSET Points
  /\ Via \notin Points

VARIABLES
  pc,             \* the next step of the callback; "idle": none runs
  nested,         \* startCb was called by rtbCb
  read,           \* coordinates that goalCb or rtbCb has loaded
  goalPoints,     \* goal_points_
  rawGoals,       \* raw_goals_
  path,           \* interpolated_path_, as a set; see Interpolated
  handle,         \* current_goal_handle_
  missionActive,  \* mission_active_
  goalRtbMode,    \* goal_rtb_mode_
  rtbInProgress,  \* the static flag of rtbCb
  lethal          \* latest_costmap_: its cells of cost 252 and more

listVars    == <<goalPoints, rawGoals>>
missionVars == <<path, handle, missionActive, goalRtbMode>>
callVars    == <<pc, nested, read>>
managerVars == <<callVars, listVars, missionVars, rtbInProgress, lethal>>

ManagerFlagsOK ==
  /\ nested \in BOOLEAN /\ rtbInProgress \in BOOLEAN
  /\ missionActive \in BOOLEAN /\ goalRtbMode \in BOOLEAN

ManagerSteps ==
  {"idle", "goalLoad", "goalAdd",
   "rtbPose", "rtbBase", "rtbLoad", "rtbPlan", "rtbEnd",
   "startArmed", "startMode", "startPose", "startSend"}

ManagerDataOK ==
  /\ pc \in ManagerSteps
  /\ read \in Seq(Int)
  /\ goalPoints \in Seq(Points)
  /\ rawGoals \in Seq(Points)
  /\ path \subseteq Points \cup {Via}
  /\ handle \in Nat
  /\ lethal \subseteq Points

ManagerInit ==
  /\ pc = "idle" /\ nested = FALSE /\ read = <<>>
  /\ goalPoints = <<>> /\ rawGoals = <<>>
  /\ path = {}
  /\ handle = NoGoal
  /\ missionActive = FALSE
  /\ goalRtbMode = FALSE
  /\ rtbInProgress = FALSE
  /\ lethal = {}     \* no costmap yet: every pose counts as free

-----------------------------------------------------------------------------
\* getRobotPose reads the pose it is given, which is always blank.
RobotPose == Origin

IsPoseCollisionFree(p) == p \notin lethal

\* More than MIN_RTB_GOAL_DIST = 2.0 metres from the robot.
FarFromRobot(p) == DistSq(p, RobotPose) > 4

\* Some leg of the path is 6 metres or longer: interpolate adds points.
HasLongLeg(goals) ==
  \E i \in DOMAIN goals :
    DistSq(goals[i], IF i = 1 THEN RobotPose ELSE goals[i - 1]) >= 36

\* The poses startCb sends: the goals that are free, in the order of goals.
\* The interpolated points count only where every goal is lethal: whether
\* one of them is free decides then if there is a path at all.
Interpolated(goals) ==
  LET free == {p \in Range(goals) : IsPoseCollisionFree(p)}
  IN IF free = {} /\ HasLongLeg(goals) THEN {{}, {Via}} ELSE {free}

\* Indices of the goals that go into a return path.
ReturnGoals ==
  {i \in DOMAIN goalPoints :
     FarFromRobot(goalPoints[i]) /\ IsPoseCollisionFree(goalPoints[i])}

\* The base in the frame whose origin is the armed position, from what rtbCb
\* has loaded: nothing, unless base_set_.
BasePose ==
  IF read = <<>> THEN Origin
  ELSE GpsToMap(<<read[3], read[4]>>, <<read[1], read[2]>>)

HomeLeg ==
  IF IsPoseCollisionFree(BasePose) /\ FarFromRobot(BasePose)
  THEN <<BasePose>> ELSE <<>>

\* startCb asks for it, and getRobotPose fails without it.
OriginLatched == armedAt # Origin
HaveOrigin == armValid

\* Cancel the goal whose handle is kept, if any.
ForgetCurrent == UNCHANGED cancels /\ handle' = NoGoal
CancelCurrent ==
  /\ IF handle # NoGoal THEN AsyncCancelGoal(handle) ELSE UNCHANGED cancels
  /\ handle' = NoGoal

AddGoal(p) ==
  goalPoints' = Append(goalPoints, p) /\ rawGoals' = Append(rawGoals, p)

ClearActive    == rawGoals' = <<>> /\ UNCHANGED goalPoints
ClearGoals     == goalPoints' = <<>> /\ rawGoals' = <<>>

\* startCb returns, to rtbCb or to the executor.
Return == pc' = IF nested THEN "rtbEnd" ELSE "idle"

\* A goal that was reached goes, the others keep their order.
LastMovedUp(goals, i) == Front([goals EXCEPT ![i] = Last(goals)])
Erased(goals, i) == RemoveAt(goals, i)

\* The two outcomes of the goal response callback.
Answered(g, how) == client[g] = "sent" /\ client' = [client EXCEPT ![g] = how]

RefuseQuietly(g) ==
  Answered(g, "refused") /\ UNCHANGED <<handle, missionActive>>
GoalRefused(g) ==
  /\ Answered(g, "refused")
  /\ missionActive' = FALSE
  /\ UNCHANGED handle

AcceptUntracked(g) ==
  Answered(g, "accepted") /\ UNCHANGED <<handle, missionActive>>
GoalAccepted(g) ==
  /\ Answered(g, "accepted")
  /\ handle' = g
  /\ UNCHANGED missionActive

\* What the result callback resets, whichever goal the result is for.
ResetButHandle == missionActive' = FALSE /\ goalRtbMode' = FALSE
                  /\ path' = {} /\ UNCHANGED handle
ResetButMission == handle' = NoGoal /\ goalRtbMode' = FALSE
                   /\ path' = {} /\ UNCHANGED missionActive
ResetMission ==
  /\ handle' = NoGoal
  /\ missionActive' = FALSE
  /\ goalRtbMode' = FALSE
  /\ path' = {}

-----------------------------------------------------------------------------
\* A goal is a map point already, or is to be converted.
GoalCb ==
  /\ pc = "idle"
  /\ goalQ # <<>>
  /\ goalQ' = Tail(goalQ)
  /\ \/ ~setWaypoints /\ UNCHANGED <<listVars, callVars>>
     \/ /\ setWaypoints /\ ~LooksLikeGps(Head(goalQ))
        /\ AddGoal(Head(goalQ))
        /\ UNCHANGED callVars
     \/ /\ setWaypoints /\ LooksLikeGps(Head(goalQ))
        /\ pc' = "goalLoad" /\ read' = Head(goalQ)
        /\ UNCHANGED <<listVars, nested>>
  /\ UNCHANGED <<nodeVars, globalVars, startQ, stopQ, rtbQ, flushQ,
                 missionVars, rtbInProgress, lethal, navVars>>

\* The latitude, then the longitude of the base.
GoalLoad ==
  /\ pc = "goalLoad"
  /\ read' = Append(read, baseAt[Len(read) - 1])
  /\ pc' = IF Len(read') = 4 THEN "goalAdd" ELSE pc
  /\ UNCHANGED <<linkVars, nested, listVars, missionVars, rtbInProgress,
                 lethal, navVars>>

GoalAdd ==
  /\ pc = "goalAdd"
  /\ AddGoal(GpsToMap(<<read[1], read[2]>>, <<read[3], read[4]>>))
  /\ pc' = "idle" /\ read' = <<>>
  /\ UNCHANGED <<linkVars, nested, missionVars, rtbInProgress, lethal, navVars>>

\* rtbCb up to the sleep after the cancel request.
RtbCb ==
  /\ pc = "idle"
  /\ rtbQ > 0
  /\ rtbQ' = rtbQ - 1
  /\ IF modeRtb /\ ~rtbInProgress
     THEN /\ rtbInProgress' = TRUE
          /\ CancelCurrent
          /\ pc' = "rtbPose"
     ELSE UNCHANGED <<rtbInProgress, cancels, handle, pc>>
  /\ UNCHANGED <<nodeVars, globalVars, startQ, stopQ, flushQ, goalQ, nested,
                 read, listVars, path, missionActive, goalRtbMode, lethal,
                 client, server>>

\* Without a map origin rtbCb gives up.
KeepGuard == UNCHANGED rtbInProgress
ReleaseGuard == rtbInProgress' = FALSE
RtbPose ==
  /\ pc = "rtbPose"
  /\ IF HaveOrigin THEN pc' = "rtbBase" /\ UNCHANGED rtbInProgress
                   ELSE pc' = "idle" /\ ReleaseGuard
  /\ UNCHANGED <<linkVars, nested, read, listVars, missionVars, lethal, navVars>>

RtbBase ==
  /\ pc = "rtbBase"
  /\ pc' = IF baseSet THEN "rtbLoad" ELSE "rtbPlan"
  /\ UNCHANGED <<linkVars, nested, read, listVars, missionVars, rtbInProgress,
                 lethal, navVars>>

\* The armed position, then the base, each latitude before longitude.
LoadsMixed == <<armedAt[1], armedAt[2], baseAt[1], armedAt[2]>>
RtbLoads == <<armedAt[1], armedAt[2], baseAt[1], baseAt[2]>>
RtbLoad ==
  /\ pc = "rtbLoad"
  /\ read' = Append(read, RtbLoads[Len(read) + 1])
  /\ pc' = IF Len(read') = 4 THEN "rtbPlan" ELSE pc
  /\ UNCHANGED <<linkVars, nested, listVars, missionVars, rtbInProgress,
                 lethal, navVars>>

\* The return path replaces both lists, and startCb is called.
RtbPlan ==
  /\ pc = "rtbPlan"
  /\ \E back \in ReturnPath(goalPoints, ReturnGoals) :
       goalPoints' = back \o HomeLeg
  /\ rawGoals' = goalPoints'
  /\ path' = {}
  /\ missionActive' = FALSE
  /\ goalRtbMode' = TRUE
  /\ pc' = "startArmed" /\ nested' = TRUE /\ read' = <<>>
  /\ UNCHANGED <<linkVars, handle, rtbInProgress, lethal, navVars>>

\* rtbCb goes on when startCb returns.
RtbEnd ==
  /\ pc = "rtbEnd"
  /\ pc' = "idle" /\ nested' = FALSE
  /\ ReleaseGuard
  /\ UNCHANGED <<linkVars, read, listVars, missionVars, lethal, navVars>>

StartCb ==
  /\ pc = "idle"
  /\ startQ > 0
  /\ startQ' = startQ - 1
  /\ pc' = "startArmed"
  /\ UNCHANGED <<nodeVars, globalVars, stopQ, rtbQ, flushQ, goalQ, nested,
                 read, listVars, missionVars, rtbInProgress, lethal, navVars>>

StartArmed ==
  /\ pc = "startArmed"
  /\ IF HaveOrigin THEN pc' = "startMode" ELSE Return
  /\ UNCHANGED <<linkVars, nested, read, listVars, missionVars, rtbInProgress,
                 lethal, navVars>>

StartMode ==
  /\ pc = "startMode"
  /\ \/ ~modePursuit /\ Return /\ UNCHANGED goalRtbMode
     \/ modePursuit /\ rawGoals = <<>> /\ Return /\ goalRtbMode' = FALSE
     \/ /\ modePursuit /\ rawGoals # <<>>
        /\ pc' = "startPose"
        /\ UNCHANGED goalRtbMode
  /\ UNCHANGED <<linkVars, nested, read, listVars, path, handle, missionActive,
                 rtbInProgress, lethal, navVars>>

StartPose ==
  /\ pc = "startPose"
  /\ IF HaveOrigin THEN pc' = "startSend" ELSE Return
  /\ UNCHANGED <<linkVars, nested, read, listVars, missionVars, rtbInProgress,
                 lethal, navVars>>

\* The rest of startCb, sendPathToNav2 included.
StartSend ==
  /\ pc = "startSend"
  /\ Return
  /\ path' \in Interpolated(rawGoals)
  /\ IF path' = {}
     THEN goalRtbMode' = FALSE /\ UNCHANGED <<missionActive, client, server>>
     ELSE AsyncSendGoal /\ missionActive' = TRUE /\ UNCHANGED goalRtbMode
  /\ UNCHANGED <<linkVars, nested, read, listVars, handle, rtbInProgress,
                 lethal, cancels>>

StopCb ==
  /\ pc = "idle"
  /\ stopQ > 0
  /\ stopQ' = stopQ - 1
  /\ CancelCurrent
  /\ missionActive' = FALSE
  /\ goalRtbMode' = FALSE
  /\ path' = {}
  /\ ClearGoals
  /\ UNCHANGED <<nodeVars, globalVars, startQ, rtbQ, flushQ, goalQ, callVars,
                 rtbInProgress, lethal, client, server>>

FlushCb ==
  /\ pc = "idle"
  /\ flushQ > 0
  /\ flushQ' = flushQ - 1
  /\ ClearGoals
  /\ UNCHANGED <<nodeVars, globalVars, startQ, stopQ, rtbQ, goalQ, callVars,
                 missionVars, rtbInProgress, lethal, navVars>>

CostmapCb ==
  /\ pc = "idle"
  /\ lethal' \in Costmaps
  /\ UNCHANGED <<linkVars, callVars, listVars, missionVars, rtbInProgress,
                 navVars>>

\* Goal responses come in the order of the requests.
GoalResponse(g) ==
  /\ pc = "idle"
  /\ server[g] # "requested"
  /\ \A h \in Goals : h < g => client[h] # "sent"
  /\ IF server[g] = "refused" THEN GoalRefused(g) ELSE GoalAccepted(g)
  /\ UNCHANGED <<linkVars, callVars, listVars, path, goalRtbMode,
                 rtbInProgress, lethal, server, cancels>>

\* Feedback of a live goal erases the first goal the robot is at, and the
\* robot may be at any goal.
Feedback(g) ==
  /\ pc = "idle"
  /\ Live(g)
  /\ \E i \in DOMAIN rawGoals :
       /\ \A j \in 1..(i - 1) : rawGoals[j] # rawGoals[i]
       /\ rawGoals' = Erased(rawGoals, i)
  /\ UNCHANGED <<linkVars, callVars, goalPoints, missionVars, rtbInProgress,
                 lethal, navVars>>

\* The result of any live goal resets the state of the current one.
Result(g) ==
  /\ pc = "idle"
  /\ server[g] \in Ended
  /\ client[g] = "accepted"
  /\ client' = [client EXCEPT ![g] = "done"]
  /\ ResetMission
  /\ UNCHANGED <<linkVars, callVars, listVars, rtbInProgress, lethal, server,
                 cancels>>

TopicCallback == GoalCb \/ RtbCb \/ StartCb \/ StopCb \/ FlushCb

ClientCallback ==
  \E g \in Goals : GoalResponse(g) \/ Feedback(g) \/ Result(g)

RunningCallback ==
  \/ GoalLoad \/ GoalAdd
  \/ RtbPose \/ RtbBase \/ RtbLoad \/ RtbPlan \/ RtbEnd
  \/ StartArmed \/ StartMode \/ StartPose \/ StartSend

ManagerNext ==
  TopicCallback \/ ClientCallback \/ RunningCallback \/ CostmapCb
=============================================================================
