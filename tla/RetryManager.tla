---------------------------- MODULE RetryManager ----------------------------
(***************************************************************************)
(* WaypointManagerInterpolater of wp_manager_interpolater_trov.cpp, which  *)
(* drives a mission segment by segment through Nav2's follow_path action   *)
(* and retries a segment that fails.                                       *)
(*                                                                         *)
(* One thread spins the node, so that a callback runs to its end before    *)
(* the next one starts, its sleeps included: each is one action, with the  *)
(* startCb it may call.  What interleaves are the operator's topics, the   *)
(* retry timer, the answers of Nav2 and Nav2 itself.                       *)
(*                                                                         *)
(* Left out, because nothing that is modelled reads them: retry_count_,    *)
(* mission_active_, interpolated_path_, path_total_length_, the feedback   *)
(* variables, latitude_ and longitude_, the markers and published paths.   *)
(***************************************************************************)
EXTENDS NavAction, ReturnPaths

CONSTANTS
  Poses,         \* where the operator puts goals
  Home,          \* the pose [0,0] of the map
  Costmaps,      \* the sets of blocked poses a costmap may show
  MaxGoals,      \* bound on the operator's goals
  MaxCommands,   \* bound on the operator's starts, stops and RTBs
  MaxRetries     \* bound on the times the retry timer fires

ASSUME RetryAssumption ==
  /\ Home \notin Poses
  /\ Costmaps \subseteq SUBSET (Poses \cup {Home})
  /\ MaxGoals \in Nat /\ MaxCommands \in Nat /\ MaxRetries \in Nat

Spots == Poses \cup {Home}

VARIABLES
  goalPoints,    \* goal_points_
  active,        \* active_mission_goals_
  index,         \* current_goal_index_, counted from 0
  handle,        \* current_goal_handle_
  rtbMode,       \* rtb_mode_
  userStopped,   \* user_stopped_
  retry,         \* retry_timer_: "pending" until it fires or is cancelled
  halted,        \* the operator's last start, stop or RTB was a stop
  revived,       \* since that message a result has started a segment
  owed,          \* a retry was announced and neither run nor stopped
  cmds, fired    \* such messages, and timer calls, so far

missionVars == <<active, index, rtbMode>>
controlVars == <<userStopped, retry, owed>>
boundVars   == <<halted, revived, cmds, fired>>
vars == <<goalPoints, missionVars, handle, controlVars, boundVars, navVars>>

Init ==
  /\ goalPoints = <<>> /\ active = <<>> /\ index = 0
  /\ handle = NoGoal /\ NavInit
  /\ rtbMode = FALSE /\ userStopped = FALSE
  /\ retry = "none" /\ owed = FALSE
  /\ halted = FALSE /\ revived = FALSE /\ cmds = 0 /\ fired = 0

-----------------------------------------------------------------------------
\* latest_costmap_: only rtbCb depends on it, and a costmap may come just
\* before, so its contents are chosen where they are read.
IsPoseCollisionFree(lethal, p) == p \notin lethal

\* At most one pose is within MIN_GOAL_DIST = 1.0 metres of the robot, which
\* may be another one each time getRobotPose is called.
Near == {{}} \cup {{p} : p \in Spots}

CancelKept ==
  IF handle # NoGoal THEN AsyncCancelGoal(handle) ELSE UNCHANGED cancels

ScheduleAlways == retry' = "pending" /\ owed' = TRUE
\* scheduleRetry replaces the timer, if the user did not stop the mission.
ScheduleRetry ==
  IF userStopped THEN UNCHANGED <<retry, owed>>
                 ELSE retry' = "pending" /\ owed' = TRUE

\* How startCb may end for these goals and this index: without a goal left
\* the mission is over; otherwise it sends the segment, or fails: no robot
\* pose, no point of the path free, or no action server for five seconds.
\* (The goal itself need not be free for a path to be sent.)
StartEnds(goals, i) ==
  IF i < Len(goals) THEN {"sent", "failed"} ELSE {"over"}

\* startCb, called with these values of the mission state.  What becomes of
\* the retry a failure schedules depends on the caller.
Start(goals, i, rtb, end) ==
  /\ userStopped' = FALSE
  /\ active'  = IF end = "over" THEN <<>> ELSE goals
  /\ index'   = IF end = "over" THEN 0 ELSE i
  /\ rtbMode' = (end # "over" /\ rtb)
  /\ IF end = "sent" THEN AsyncSendGoal ELSE UNCHANGED <<client, server>>

\* A caller other than the retry timer keeps the retry.
StartAndKeepRetry(goals, i, rtb) ==
  \E end \in StartEnds(goals, i) :
    /\ Start(goals, i, rtb, end)
    /\ IF end = "failed" THEN retry' = "pending" /\ owed' = TRUE
                         ELSE UNCHANGED <<retry, owed>>

\* startCb cancels the kept goal unless there is no goal to drive to.
CancelBefore(goals) ==
  IF goals = <<>> THEN UNCHANGED <<cancels, handle>>
                  ELSE CancelKept /\ handle' = NoGoal

-----------------------------------------------------------------------------
\* The operator's topics.
Command(c) ==
  /\ cmds < MaxCommands
  /\ cmds' = cmds + 1
  /\ halted' = (c = "stop") /\ revived' = FALSE
  /\ UNCHANGED fired

\* A return keeps its path: goals that come meanwhile are ignored.
GoalCb ==
  /\ Len(goalPoints) < MaxGoals
  /\ ~rtbMode
  /\ \E p \in Poses :
       goalPoints' = Append(goalPoints, p) /\ active' = Append(active, p)
  /\ UNCHANGED <<index, rtbMode, handle, controlVars, boundVars, navVars>>

StartCb ==
  /\ Command("start")
  /\ CancelBefore(active)
  /\ StartAndKeepRetry(active, index, rtbMode)
  /\ UNCHANGED goalPoints

ForgetTheStop   == UNCHANGED userStopped
RememberTheStop == userStopped' = TRUE
StopCb ==
  /\ Command("stop")
  /\ RememberTheStop
  /\ retry' = "none" /\ owed' = FALSE
  /\ CancelKept /\ handle' = NoGoal
  /\ index' = 0
  /\ UNCHANGED <<goalPoints, active, rtbMode, client, server>>

RtbNoPose ==
  /\ Command("rtb")
  /\ userStopped' = FALSE
  /\ index' = 0
  /\ CancelKept /\ handle' = NoGoal
  /\ UNCHANGED <<goalPoints, active, rtbMode, retry, owed, client, server>>

\* The stored goals in reverse and home, but for those that are blocked or
\* where the robot is; then startCb.
WaysBackHomeFirst(near, lethal) ==
  LET Usable(p) == p \notin near /\ IsPoseCollisionFree(lethal, p)
      home == IF Usable(Home) THEN <<Home>> ELSE <<>>
  IN {home \o back :
        back \in ReturnPath(goalPoints,
                            {i \in DOMAIN goalPoints : Usable(goalPoints[i])})}
WaysBack(near, lethal) ==
  LET Usable(p) == p \notin near /\ IsPoseCollisionFree(lethal, p)
      home == IF Usable(Home) THEN <<Home>> ELSE <<>>
  IN {back \o home :
        back \in ReturnPath(goalPoints,
                            {i \in DOMAIN goalPoints : Usable(goalPoints[i])})}

RtbEmpty ==
  /\ Command("rtb")
  /\ \E near \in Near, lethal \in Costmaps : <<>> \in WaysBack(near, lethal)
  /\ userStopped' = FALSE
  /\ active' = <<>> /\ index' = 0
  /\ CancelKept /\ handle' = NoGoal
  /\ UNCHANGED <<goalPoints, rtbMode, retry, owed, client, server>>

RtbCb ==
  /\ Command("rtb")
  /\ CancelKept /\ handle' = NoGoal
  /\ \E near \in Near, lethal \in Costmaps :
       \E way \in WaysBack(near, lethal) :
         way # <<>> /\ StartAndKeepRetry(way, 0, TRUE)
  /\ UNCHANGED goalPoints

-----------------------------------------------------------------------------
\* The timer cancels retry_timer_ after startCb: also the new one, if startCb
\* failed and scheduled the next retry.
RetryTimer ==
  /\ retry = "pending"
  /\ fired < MaxRetries
  /\ fired' = fired + 1
  /\ retry' = "none"
  /\ IF userStopped
     THEN owed' = FALSE
          /\ UNCHANGED <<missionVars, handle, userStopped, navVars>>
     ELSE /\ CancelBefore(active)
          /\ \E end \in StartEnds(active, index) :
               /\ Start(active, index, rtbMode, end)
               /\ owed' = (end = "failed")
  /\ UNCHANGED <<goalPoints, halted, revived, cmds>>

-----------------------------------------------------------------------------
\* Goal responses come in the order of the requests.
NextResponse(g) ==
  /\ client[g] = "sent"
  /\ server[g] # "requested"
  /\ \A h \in Goals : h < g => client[h] # "sent"

GoalRefused(g) ==
  /\ NextResponse(g) /\ server[g] = "refused"
  /\ client' = [client EXCEPT ![g] = "refused"]
  /\ ScheduleRetry
  /\ UNCHANGED <<goalPoints, missionVars, handle, userStopped,
                 boundVars, server, cancels>>

AcceptedIfFree(g) ==
  /\ NextResponse(g) /\ server[g] # "refused"
  /\ client' = [client EXCEPT ![g] = "accepted"]
  /\ handle' = IF handle = NoGoal THEN g ELSE handle
  /\ UNCHANGED <<goalPoints, missionVars, controlVars, boundVars,
                 server, cancels>>
GoalAccepted(g) ==
  /\ NextResponse(g) /\ server[g] # "refused"
  /\ client' = [client EXCEPT ![g] = "accepted"]
  /\ handle' = g
  /\ UNCHANGED <<goalPoints, missionVars, controlVars, boundVars,
                 server, cancels>>

\* The result of any goal drops the handle of the current one.
ResultKeepsHandle(g, how) ==
  /\ server[g] = how
  /\ client[g] = "accepted"
  /\ UNCHANGED <<handle, goalPoints, halted, cmds, fired, cancels>>
ResultOf(g, how) ==
  /\ server[g] = how
  /\ client[g] = "accepted"
  /\ handle' = NoGoal
  /\ UNCHANGED <<goalPoints, halted, cmds, fired, cancels>>
Done(g) == [client EXCEPT ![g] = "done"]

\* The segment is done: the next one is started from within the callback,
\* also when the user has stopped the mission meanwhile.
NextSegment(g) ==
  /\ index + 1 < Len(active)
  /\ revived' = TRUE
  /\ \E end \in StartEnds(active, index + 1) :
       /\ userStopped' = FALSE
       /\ active' = active /\ index' = index + 1 /\ rtbMode' = rtbMode
       /\ IF end = "sent"
          THEN client' = Append(Done(g), "sent")
               /\ server' = Append(server, "requested")
          ELSE client' = Done(g) /\ UNCHANGED server
       /\ IF end = "failed" THEN retry' = "pending" /\ owed' = TRUE
                            ELSE UNCHANGED <<retry, owed>>

SegmentSucceeded(g) ==
  ResultOf(g, "succeeded") /\ NextSegment(g)

MissionPastEnd(g) ==
  /\ ResultOf(g, "succeeded")
  /\ index + 1 >= Len(active)
  /\ index' = index + 1 /\ rtbMode' = FALSE
  /\ client' = Done(g)
  /\ UNCHANGED <<active, controlVars, revived, server>>
MissionSucceeded(g) ==
  /\ ResultOf(g, "succeeded")
  /\ index + 1 >= Len(active)
  /\ active' = <<>> /\ index' = 0 /\ rtbMode' = FALSE
  /\ client' = Done(g)
  /\ UNCHANGED <<controlVars, revived, server>>

SegmentCanceled(g) ==
  /\ ResultOf(g, "canceled")
  /\ rtbMode' = FALSE
  /\ index' = IF userStopped \/ index >= Len(active) THEN 0 ELSE index
  /\ client' = Done(g)
  /\ UNCHANGED <<active, controlVars, revived, server>>

\* Aborted within two metres of the current goal: taken for a success.
AbortedAtGoal(g) ==
  ResultOf(g, "aborted") /\ NextSegment(g)

AbortedAtLastGoal(g) ==
  /\ ResultOf(g, "aborted")
  /\ index + 1 = Len(active)
  /\ active' = <<>> /\ index' = 0
  /\ rtbMode' = (rtbMode /\ ~userStopped)
  /\ client' = Done(g)
  /\ UNCHANGED <<controlVars, revived, server>>

\* Aborted elsewhere: retried until the user stops it.  A result of unknown
\* code, which the server never sends, would be handled alike.
SegmentAborted(g) ==
  /\ ResultOf(g, "aborted")
  /\ client' = Done(g)
  /\ ScheduleRetry
  /\ rtbMode' = (rtbMode /\ ~userStopped)
  /\ index' = IF userStopped THEN 0 ELSE index
  /\ UNCHANGED <<active, userStopped, revived, server>>

-----------------------------------------------------------------------------
Operator == GoalCb \/ StartCb \/ StopCb \/ RtbNoPose
            \/ RtbEmpty \/ RtbCb

Response(g) == GoalRefused(g) \/ GoalAccepted(g)
Result(g) == \/ SegmentSucceeded(g) \/ MissionSucceeded(g)
             \/ SegmentCanceled(g)
             \/ AbortedAtGoal(g) \/ AbortedAtLastGoal(g) \/ SegmentAborted(g)

ServerStep == ServerNext /\ UNCHANGED <<goalPoints, missionVars, handle,
                                        controlVars, boundVars>>

Next ==
  \/ Operator
  \/ RetryTimer
  \/ \E g \in Goals : Response(g) \/ Result(g)
  \/ ServerStep

Spec == Init /\ [][Next]_vars

(***************************************************************************)
(* Fairness: the node keeps spinning, so that timers and answers that are  *)
(* ready are served; Nav2 answers requests and ends each goal some day.    *)
(* Nothing is assumed of the operator.                                     *)
(***************************************************************************)
Fairness ==
  /\ WF_vars(RetryTimer)
  /\ WF_vars(\E g \in Goals : Response(g) \/ Result(g))
  /\ WF_vars(ServerStep)

FairSpec == Spec /\ Fairness

-----------------------------------------------------------------------------
\* The types of all state.
TypeOK ==
  /\ goalPoints \in Seq(Poses) /\ active \in Seq(Spots)
  /\ index \in Nat /\ handle \in Nat
  /\ rtbMode \in BOOLEAN /\ userStopped \in BOOLEAN /\ owed \in BOOLEAN
  /\ retry \in {"none", "pending"}
  /\ halted \in BOOLEAN /\ revived \in BOOLEAN
  /\ cmds \in 0..MaxCommands /\ fired \in 0..MaxRetries
  /\ NavTypeOK

\* After the operator's stop no retry is pending and the next start begins
\* with the first segment, whichever refusals, aborts and cancellations of
\* goals arrive late, as long as no late result starts the next segment: a
\* success, or an abort within two metres of the goal, does so even after a
\* stop, and takes the stop back.
StoppedHasNoRetry == halted /\ ~revived => retry = "none" /\ index = 0

\* Such a result is the only way in which, after a stop and before the next
\* start or return, goals are sent to Nav2 again.
OnlyResultsRevive == [][Newest' > Newest /\ halted' => revived']_vars

\* current_goal_index_ names a goal of the mission or is 0, although results
\* of old goals advance it and stop, RTB and completion reset it or empty the
\* list: startCb's "All segments completed" is never reached with goals left.
IndexNamesAGoal == index = 0 \/ index < Len(active)

\* startCb, stopCb and rtbCb hand current_goal_handle_ to async_cancel_goal,
\* which throws, and so ends the process, if the client library no longer
\* knows the goal.  It always does, and the goal is never one Nav2 has replaced
\* by a later one whose acceptance the manager knows.
HandleIsRight ==
  handle # NoGoal =>
    /\ Live(handle)
    /\ \A g \in Goals : g > handle => client[g] \in {"sent", "refused"}

\* "Build REVERSE path through stored waypoints": in RTB mode the active
\* goals are stored goals from the last to the first, with home at the end if
\* anywhere, whatever goals, starts, retries and results came meanwhile.
IsReturnPath(goals) ==
  \E f \in [DOMAIN goals -> DOMAIN goalPoints] :
    /\ \A i, j \in DOMAIN goals : i < j => f[i] > f[j]
    /\ \A i \in DOMAIN goals : goals[i] = goalPoints[f[i]]

ReturnPathIsReverse ==
  rtbMode /\ active # <<>> =>
    \/ IsReturnPath(active)
    \/ /\ active[Len(active)] = Home
       /\ IsReturnPath(SubSeq(active, 1, Len(active) - 1))

\* The manager comes to rest: when the operator is silent and the retries
\* are used up, it waits for no answer and keeps no handle of an old goal.
AtRest ==
  /\ \A g \in Goals : ~Outstanding(g)
  /\ handle = NoGoal
  /\ retry = "pending" => fired = MaxRetries

EventuallyRests == <>[]AtRest

-----------------------------------------------------------------------------
\* "Retry policy: INFINITE (until /stop_navigation)": a retry that was
\* announced stays scheduled until it runs or the user stops it.
RetryIsKept == owed => retry = "pending"

\* "Use /start_navigation to resume": after a stop nothing is sent to Nav2
\* before the operator starts or returns.
StopHolds == [][Newest' > Newest => ~halted']_vars
=============================================================================
