------------------------- MODULE StandaloneManager -------------------------
(***************************************************************************)
(* WaypointManagerInterpolater of wp_manager_interpolater.cpp, the waypoint*)
(* manager that runs as a node of its own and drives all goals of a        *)
(* mission as one navigate_through_poses goal.                             *)
(*                                                                         *)
(* One thread spins the node: each callback is one action, with the        *)
(* startCb it calls and the sleeps in it.  rtb_in_progress is therefore    *)
(* always false when a callback starts.  What interleaves are the          *)
(* operator's topics, the answers of Nav2 and Nav2 itself.                 *)
(*                                                                         *)
(* Left out, because only markers and log lines depend on them:            *)
(* interpolated_path_, is_paused_, completed_goals_count_, pause_timer_    *)
(* (never set), last_reached_goal_idx_, latitude_ and longitude_.          *)
(***************************************************************************)
EXTENDS NavAction, ReturnPaths

CONSTANTS
  Poses,         \* where the operator puts goals, some metres apart
  Home,          \* the pose [0,0] of the map
  Costmaps,      \* the sets of blocked poses a costmap may show
  MaxGoals,      \* bound on the goals stored when the operator adds one
  MaxCommands    \* bound on the operator's starts, stops and RTBs

ASSUME StandaloneAssumption ==
  /\ Home \notin Poses
  /\ Costmaps \subseteq SUBSET (Poses \cup {Home})
  /\ MaxGoals \in Nat /\ MaxCommands \in Nat

Spots == Poses \cup {Home}

VARIABLES
  goalPoints,      \* goal_points_
  rawGoals,        \* raw_goals_
  handle,          \* current_goal_handle_
  missionActive,   \* mission_active_
  rtbMode,         \* goal_rtb_mode_
  unsent,          \* the last mission that was started found no action server
  lost,            \* goals whose handle the result of another one dropped
  cmds             \* such commands so far

missionVars == <<missionActive, rtbMode, unsent>>
vars == <<goalPoints, rawGoals, handle, missionVars, lost, cmds, navVars>>

Init ==
  /\ goalPoints = <<>> /\ rawGoals = <<>>
  /\ handle = NoGoal /\ NavInit
  /\ missionActive = FALSE /\ rtbMode = FALSE
  /\ unsent = FALSE /\ lost = {}
  /\ cmds = 0

-----------------------------------------------------------------------------
\* latest_costmap_ is chosen where it is read, as is the pose of the robot,
\* which at most one pose is near to.
IsPoseCollisionFree(lethal, p) == p \notin lethal
Near == {{}} \cup {{p} : p \in Spots}

\* Variant with a mistake: the goal is not told.
ForgetCurrent == handle' = NoGoal /\ UNCHANGED cancels
\* stopCb and rtbCb cancel the goal they have a handle of, and forget it.
CancelCurrent ==
  IF handle # NoGoal THEN AsyncCancelGoal(handle) /\ handle' = NoGoal
                     ELSE UNCHANGED <<cancels, handle>>

\* How startCb may end: no goals; no robot pose; every goal and every point
\* on the way blocked; no action server for three seconds, which startCb does
\* not learn; or the goals are sent, whatever mission is out.
StartEnds(goals, lethal) ==
  IF goals = <<>> THEN {"empty"}
  ELSE {"noPose", "unsent", "sent"}
       \cup (IF \E i \in DOMAIN goals : IsPoseCollisionFree(lethal, goals[i])
             THEN {} ELSE {"empty"})

\* startCb, called with these values of mission_active_ and goal_rtb_mode_.
Start(end, active, rtb) ==
  /\ rtbMode' = (end # "empty" /\ rtb)
  /\ missionActive' = (end \in {"sent", "unsent"} \/ active)
  /\ unsent' = (end = "unsent" \/ (end # "sent" /\ unsent))
  /\ IF end = "sent" THEN AsyncSendGoal ELSE UNCHANGED <<client, server>>

-----------------------------------------------------------------------------
\* The operator's topics.
Command == cmds < MaxCommands /\ cmds' = cmds + 1

GoalCb ==
  /\ Len(goalPoints) < MaxGoals
  /\ \E p \in Poses :
       goalPoints' = Append(goalPoints, p) /\ rawGoals' = Append(rawGoals, p)
  /\ UNCHANGED <<handle, missionVars, lost, cmds, navVars>>

StartCb ==
  /\ Command
  /\ \E lethal \in Costmaps :
       \E end \in StartEnds(rawGoals, lethal) : Start(end, missionActive, rtbMode)
  /\ UNCHANGED <<goalPoints, rawGoals, handle, lost, cancels>>

\* The lists are kept.
StopCb ==
  /\ Command
  /\ CancelCurrent
  /\ missionActive' = FALSE /\ rtbMode' = FALSE
  /\ UNCHANGED <<goalPoints, rawGoals, unsent, lost, client, server>>

RtbNoPose ==
  /\ Command
  /\ CancelCurrent
  /\ UNCHANGED <<goalPoints, rawGoals, missionVars, lost, client, server>>

\* The stored goals in reverse and home, but for those that are blocked or
\* where the robot is.
WaysBack(near, lethal) ==
  LET Usable(p) == p \notin near /\ IsPoseCollisionFree(lethal, p)
      home == IF Usable(Home) THEN <<Home>> ELSE <<>>
  IN {back \o home :
        back \in ReturnPath(goalPoints,
                            {i \in DOMAIN goalPoints : Usable(goalPoints[i])})}

\* The way back replaces both lists; then startCb.
RtbCb ==
  /\ Command
  /\ CancelCurrent
  /\ \E near \in Near, lethal \in Costmaps :
       \E way \in WaysBack(near, lethal) :
         /\ goalPoints' = way /\ rawGoals' = way
         /\ \E end \in StartEnds(way, lethal) : Start(end, FALSE, TRUE)
  /\ UNCHANGED <<lost>>

-----------------------------------------------------------------------------
\* Goal responses come in the order of the requests.
NextResponse(g) ==
  /\ client[g] = "sent"
  /\ server[g] # "requested"
  /\ \A h \in Goals : h < g => client[h] # "sent"

\* Variant with a mistake: a refusal does not end the mission.
RefusedQuietly(g) ==
  /\ NextResponse(g) /\ server[g] = "refused"
  /\ client' = [client EXCEPT ![g] = "refused"]
  /\ UNCHANGED <<goalPoints, rawGoals, handle, missionVars, lost, cmds, server,
                 cancels>>
GoalRefused(g) ==
  /\ NextResponse(g) /\ server[g] = "refused"
  /\ client' = [client EXCEPT ![g] = "refused"]
  /\ missionActive' = FALSE
  /\ UNCHANGED <<goalPoints, rawGoals, handle, rtbMode, unsent, lost,
                 cmds, server, cancels>>

\* Variant with a mistake: the handle of an older goal is kept.
AcceptedIfFree(g) ==
  /\ NextResponse(g) /\ server[g] # "refused"
  /\ client' = [client EXCEPT ![g] = "accepted"]
  /\ handle' = IF handle = NoGoal THEN g ELSE handle
  /\ UNCHANGED <<goalPoints, rawGoals, missionVars, lost, cmds, server,
                 cancels>>
GoalAccepted(g) ==
  /\ NextResponse(g) /\ server[g] # "refused"
  /\ client' = [client EXCEPT ![g] = "accepted"]
  /\ handle' = g
  /\ UNCHANGED <<goalPoints, rawGoals, missionVars, lost, cmds, server,
                 cancels>>

\* Variant with a mistake: the last goal takes the place of the one removed.
LastMovedUp(goals, i) ==
  [j \in 1..(Len(goals) - 1) |-> IF j = i THEN goals[Len(goals)] ELSE goals[j]]
\* What remains when the goal at i is taken out.
Without(goals, i) ==
  [j \in 1..(Len(goals) - 1) |-> IF j < i THEN goals[j] ELSE goals[j + 1]]

\* Feedback of any goal the client library knows: the first of the mission's
\* goals within 0.5 metres of the robot is taken out.
Feedback(g) ==
  /\ client[g] = "accepted"
  /\ \E i \in DOMAIN rawGoals :
       /\ \A j \in 1..(i - 1) : rawGoals[j] # rawGoals[i]
       /\ rawGoals' = Without(rawGoals, i)
  /\ UNCHANGED <<goalPoints, handle, missionVars, lost, cmds, navVars>>

\* Variant with a mistake: the handle outlives its goal.
ResultKeepsHandle(g) ==
  /\ client[g] = "accepted" /\ server[g] \in Ended
  /\ client' = [client EXCEPT ![g] = "done"]
  /\ handle' = handle /\ lost' = lost
  /\ missionActive' = FALSE /\ rtbMode' = FALSE
  /\ UNCHANGED <<goalPoints, rawGoals, unsent, cmds, server, cancels>>
\* The result of any goal ends the mission and drops the handle.
Result(g) ==
  /\ client[g] = "accepted" /\ server[g] \in Ended
  /\ client' = [client EXCEPT ![g] = "done"]
  /\ handle' = NoGoal
  /\ lost' = (lost \cup {handle}) \ {g, NoGoal}
  /\ missionActive' = FALSE /\ rtbMode' = FALSE
  /\ UNCHANGED <<goalPoints, rawGoals, unsent, cmds, server, cancels>>

-----------------------------------------------------------------------------
Operator == GoalCb \/ StartCb \/ StopCb \/ RtbNoPose \/ RtbCb
Answer(g) == GoalRefused(g) \/ GoalAccepted(g) \/ Result(g)

ServerStep ==
  /\ ServerNext
  /\ UNCHANGED <<goalPoints, rawGoals, handle, missionVars, lost, cmds>>

Next ==
  \/ Operator
  \/ \E g \in Goals : Answer(g) \/ Feedback(g)
  \/ ServerStep

Spec == Init /\ [][Next]_vars

(***************************************************************************)
(* Fairness: the node keeps spinning, so that an answer that has come is   *)
(* served; Nav2 answers requests and ends each goal some day.  Nothing is  *)
(* assumed of the operator, nor of feedback.                               *)
(***************************************************************************)
Fairness ==
  /\ WF_vars(\E g \in Goals : Answer(g))
  /\ WF_vars(ServerStep)

FairSpec == Spec /\ Fairness

-----------------------------------------------------------------------------
\* The types of all state.
TypeOK ==
  /\ goalPoints \in Seq(Spots) /\ rawGoals \in Seq(Spots)
  /\ handle \in Nat
  /\ missionActive \in BOOLEAN /\ rtbMode \in BOOLEAN /\ unsent \in BOOLEAN
  /\ lost \subseteq Goals
  /\ cmds \in 0..MaxCommands
  /\ NavTypeOK

\* stopCb and rtbCb hand current_goal_handle_ to async_cancel_goal, which
\* throws, and so ends the process, if the client library no longer knows the
\* goal.  It always does, and the goal is never one Nav2 has replaced by a
\* later one whose acceptance the manager knows.
HandleIsRight ==
  handle # NoGoal =>
    /\ Live(handle)
    /\ \A g \in Goals : g > handle => client[g] \in {"sent", "refused"}

\* mission_active_ means that the mission that was sent last is out, unless
\* startCb set it although sendPathToNav2 had found no action server.
ActiveMeansOut == missionActive /\ ~unsent => Outstanding(Newest)

\* A mission that is out and that nobody cancelled can be cancelled: its
\* handle is kept or about to come, unless the result of another mission, one
\* it replaced, made the manager drop it.
Stray(g) ==
  /\ Outstanding(g)
  /\ server[g] \in {"requested", "executing"}
  /\ g \notin cancels

MissionsAreTracked ==
  \A g \in Goals :
    Stray(g) => g = handle \/ client[g] = "sent" \/ g \in lost

\* The goals still to reach are stored goals, in their order: feedback that
\* takes one out, even that of an old mission, keeps the rest in order, and a
\* start drives them so; a return replaces both lists alike.
GoalsKeepOrder ==
  \E f \in [DOMAIN rawGoals -> DOMAIN goalPoints] :
    /\ \A i, j \in DOMAIN rawGoals : i < j => f[i] < f[j]
    /\ \A i \in DOMAIN rawGoals : rawGoals[i] = goalPoints[f[i]]

\* The manager comes to rest when the operator is silent: no answer is awaited,
\* no handle kept, and no mission called active but one that was never sent.
AtRest ==
  /\ \A g \in Goals : ~Outstanding(g)
  /\ handle = NoGoal
  /\ missionActive => unsent

EventuallyRests == <>[]AtRest
=============================================================================
