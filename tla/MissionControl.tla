--------------------------- MODULE MissionControl ---------------------------
(***************************************************************************)
(* The process of telemetry_handler_wp_manager.cpp: the telemetry node and *)
(* the waypoint manager on the two threads of one MultiThreadedExecutor,   *)
(* together with the Nav2 action server they drive.                        *)
(***************************************************************************)
EXTENDS WaypointManager

vars == <<linkVars, managerVars, navVars>>

Init == LinkInit /\ ManagerInit /\ NavInit

LinkStep    == LinkNext /\ UNCHANGED <<managerVars, navVars>>
ManagerStep == ManagerNext
ServerStep  == ServerNext /\ UNCHANGED <<linkVars, managerVars>>

Next == LinkStep \/ ManagerStep \/ ServerStep

Spec == Init /\ [][Next]_vars

(***************************************************************************)
(* Fairness.  The executor keeps serving callbacks that are ready, and a   *)
(* callback that runs goes on.  The Nav2 server answers requests, acts on  *)
(* cancel requests and ends each goal some day.  Nothing is assumed of     *)
(* the ground station, the GPS receiver, costmaps or feedback.             *)
(***************************************************************************)
AnswerRequest == \E g \in Goals : ServerRefuses(g) \/ ServerAccepts(g)
HonourCancel  == \E g \in Goals : ServerCancels(g)
EndGoal       == \E g \in Goals : ServerEnds(g)
Respond       == \E g \in Goals : GoalResponse(g)
DeliverResult == \E g \in Goals : Result(g)

Fairness ==
  /\ WF_vars(LinkHandler /\ UNCHANGED <<managerVars, navVars>>)
  /\ WF_vars(RunningCallback)
  /\ SF_vars(GoalCb) /\ SF_vars(RtbCb) /\ SF_vars(StartCb)
  /\ SF_vars(StopCb) /\ SF_vars(FlushCb)
  /\ SF_vars(Respond) /\ SF_vars(DeliverResult)
  /\ WF_vars(AnswerRequest /\ UNCHANGED <<client, linkVars, managerVars>>)
  /\ WF_vars(HonourCancel /\ UNCHANGED <<client, linkVars, managerVars>>)
  /\ WF_vars(EndGoal /\ UNCHANGED <<client, linkVars, managerVars>>)

FairSpec == Spec /\ Fairness

-----------------------------------------------------------------------------
\* The types of all state.
TypeOK ==
  /\ LinkFlagsOK /\ LinkDataOK
  /\ ManagerFlagsOK /\ ManagerDataOK
  /\ NavTypeOK

\* The bookkeeping of goals, in the terms of GoalTracking: no callback of the
\* manager, in whatever order its messages and the two threads bring it about,
\* treats handle and mission_active_ in another way than GoalTracking does.
Tracking == INSTANCE GoalTracking WITH
              status <- client, tracked <- handle, active <- missionActive

TracksGoals == Tracking!Spec

\* stopCb and rtbCb hand current_goal_handle_ to async_cancel_goal, which
\* throws, and so ends the process, if the client library no longer knows the
\* goal.  The handle the manager keeps is always one the library knows,
\* whichever goals were preempted, cancelled, refused or finished meanwhile,
\* and the latest mission Nav2 has accepted as far as the manager knows, never
\* one it replaced.
HandleIsRight ==
  handle # NoGoal =>
    /\ Live(handle)
    /\ \A g \in Goals : g > handle => client[g] \in {"sent", "refused"}

\* mission_active_ is not left on by a mission that is over: as long as it is
\* set, the goal sent last is still to be answered or to end.
ActiveMissionIsOutstanding == missionActive => Outstanding(Newest)

\* raw_goals_ ("Active mission goals") is goal_points_ ("ALL goals") with
\* some goals left out and the order kept, whatever the feedback of current
\* and old missions erased and whatever RTB, stop and flush rewrote.
ActiveGoalsAreKnownGoals ==
  \E f \in [DOMAIN rawGoals -> DOMAIN goalPoints] :
    /\ \A i, j \in DOMAIN rawGoals : i < j => f[i] < f[j]
    /\ \A i \in DOMAIN rawGoals : rawGoals[i] = goalPoints[f[i]]

\* The static guard of rtbCb is released when rtbCb is over, on the way out
\* without a map origin and on each of those of the startCb it calls, whatever
\* the telemetry thread changes meanwhile: no return is ignored for an earlier
\* one that is over, and no start or stop ends the guard of a return that runs.
RtbGuardIsRight ==
  rtbInProgress <=>
    nested \/ pc \in {"rtbPose", "rtbBase", "rtbLoad", "rtbPlan"}

\* Two threads, five topics: startCb and rtbCb ask for the map origin and send
\* a goal later, and the vehicle may be disarmed in between.  But then the stop
\* of that DISARM is still to come: once it has been handled no goal is sent,
\* by whatever start or return was queued or begun before the DISARM, until
\* the vehicle is armed again.  (The raw DISARM byte publishes no stop.)
StoppedVehicleStays ==
  [][Newest' > Newest =>
       armValid \/ stopQ > 0 \/ linkPc = "disarmStop"]_vars

\* A mission that was asked for comes to rest: when the ground station is
\* silent, the manager ends up with every message handled, no callback left
\* running, no goal it waits for, and no mission it believes active.
AtRest ==
  /\ pc = "idle"
  /\ <<startQ, stopQ, rtbQ, flushQ, goalQ>> = <<0, 0, 0, 0, <<>> >>
  /\ handle = NoGoal
  /\ ~missionActive
  /\ \A g \in Goals : ~Outstanding(g)

EventuallyRests == <>[]AtRest

\* Two threads, two stores: the base position that is left once SET_BASE is
\* done is one the receiver reported as a whole (or the initial zeros), not
\* one half of a position and the other half of another.
BaseIsAPosition == linkPc = "idle" => baseAt \in Fixes \cup {Origin}

\* A map origin is only ever valid while the vehicle is armed; between the
\* two stores of a DISARM it still is.
OriginOnlyWhenArmed == armValid => armMode = 1 \/ linkPc = "disarmValid"
=============================================================================
