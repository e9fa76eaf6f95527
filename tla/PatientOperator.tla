--------------------------- MODULE PatientOperator ---------------------------
(***************************************************************************)
(* MissionControl under an operator who waits: the next command is sent    *)
(* when the effects of the last one are complete, goal responses included, *)
(* and ARM, which starts a mission, when the last mission is over.  This   *)
(* is the discipline under which DISARM, FLUSH and RTB do what they say.   *)
(***************************************************************************)
EXTENDS MissionClaims

Complete == Drained /\ \A g \in Goals : client[g] # "sent"

Patience ==
  cmds' # cmds =>
    /\ Complete
    /\ lastCmd' = "ARM" => \A g \in Goals : ~Outstanding(g)

PatientNext == Next /\ Patience
PatientSpec == Init /\ [][PatientNext]_vars

\* The fairness of FairSpec, but goals need not end by themselves: Nav2 may
\* drive on until it is told to stop.
PatientFairness ==
  /\ WF_vars(LinkHandler /\ UNCHANGED <<managerVars, navVars>>)
  /\ WF_vars(RunningCallback)
  /\ SF_vars(GoalCb) /\ SF_vars(RtbCb) /\ SF_vars(StartCb)
  /\ SF_vars(StopCb) /\ SF_vars(FlushCb)
  /\ SF_vars(Respond) /\ SF_vars(DeliverResult)
  /\ WF_vars(AnswerRequest /\ UNCHANGED <<client, linkVars, managerVars>>)
  /\ WF_vars(HonourCancel /\ UNCHANGED <<client, linkVars, managerVars>>)

PatientFairSpec == PatientSpec /\ PatientFairness

\* As long as a mission is out that nobody cancelled, the manager can cancel
\* it: it holds the handle, or is about to get it.
MissionsAreTracked ==
  \A g \in Goals :
    Stray(g) => g = handle \/ client[g] = "sent"

\* DISARM ends the drive of a mission however long Nav2 would go on: some time
\* after it, no goal executes, unless the operator has gone on to ARM.
DisarmEndsDriving ==
  lastCmd = "DISARM" ~>
    \/ lastCmd = "ARM"
    \/ \A g \in Goals : server[g] # "executing"

\* A goal is a waypoint converted with a base, or a base converted with a map
\* origin, of positions that the receiver reported or the ground station sent;
\* a base may also be the initial zeros.
Bases == Fixes \cup {Origin}
Whole(p) ==
  \/ \E w \in Waypoints, b \in Bases : p = InterpretGoal("", w, b)
  \/ \E b \in Bases, a \in Fixes : p = GpsToMap(b, a)

\* Two threads, eight loads and stores without a lock: an operator who waits
\* gets no goal that was computed from the latitude of one position and the
\* longitude of another.
GoalsAreWhole == \A p \in Range(goalPoints) \cup Range(rawGoals) : Whole(p)
=============================================================================
