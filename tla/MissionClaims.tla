---------------------------- MODULE MissionClaims ----------------------------
(***************************************************************************)
(* What comments and messages of the repository say of the mission logic,  *)
(* stated about MissionControl.  Some of it holds only for an operator who *)
(* waits (PatientOperator), some of it does not hold.                      *)
(***************************************************************************)
EXTENDS MissionControl

Drained ==
  /\ pc = "idle" /\ linkPc = "idle"
  /\ startQ = 0 /\ stopQ = 0 /\ rtbQ = 0 /\ flushQ = 0 /\ goalQ = <<>>

\* A goal that Nav2 executes, or will execute, and that nobody cancels.
Stray(g) ==
  /\ Outstanding(g)
  /\ server[g] \in {"requested", "executing"}
  /\ g \notin cancels

\* "Naivgation stopped." (stopCb): when DISARM was the last command and all
\* messages are handled, Nav2 has no goal left that nobody asked it to cancel.
DisarmStops ==
  lastCmd = "DISARM" /\ Drained => \A g \in Goals : ~Stray(g)

\* "1. Cancel current navigation" (rtbCb): after this part of rtbCb, every
\* goal that is out has been asked to cancel, or is over.
RtbCancelsCurrent ==
  [][pc = "idle" /\ pc' = "rtbPose" =>
       \A g \in Goals : Stray(g) => g \in cancels']_vars

\* "Flush Waypoints received, all waypoints should be cleared": when the
\* flush was the last command and all messages are handled, no goal is left.
FlushClears ==
  lastCmd = "FLUSH" /\ Drained => goalPoints = <<>> /\ rawGoals = <<>>

\* "3. Update both vectors for RTB navigation" (rtbCb): when rtbCb has
\* switched to RTB and there are goals to go back through, a mission runs.
RtbMissionRuns ==
  goalRtbMode /\ rawGoals # <<>> /\ pc = "idle" => missionActive
=============================================================================
