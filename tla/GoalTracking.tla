---------------------------- MODULE GoalTracking ----------------------------
(***************************************************************************)
(* What a client of an action server that sends goal after goal, and keeps *)
(* one handle to cancel with, promises about its own bookkeeping.          *)
(* MissionControl implements it: status[g] is what its callbacks know of   *)
(* goal g, tracked is current_goal_handle_, active is mission_active_.     *)
(***************************************************************************)
EXTENDS Naturals, Sequences, TLAPS

VARIABLES status, tracked, active

trackingVars == <<status, tracked, active>>

Init == status = <<>> /\ tracked = 0 /\ active = FALSE

\* A goal is sent, and believed to be the mission that runs.
Send ==
  /\ status' = Append(status, "sent")
  /\ active' = TRUE
  /\ UNCHANGED tracked

\* Goals are answered in the order in which they were sent.
Unanswered(g) ==
  /\ status[g] = "sent"
  /\ \A h \in DOMAIN status : h < g => status[h] # "sent"

Refuse(g) ==
  /\ Unanswered(g)
  /\ status' = [status EXCEPT ![g] = "refused"]
  /\ active' = FALSE
  /\ UNCHANGED tracked

Accept(g) ==
  /\ Unanswered(g)
  /\ status' = [status EXCEPT ![g] = "accepted"]
  /\ tracked' = g
  /\ UNCHANGED active

\* The end of any goal takes the handle and the belief with it.
Finish(g) ==
  /\ status[g] = "accepted"
  /\ status' = [status EXCEPT ![g] = "done"]
  /\ tracked' = 0
  /\ active' = FALSE

\* The handle is given up after a cancel request, or the belief, or both.
LetGo ==
  /\ tracked' \in {tracked, 0}
  /\ active' \in {active, FALSE}
  /\ UNCHANGED status

Next ==
  \/ Send
  \/ LetGo
  \/ \E g \in DOMAIN status : Refuse(g) \/ Accept(g) \/ Finish(g)

Spec == Init /\ [][Next]_trackingVars

-----------------------------------------------------------------------------
TypeOK ==
  /\ status \in Seq({"sent", "accepted", "refused", "done"})
  /\ tracked \in Nat
  /\ active \in BOOLEAN

\* The goal of the handle is accepted and not over: it can be cancelled.
TrackedIsLive ==
  tracked # 0 => tracked \in DOMAIN status /\ status[tracked] = "accepted"

\* Every goal sent after the tracked one is unanswered or refused.
TrackedIsNewest ==
  tracked # 0 =>
    \A g \in DOMAIN status : g > tracked => status[g] \in {"sent", "refused"}

\* As long as a mission is believed to run, the goal sent last is not over.
ActiveIsOutstanding ==
  active =>
    /\ Len(status) # 0
    /\ status[Len(status)] \in {"sent", "accepted"}

\* The answers have come for the goals sent first, and for no others.
AnsweredInOrder ==
  \A g, h \in DOMAIN status : g < h /\ status[g] = "sent" => status[h] = "sent"

TrackingInv ==
  /\ TypeOK
  /\ TrackedIsLive
  /\ TrackedIsNewest
  /\ ActiveIsOutstanding
  /\ AnsweredInOrder

-----------------------------------------------------------------------------
(***************************************************************************)
(* The bookkeeping is right.  The invariant is inductive with              *)
(* AnsweredInOrder: an answer to goal g shows that no later goal has been  *)
(* answered, which is why the handle it brings is the newest one.          *)
(***************************************************************************)
LEMMA SendKeeps == TrackingInv /\ Send => TrackingInv'
<1> SUFFICES ASSUME TrackingInv, Send PROVE TrackingInv' OBVIOUS
<1> USE DEF TrackingInv, TypeOK, Send
<1>1. /\ Len(status') = Len(status) + 1
      /\ status'[Len(status) + 1] = "sent"
      /\ \A g \in DOMAIN status : status'[g] = status[g]
      /\ DOMAIN status' = 1..(Len(status) + 1)
      /\ DOMAIN status = 1..Len(status)
  OBVIOUS
<1>2. TypeOK'
  <2>1. active' \in BOOLEAN OBVIOUS
  <2>2. status' \in Seq({"sent", "accepted", "refused", "done"})
        /\ tracked' \in Nat OBVIOUS
  <2>. QED BY <2>1, <2>2
<1>3. TrackedIsLive' BY <1>1 DEF TrackedIsLive
<1>4. TrackedIsNewest' BY <1>1 DEF TrackedIsNewest
<1>5. ActiveIsOutstanding' BY <1>1 DEF ActiveIsOutstanding
<1>6. AnsweredInOrder' BY <1>1 DEF AnsweredInOrder
<1>. QED BY <1>2, <1>3, <1>4, <1>5, <1>6

LEMMA LetGoKeeps == TrackingInv /\ LetGo => TrackingInv'
<1> SUFFICES ASSUME TrackingInv, LetGo PROVE TrackingInv' OBVIOUS
<1> USE DEF TrackingInv, LetGo
<1>1. TypeOK'
  <2>1. active' \in BOOLEAN BY DEF TypeOK
  <2>2. status' \in Seq({"sent", "accepted", "refused", "done"})
        /\ tracked' \in Nat BY DEF TypeOK
  <2>. QED BY <2>1, <2>2 DEF TypeOK
<1>2. TrackedIsLive' BY DEF TrackedIsLive
<1>3. TrackedIsNewest' BY DEF TrackedIsNewest
<1>4. ActiveIsOutstanding' BY DEF ActiveIsOutstanding
<1>5. AnsweredInOrder' BY DEF AnsweredInOrder
<1>. QED BY <1>1, <1>2, <1>3, <1>4, <1>5

\* What an answer and a result change of status.
LEMMA OneMoves ==
  ASSUME TypeOK, NEW g \in DOMAIN status,
         NEW s \in {"sent", "accepted", "refused", "done"},
         status' = [status EXCEPT ![g] = s]
  PROVE  /\ status' \in Seq({"sent", "accepted", "refused", "done"})
         /\ DOMAIN status' = DOMAIN status
         /\ Len(status') = Len(status)
         /\ status'[g] = s
         /\ \A h \in DOMAIN status : h # g => status'[h] = status[h]
BY DEF TypeOK

LEMMA RefuseKeeps ==
  ASSUME TrackingInv, NEW g \in DOMAIN status, Refuse(g)
  PROVE  TrackingInv'
<1> USE DEF TrackingInv
<1>1. /\ status' \in Seq({"sent", "accepted", "refused", "done"})
      /\ DOMAIN status' = DOMAIN status
      /\ Len(status') = Len(status)
      /\ status'[g] = "refused"
      /\ \A h \in DOMAIN status : h # g => status'[h] = status[h]
  BY OneMoves DEF Refuse
<1>2. status[g] = "sent" /\ active' = FALSE /\ tracked' = tracked
  BY DEF Refuse, Unanswered
<1>3. \A h \in DOMAIN status : h < g => status[h] # "sent"
  BY DEF Refuse, Unanswered
<1>4. DOMAIN status = 1..Len(status) BY DEF TypeOK
<1>5. TypeOK' BY <1>1, <1>2 DEF TypeOK
<1>6. TrackedIsLive' BY <1>1, <1>2 DEF TrackedIsLive
<1>7. TrackedIsNewest' BY <1>1, <1>2 DEF TrackedIsNewest
<1>8. ActiveIsOutstanding' BY <1>2 DEF ActiveIsOutstanding
<1>9. AnsweredInOrder' BY <1>1, <1>3, <1>4 DEF AnsweredInOrder
<1>. QED BY <1>5, <1>6, <1>7, <1>8, <1>9

LEMMA AcceptKeeps ==
  ASSUME TrackingInv, NEW g \in DOMAIN status, Accept(g)
  PROVE  TrackingInv'
<1> USE DEF TrackingInv
<1>1. /\ status' \in Seq({"sent", "accepted", "refused", "done"})
      /\ DOMAIN status' = DOMAIN status
      /\ Len(status') = Len(status)
      /\ status'[g] = "accepted"
      /\ \A h \in DOMAIN status : h # g => status'[h] = status[h]
  BY OneMoves DEF Accept
<1>2. status[g] = "sent" /\ active' = active /\ tracked' = g
  BY DEF Accept, Unanswered
<1>3. \A h \in DOMAIN status : h < g => status[h] # "sent"
  BY DEF Accept, Unanswered
<1>4. DOMAIN status = 1..Len(status) BY DEF TypeOK
<1>5. TypeOK'
  <2>1. active' \in BOOLEAN BY <1>2 DEF TypeOK
  <2>2. tracked' \in Nat BY <1>2, <1>4
  <2>. QED BY <1>1, <2>1, <2>2 DEF TypeOK
<1>6. TrackedIsLive' BY <1>1, <1>2 DEF TrackedIsLive
<1>7. TrackedIsNewest'
  <2>1. \A h \in DOMAIN status : h > g => status[h] = "sent"
    BY <1>2, <1>4 DEF AnsweredInOrder
  <2>. QED BY <1>1, <1>2, <1>4, <2>1 DEF TrackedIsNewest
<1>8. ActiveIsOutstanding' BY <1>1, <1>2, <1>4 DEF ActiveIsOutstanding
<1>9. AnsweredInOrder' BY <1>1, <1>3, <1>4 DEF AnsweredInOrder
<1>. QED BY <1>5, <1>6, <1>7, <1>8, <1>9

LEMMA FinishKeeps ==
  ASSUME TrackingInv, NEW g \in DOMAIN status, Finish(g)
  PROVE  TrackingInv'
<1> USE DEF TrackingInv
<1>1. /\ status' \in Seq({"sent", "accepted", "refused", "done"})
      /\ DOMAIN status' = DOMAIN status
      /\ Len(status') = Len(status)
      /\ status'[g] = "done"
      /\ \A h \in DOMAIN status : h # g => status'[h] = status[h]
  BY OneMoves DEF Finish
<1>2. status[g] = "accepted" /\ active' = FALSE /\ tracked' = 0
  BY DEF Finish
<1>3. TypeOK' BY <1>1, <1>2 DEF TypeOK
<1>4. TrackedIsLive' BY <1>2 DEF TrackedIsLive
<1>5. TrackedIsNewest' BY <1>2 DEF TrackedIsNewest
<1>6. ActiveIsOutstanding' BY <1>2 DEF ActiveIsOutstanding
<1>7. AnsweredInOrder' BY <1>1, <1>2 DEF AnsweredInOrder
<1>. QED BY <1>3, <1>4, <1>5, <1>6, <1>7

\* The bookkeeping invariant holds of every client that follows GoalTracking:
\* the handle it keeps can be cancelled and is the newest, and the mission it
\* believes in is not over.
THEOREM TrackingIsRight == Spec => []TrackingInv
<1>1. Init => TrackingInv
  <2> SUFFICES ASSUME Init PROVE TrackingInv OBVIOUS
  <2>1. active \in BOOLEAN BY DEF Init
  <2>2. TypeOK BY <2>1 DEF Init, TypeOK
  <2>3. TrackedIsLive /\ TrackedIsNewest /\ ActiveIsOutstanding
    BY DEF Init, TrackedIsLive, TrackedIsNewest, ActiveIsOutstanding
  <2>4. AnsweredInOrder BY DEF Init, AnsweredInOrder
  <2>. QED BY <2>2, <2>3, <2>4 DEF TrackingInv
<1>2. TrackingInv /\ [Next]_trackingVars => TrackingInv'
  <2> SUFFICES ASSUME TrackingInv, [Next]_trackingVars PROVE TrackingInv'
    OBVIOUS
  <2>1. CASE Send BY <2>1, SendKeeps
  <2>2. CASE LetGo BY <2>2, LetGoKeeps
  <2>3. CASE \E g \in DOMAIN status : Refuse(g) \/ Accept(g) \/ Finish(g)
    BY <2>3, RefuseKeeps, AcceptKeeps, FinishKeeps
  <2>4. CASE UNCHANGED trackingVars
    BY <2>4 DEF trackingVars, TrackingInv, TypeOK, TrackedIsLive,
       TrackedIsNewest, ActiveIsOutstanding, AnsweredInOrder
  <2>. QED BY <2>1, <2>2, <2>3, <2>4 DEF Next
<1>. QED BY <1>1, <1>2, PTL DEF Spec
=============================================================================
