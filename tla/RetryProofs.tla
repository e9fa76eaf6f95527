---------------------------- MODULE RetryProofs ----------------------------
(***************************************************************************)
(* Theorems about RetryManager.  RetryInv is inductive: the types, the     *)
(* order in which Nav2's answers come (AnsweredInOrder), and the safety    *)
(* properties.  The proof goes group of variables by group of variables:   *)
(* the mission (goals, index, mode), the retry control, the goals sent.    *)
(***************************************************************************)
EXTENDS RetryManager, NavProofs

MissionOK ==
  /\ goalPoints \in Seq(Poses) /\ active \in Seq(Spots)
  /\ index \in Nat
  /\ rtbMode \in BOOLEAN
  /\ IndexNamesAGoal

\* user_stopped_ and a retry exclude each other.
TimerIsOff == userStopped => retry = "none"

ControlOK ==
  /\ userStopped \in BOOLEAN /\ owed \in BOOLEAN
  /\ halted \in BOOLEAN /\ revived \in BOOLEAN
  /\ retry \in {"none", "pending"}
  /\ cmds \in 0..MaxCommands /\ fired \in 0..MaxRetries
  /\ TimerIsOff

GoalsOK ==
  /\ NavTypeOK
  /\ handle \in Nat
  /\ Tracks(client, handle)
  /\ AnsweredInOrder(client)

\* After the operator's stop the user_stopped_ it set stays set.
StopStands == halted /\ ~revived => userStopped /\ index = 0

RetryInv == MissionOK /\ ControlOK /\ GoalsOK /\ StopStands

-----------------------------------------------------------------------------
\* The ways back that rtbCb builds are sequences of poses.
LEMMA WaysBackType ==
  ASSUME goalPoints \in Seq(Poses), NEW near, NEW lethal,
         NEW way \in WaysBack(near, lethal)
  PROVE  way \in Seq(Spots)
<1> DEFINE Usable(p) == p \notin near /\ IsPoseCollisionFree(lethal, p)
           K == {i \in DOMAIN goalPoints : Usable(goalPoints[i])}
           home == IF Usable(Home) THEN <<Home>> ELSE <<>>
<1>1. PICK back \in ReturnPath(goalPoints, K) : way = back \o home
  BY DEF WaysBack
<1>2. goalPoints \in Seq(Spots) BY DEF Spots
<1>3. back \in Seq(Spots)
  <2>1. K \in SUBSET DOMAIN goalPoints OBVIOUS
  <2> HIDE DEF K
  <2>. QED BY <1>1, <1>2, <2>1, ReturnPathType
<1>4. home \in Seq(Spots)
  <2>1. <<Home>> \in Seq(Spots) BY DEF Spots
  <2>2. <<>> \in Seq(Spots) OBVIOUS
  <2>. QED BY <2>1, <2>2
<1> HIDE DEF home
<1>. QED BY <1>1, <1>3, <1>4

\* Each way back that rtbCb builds, home left out, is stored goals in reverse.
IsWayBack(way) ==
  \/ IsReturnPath(way)
  \/ /\ way[Len(way)] = Home
     /\ IsReturnPath(SubSeq(way, 1, Len(way) - 1))

LEMMA WaysBackReverse ==
  ASSUME goalPoints \in Seq(Poses), NEW near, NEW lethal,
         NEW way \in WaysBack(near, lethal)
  PROVE  IsWayBack(way)
<1> DEFINE Usable(p) == p \notin near /\ IsPoseCollisionFree(lethal, p)
           K == {i \in DOMAIN goalPoints : Usable(goalPoints[i])}
           home == IF Usable(Home) THEN <<Home>> ELSE <<>>
<1>1. PICK back \in ReturnPath(goalPoints, K) : way = back \o home
  BY DEF WaysBack
<1>2. K \in SUBSET DOMAIN goalPoints OBVIOUS
<1>h. home \in {<<Home>>, <<>>} OBVIOUS
<1> HIDE DEF K, home
<1>3. back \in Seq(Poses) BY <1>1, <1>2, ReturnPathType
<1>4. IsReturnPath(back)
  BY <1>1, <1>2, ReturnPathReverses DEF IsReturnPath
<1>5. CASE home = <<>>
  <2>1. way = back BY <1>1, <1>3, <1>5
  <2>. QED BY <1>4, <2>1 DEF IsWayBack
<1>6. CASE home = <<Home>>
  <2>1. way = Append(back, Home) BY <1>1, <1>3, <1>6
  <2>2. /\ Len(way) = Len(back) + 1 /\ way[Len(way)] = Home
        /\ SubSeq(way, 1, Len(way) - 1) = back
    <3> DEFINE S == Poses \cup {Home}
    <3>1. back \in Seq(S) /\ Home \in S BY <1>3
    <3> HIDE DEF S
    <3>2. Len(way) = Len(back) + 1 /\ way[Len(way)] = Home
      BY <2>1, <3>1
    <3>3. SubSeq(way, 1, Len(back)) = back BY <2>1, <3>1
    <3>4. Len(way) - 1 = Len(back) BY <3>1, <3>2
    <3>. QED BY <3>2, <3>3, <3>4
  <2>. QED BY <1>4, <2>2 DEF IsWayBack
<1>. QED BY <1>h, <1>5, <1>6

-----------------------------------------------------------------------------
\* startCb leaves the mission in order, whoever calls it.
LEMMA StartMission ==
  ASSUME NEW goals \in Seq(Spots), NEW i \in Nat, NEW rtb \in BOOLEAN,
         NEW end \in StartEnds(goals, i), Start(goals, i, rtb, end)
  PROVE  /\ active' \in Seq(Spots) /\ index' \in Nat /\ rtbMode' \in BOOLEAN
         /\ IndexNamesAGoal'
<1>1. rtbMode' \in BOOLEAN BY DEF Start
<1>2. CASE end = "over"
  <2>1. active' = <<>> /\ index' = 0 BY <1>2 DEF Start
  <2>. QED BY <1>1, <2>1 DEF IndexNamesAGoal
<1>3. CASE end # "over"
  <2>1. i < Len(goals) BY <1>3 DEF StartEnds
  <2>2. active' = goals /\ index' = i BY <1>3 DEF Start
  <2>. QED BY <1>1, <2>1, <2>2 DEF IndexNamesAGoal
<1>. QED BY <1>2, <1>3

LEMMA NextSegmentMission ==
  ASSUME MissionOK, NEW g, NextSegment(g), goalPoints' = goalPoints
  PROVE  MissionOK'
<1>1. /\ index + 1 < Len(active)
      /\ active' = active /\ index' = index + 1 /\ rtbMode' = rtbMode
  BY DEF NextSegment
<1>2. rtbMode' \in BOOLEAN BY <1>1 DEF MissionOK
<1>. QED BY <1>1, <1>2 DEF MissionOK, IndexNamesAGoal

LEMMA MissionKept == MissionOK /\ Next => MissionOK'
<1> SUFFICES ASSUME MissionOK, Next PROVE MissionOK' OBVIOUS
<1>0. /\ goalPoints \in Seq(Poses) /\ active \in Seq(Spots)
      /\ index \in Nat
      /\ rtbMode \in BOOLEAN
      /\ index = 0 \/ index < Len(active)
  BY DEF MissionOK, IndexNamesAGoal
<1>nil. <<>> \in Seq(Spots) OBVIOUS
<1>1. CASE GoalCb
  <2>1. PICK p \in Poses : /\ goalPoints' = Append(goalPoints, p)
                           /\ active' = Append(active, p)
    BY <1>1 DEF GoalCb
  <2>2. index' = index /\ rtbMode' = rtbMode BY <1>1 DEF GoalCb
  <2>3. goalPoints' \in Seq(Poses) BY <1>0, <2>1
  <2>4. active' \in Seq(Spots) /\ Len(active') = Len(active) + 1
    BY <1>0, <2>1 DEF Spots
  <2>5. Len(active) \in Nat BY <1>0
  <2>6. IndexNamesAGoal' BY <1>0, <2>2, <2>4, <2>5 DEF IndexNamesAGoal
  <2>7. index' \in Nat BY <1>0, <2>2
  <2>8. rtbMode' \in BOOLEAN BY <1>0, <2>2
  <2>. QED BY <2>3, <2>4, <2>6, <2>7, <2>8 DEF MissionOK
<1>2. CASE StartCb
  <2>1. PICK end \in StartEnds(active, index) :
          Start(active, index, rtbMode, end)
    BY <1>2 DEF StartCb, StartAndKeepRetry
  <2>2. goalPoints' = goalPoints BY <1>2 DEF StartCb
  <2>. QED BY <1>0, <2>1, <2>2, StartMission DEF MissionOK
<1>3. CASE StopCb
  <2>1. goalPoints' = goalPoints /\ active' = active /\ index' = 0
        /\ rtbMode' = rtbMode
    BY <1>3 DEF StopCb
  <2>2. rtbMode' \in BOOLEAN BY <1>0, <2>1
  <2>. QED BY <1>0, <2>1, <2>2 DEF MissionOK, IndexNamesAGoal
<1>4. CASE RtbNoPose
  <2>1. goalPoints' = goalPoints /\ active' = active /\ index' = 0
        /\ rtbMode' = rtbMode
    BY <1>4 DEF RtbNoPose
  <2>2. rtbMode' \in BOOLEAN BY <1>0, <2>1
  <2>. QED BY <1>0, <2>1, <2>2 DEF MissionOK, IndexNamesAGoal
<1>5. CASE RtbEmpty
  <2>1. goalPoints' = goalPoints /\ active' = <<>> /\ index' = 0
        /\ rtbMode' = rtbMode
    BY <1>5 DEF RtbEmpty
  <2>2. rtbMode' \in BOOLEAN BY <1>0, <2>1
  <2>. QED BY <1>0, <1>nil, <2>1, <2>2 DEF MissionOK, IndexNamesAGoal
<1>6. CASE RtbCb
  <2>1. PICK near \in Near, lethal \in Costmaps :
          \E way \in WaysBack(near, lethal) : StartAndKeepRetry(way, 0, TRUE)
    BY <1>6 DEF RtbCb
  <2>2. PICK way \in WaysBack(near, lethal) : StartAndKeepRetry(way, 0, TRUE)
    BY <2>1
  <2>3. PICK end \in StartEnds(way, 0) : Start(way, 0, TRUE, end)
    BY <2>2 DEF StartAndKeepRetry
  <2>4. way \in Seq(Spots) BY <1>0, <2>2, WaysBackType
  <2>5. goalPoints' = goalPoints BY <1>6 DEF RtbCb
  <2>. QED BY <1>0, <2>3, <2>4, <2>5, StartMission DEF MissionOK
<1>7. CASE RetryTimer
  <2>1. goalPoints' = goalPoints BY <1>7 DEF RetryTimer
  <2>2. CASE userStopped
    <3>1. UNCHANGED missionVars BY <1>7, <2>2 DEF RetryTimer
    <3>. QED BY <2>1, <3>1 DEF MissionOK, IndexNamesAGoal, missionVars
  <2>3. CASE ~userStopped
    <3>1. PICK end \in StartEnds(active, index) :
            Start(active, index, rtbMode, end)
      BY <1>7, <2>3 DEF RetryTimer
    <3>. QED BY <1>0, <2>1, <3>1, StartMission DEF MissionOK
  <2>. QED BY <2>2, <2>3
<1>8. CASE \E g \in Goals : Response(g)
  <2>1. UNCHANGED <<goalPoints, missionVars>>
    BY <1>8 DEF Response, GoalRefused, GoalAccepted
  <2>. QED BY <2>1 DEF MissionOK, IndexNamesAGoal, missionVars
<1>9. ASSUME NEW g \in Goals, Result(g) PROVE MissionOK'
  <2>0. goalPoints' = goalPoints
    BY <1>9 DEF Result, ResultOf, SegmentSucceeded, MissionSucceeded,
       SegmentCanceled, AbortedAtGoal, AbortedAtLastGoal, SegmentAborted
  <2>1. CASE SegmentSucceeded(g)
    BY <2>0, <2>1, NextSegmentMission DEF SegmentSucceeded
  <2>2. CASE MissionSucceeded(g)
    <3>1. active' = <<>> /\ index' = 0 /\ rtbMode' = FALSE
      BY <2>2 DEF MissionSucceeded
    <3>. QED BY <1>0, <1>nil, <2>0, <3>1 DEF MissionOK, IndexNamesAGoal
  <2>3. CASE SegmentCanceled(g)
    <3>1. /\ active' = active /\ rtbMode' = FALSE
          /\ index' = IF userStopped \/ index >= Len(active) THEN 0 ELSE index
      BY <2>3 DEF SegmentCanceled
    <3>2. index' = 0 \/ index' = index BY <3>1
    <3>. QED BY <1>0, <2>0, <3>1, <3>2 DEF MissionOK, IndexNamesAGoal
  <2>4. CASE AbortedAtGoal(g)
    BY <2>0, <2>4, NextSegmentMission DEF AbortedAtGoal
  <2>5. CASE AbortedAtLastGoal(g)
    <3>1. active' = <<>> /\ index' = 0
      BY <2>5 DEF AbortedAtLastGoal
    <3>2. rtbMode' \in BOOLEAN BY <2>5 DEF AbortedAtLastGoal
    <3>. QED BY <1>0, <1>nil, <2>0, <3>1, <3>2 DEF MissionOK, IndexNamesAGoal
  <2>6. CASE SegmentAborted(g)
    <3>1. active' = active /\ (index' = 0 \/ index' = index)
      BY <2>6 DEF SegmentAborted
    <3>2. rtbMode' \in BOOLEAN BY <2>6 DEF SegmentAborted
    <3>. QED BY <1>0, <2>0, <3>1, <3>2 DEF MissionOK, IndexNamesAGoal
  <2>. QED BY <1>9, <2>1, <2>2, <2>3, <2>4, <2>5, <2>6 DEF Result
<1>10. CASE ServerStep
  <2>1. UNCHANGED <<goalPoints, missionVars>> BY <1>10 DEF ServerStep
  <2>. QED BY <2>1 DEF MissionOK, IndexNamesAGoal, missionVars
<1>. QED BY <1>1, <1>2, <1>3, <1>4, <1>5, <1>6, <1>7, <1>8, <1>9, <1>10
         DEF Next, Operator

-----------------------------------------------------------------------------
\* A way back stays one: goals are stored only outside the RTB mode, and a step
\* that leaves it on leaves the active goals alone, empties them, or has just
\* built them from the stored goals.
ReturnAlone ==
  /\ goalPoints' = goalPoints
  /\ active' \in {active, <<>>}
  /\ rtbMode' => rtbMode

LEMMA AloneReturns == ReturnPathIsReverse /\ ReturnAlone => ReturnPathIsReverse'
BY DEF ReturnAlone, ReturnPathIsReverse, IsReturnPath

LEMMA StartReturns ==
  ASSUME NEW goals, NEW i, NEW rtb \in BOOLEAN, NEW end \in StartEnds(goals, i),
         Start(goals, i, rtb, end)
  PROVE  active' \in {goals, <<>>} /\ (rtbMode' => rtb)
BY DEF Start

LEMMA ReturnKept ==
  MissionOK /\ ReturnPathIsReverse /\ Next => ReturnPathIsReverse'
<1> SUFFICES ASSUME MissionOK, ReturnPathIsReverse, Next
             PROVE  ReturnPathIsReverse'
  OBVIOUS
<1>0. goalPoints \in Seq(Poses) /\ rtbMode \in BOOLEAN BY DEF MissionOK
<1>1. CASE GoalCb
  BY <1>1 DEF GoalCb, ReturnPathIsReverse
<1>2. CASE StartCb
  <2>1. PICK end \in StartEnds(active, index) :
          Start(active, index, rtbMode, end)
    BY <1>2 DEF StartCb, StartAndKeepRetry
  <2>2. goalPoints' = goalPoints BY <1>2 DEF StartCb
  <2>. QED BY <1>0, <2>1, <2>2, StartReturns, AloneReturns DEF ReturnAlone
<1>3. CASE StopCb \/ RtbNoPose \/ RtbEmpty
  BY <1>3, AloneReturns DEF StopCb, RtbNoPose, RtbEmpty, ReturnAlone
<1>4. CASE RtbCb
  <2>1. PICK near \in Near, lethal \in Costmaps :
          \E way \in WaysBack(near, lethal) : StartAndKeepRetry(way, 0, TRUE)
    BY <1>4 DEF RtbCb
  <2>2. PICK way \in WaysBack(near, lethal) : StartAndKeepRetry(way, 0, TRUE)
    BY <2>1
  <2>3. PICK end \in StartEnds(way, 0) : Start(way, 0, TRUE, end)
    BY <2>2 DEF StartAndKeepRetry
  <2>4. active' \in {way, <<>>} /\ goalPoints' = goalPoints
    BY <1>4, <2>3, StartReturns DEF RtbCb
  <2>5. IsWayBack(way) BY <1>0, <2>2, WaysBackReverse
  <2>. QED BY <2>4, <2>5 DEF IsWayBack, ReturnPathIsReverse, IsReturnPath
<1>5. CASE RetryTimer
  <2>1. goalPoints' = goalPoints BY <1>5 DEF RetryTimer
  <2>2. CASE userStopped
    <3>1. UNCHANGED missionVars BY <1>5, <2>2 DEF RetryTimer
    <3>. QED BY <2>1, <3>1, AloneReturns DEF missionVars, ReturnAlone
  <2>3. CASE ~userStopped
    <3>1. PICK end \in StartEnds(active, index) :
            Start(active, index, rtbMode, end)
      BY <1>5, <2>3 DEF RetryTimer
    <3>. QED BY <1>0, <2>1, <3>1, StartReturns, AloneReturns DEF ReturnAlone
  <2>. QED BY <2>2, <2>3
<1>6. CASE \E g \in Goals : Response(g)
  BY <1>6, AloneReturns
     DEF Response, GoalRefused, GoalAccepted, missionVars, ReturnAlone
<1>7. ASSUME NEW g \in Goals, Result(g) PROVE ReturnPathIsReverse'
  <2>1. goalPoints' = goalPoints
    BY <1>7 DEF Result, ResultOf, SegmentSucceeded, MissionSucceeded,
       SegmentCanceled, AbortedAtGoal, AbortedAtLastGoal, SegmentAborted
  <2>2. active' \in {active, <<>>} /\ (rtbMode' => rtbMode)
    <3>1. CASE SegmentSucceeded(g) \/ AbortedAtGoal(g)
      BY <3>1 DEF SegmentSucceeded, AbortedAtGoal, NextSegment
    <3>2. CASE MissionSucceeded(g) \/ SegmentCanceled(g)
      BY <3>2 DEF MissionSucceeded, SegmentCanceled
    <3>3. CASE AbortedAtLastGoal(g) \/ SegmentAborted(g)
      BY <3>3 DEF AbortedAtLastGoal, SegmentAborted
    <3>. QED BY <1>7, <3>1, <3>2, <3>3 DEF Result
  <2>. QED BY <2>1, <2>2, AloneReturns DEF ReturnAlone
<1>8. CASE ServerStep
  BY <1>8, AloneReturns DEF ServerStep, missionVars, ReturnAlone
<1>. QED BY <1>1, <1>2, <1>3, <1>4, <1>5, <1>6, <1>7, <1>8
         DEF Next, Operator

-----------------------------------------------------------------------------
\* What an operator command does to the flags and counters of ControlOK.
LEMMA CommandCounts ==
  ASSUME ControlOK, NEW c, Command(c)
  PROVE  cmds' \in 0..MaxCommands /\ fired' \in 0..MaxRetries
         /\ halted' \in BOOLEAN /\ revived' \in BOOLEAN
<1>1. cmds' = cmds + 1 /\ cmds < MaxCommands /\ fired' = fired
  BY DEF Command
<1>2. halted' \in BOOLEAN /\ revived' \in BOOLEAN BY DEF Command
<1>3. cmds' \in 0..MaxCommands BY <1>1, RetryAssumption DEF ControlOK
<1>4. fired' \in 0..MaxRetries BY <1>1 DEF ControlOK
<1>. QED BY <1>2, <1>3, <1>4

\* A step that leaves the counters and the flag of the last stop alone.
LEMMA CountersKept ==
  ASSUME ControlOK, UNCHANGED <<halted, cmds, fired>>, revived' \in {revived, TRUE}
  PROVE  cmds' \in 0..MaxCommands /\ fired' \in 0..MaxRetries
         /\ halted' \in BOOLEAN /\ revived' \in BOOLEAN
<1>1. halted' = halted /\ cmds' = cmds /\ fired' = fired OBVIOUS
<1>2. halted' \in BOOLEAN /\ revived' \in BOOLEAN BY <1>1 DEF ControlOK
<1>. QED BY <1>1, <1>2 DEF ControlOK

\* startCb, and the next segment, end with user_stopped_ reset.
LEMMA StartControl ==
  ASSUME ControlOK, NEW goals, NEW i, NEW rtb, StartAndKeepRetry(goals, i, rtb)
  PROVE  /\ userStopped' = FALSE
         /\ retry' \in {"none", "pending"} /\ owed' \in BOOLEAN
<1>1. PICK end \in StartEnds(goals, i) :
        /\ Start(goals, i, rtb, end)
        /\ IF end = "failed" THEN retry' = "pending" /\ owed' = TRUE
                             ELSE UNCHANGED <<retry, owed>>
  BY DEF StartAndKeepRetry
<1>2. userStopped' = FALSE BY <1>1 DEF Start
<1>3. CASE end = "failed" BY <1>1, <1>2, <1>3
<1>4. CASE end # "failed"
  <2>1. retry' = retry /\ owed' = owed BY <1>1, <1>4
  <2>2. owed' \in BOOLEAN BY <2>1 DEF ControlOK
  <2>. QED BY <1>2, <2>1, <2>2 DEF ControlOK
<1>. QED BY <1>3, <1>4

LEMMA NextSegmentControl ==
  ASSUME ControlOK, NEW g, NextSegment(g)
  PROVE  /\ userStopped' = FALSE
         /\ retry' \in {"none", "pending"} /\ owed' \in BOOLEAN
<1>1. PICK end \in StartEnds(active, index + 1) :
        /\ userStopped' = FALSE
        /\ IF end = "failed" THEN retry' = "pending" /\ owed' = TRUE
                             ELSE UNCHANGED <<retry, owed>>
  BY DEF NextSegment
<1>2. CASE end = "failed" BY <1>1, <1>2
<1>3. CASE end # "failed"
  <2>1. retry' = retry /\ owed' = owed BY <1>1, <1>3
  <2>2. owed' \in BOOLEAN BY <2>1 DEF ControlOK
  <2>. QED BY <1>1, <2>1, <2>2 DEF ControlOK
<1>. QED BY <1>2, <1>3

LEMMA ScheduleControl ==
  ASSUME ControlOK, ScheduleRetry, userStopped' = userStopped,
         UNCHANGED boundVars
  PROVE  ControlOK'
<1>0. cmds' \in 0..MaxCommands /\ fired' \in 0..MaxRetries
      /\ halted' \in BOOLEAN /\ revived' \in BOOLEAN
  BY CountersKept DEF boundVars
<1>1. userStopped' \in BOOLEAN BY DEF ControlOK
<1>2. CASE userStopped
  <2>1. retry' = retry /\ owed' = owed BY <1>2 DEF ScheduleRetry
  <2>2. owed' \in BOOLEAN BY <2>1 DEF ControlOK
  <2>3. retry' \in {"none", "pending"} /\ TimerIsOff'
    BY <2>1 DEF ControlOK, TimerIsOff
  <2>. QED BY <1>0, <1>1, <2>2, <2>3 DEF ControlOK
<1>3. CASE ~userStopped
  <2>1. retry' = "pending" /\ owed' = TRUE BY <1>3 DEF ScheduleRetry
  <2>2. TimerIsOff' BY <1>3 DEF TimerIsOff
  <2>. QED BY <1>0, <1>1, <2>1, <2>2 DEF ControlOK
<1>. QED BY <1>2, <1>3

LEMMA ControlUnchanged ==
  ControlOK /\ UNCHANGED <<controlVars, boundVars>> => ControlOK'
BY DEF ControlOK, TimerIsOff, controlVars, boundVars

LEMMA ControlKept == ControlOK /\ Next => ControlOK'
<1> SUFFICES ASSUME ControlOK, Next PROVE ControlOK' OBVIOUS
<1>f. ASSUME userStopped' = FALSE,
             retry' \in {"none", "pending"}, owed' \in BOOLEAN,
             cmds' \in 0..MaxCommands, fired' \in 0..MaxRetries,
             halted' \in BOOLEAN, revived' \in BOOLEAN
      PROVE  ControlOK'
  BY <1>f DEF ControlOK, TimerIsOff
<1>1. CASE GoalCb
  BY <1>1, ControlUnchanged DEF GoalCb
<1>2. CASE StartCb
  BY <1>2, <1>f, StartControl, CommandCounts DEF StartCb
<1>3. CASE StopCb
  <2>1. userStopped' = TRUE /\ retry' = "none" /\ owed' = FALSE
    BY <1>3 DEF StopCb, RememberTheStop
  <2>2. cmds' \in 0..MaxCommands /\ fired' \in 0..MaxRetries
        /\ halted' \in BOOLEAN /\ revived' \in BOOLEAN
    BY <1>3, CommandCounts DEF StopCb
  <2>. QED BY <2>1, <2>2 DEF ControlOK, TimerIsOff
<1>4. CASE RtbNoPose \/ RtbEmpty
  <2>1. userStopped' = FALSE /\ retry' = retry /\ owed' = owed
    BY <1>4 DEF RtbNoPose, RtbEmpty
  <2>2. cmds' \in 0..MaxCommands /\ fired' \in 0..MaxRetries
        /\ halted' \in BOOLEAN /\ revived' \in BOOLEAN
    BY <1>4, CommandCounts DEF RtbNoPose, RtbEmpty
  <2>3. owed' \in BOOLEAN BY <2>1 DEF ControlOK
  <2>4. retry' \in {"none", "pending"} BY <2>1 DEF ControlOK
  <2>. QED BY <1>f, <2>1, <2>2, <2>3, <2>4
<1>5. CASE RtbCb
  <2>1. \E way : StartAndKeepRetry(way, 0, TRUE) BY <1>5 DEF RtbCb
  <2>2. cmds' \in 0..MaxCommands /\ fired' \in 0..MaxRetries
        /\ halted' \in BOOLEAN /\ revived' \in BOOLEAN
    BY <1>5, CommandCounts DEF RtbCb
  <2>. QED BY <1>f, <2>1, <2>2, StartControl
<1>6. CASE RetryTimer
  <2>1. fired' = fired + 1 /\ fired < MaxRetries /\ cmds' = cmds
        /\ halted' = halted /\ revived' = revived /\ retry' = "none"
    BY <1>6 DEF RetryTimer
  <2>2. fired' \in 0..MaxRetries BY <2>1, RetryAssumption DEF ControlOK
  <2>3. halted' \in BOOLEAN /\ revived' \in BOOLEAN BY <2>1 DEF ControlOK
  <2>4. cmds' \in 0..MaxCommands BY <2>1 DEF ControlOK
  <2>5. owed' \in BOOLEAN BY <1>6 DEF RetryTimer
  <2>6. userStopped' \in BOOLEAN
    BY <1>6 DEF RetryTimer, Start, ControlOK
  <2>. QED BY <2>1, <2>2, <2>3, <2>4, <2>5, <2>6
           DEF ControlOK, TimerIsOff
<1>7. ASSUME NEW g \in Goals, Response(g) PROVE ControlOK'
  <2>1. CASE GoalRefused(g)
    BY <2>1, ScheduleControl DEF GoalRefused
  <2>2. CASE GoalAccepted(g)
    BY <2>2, ControlUnchanged DEF GoalAccepted
  <2>. QED BY <1>7, <2>1, <2>2 DEF Response
<1>8. ASSUME NEW g \in Goals, Result(g) PROVE ControlOK'
  <2>0. UNCHANGED <<halted, cmds, fired>>
    BY <1>8 DEF Result, ResultOf, SegmentSucceeded, MissionSucceeded,
       SegmentCanceled, AbortedAtGoal, AbortedAtLastGoal, SegmentAborted
  <2>1. CASE SegmentSucceeded(g) \/ AbortedAtGoal(g)
    <3>1. NextSegment(g) BY <2>1 DEF SegmentSucceeded, AbortedAtGoal
    <3>2. revived' = TRUE BY <3>1 DEF NextSegment
    <3>. QED BY <1>f, <2>0, <3>1, <3>2, NextSegmentControl, CountersKept
  <2>2. CASE MissionSucceeded(g) \/ SegmentCanceled(g) \/ AbortedAtLastGoal(g)
    BY <2>0, <2>2, ControlUnchanged
       DEF MissionSucceeded, SegmentCanceled, AbortedAtLastGoal, boundVars
  <2>3. CASE SegmentAborted(g)
    BY <2>0, <2>3, ScheduleControl DEF SegmentAborted, boundVars
  <2>. QED BY <1>8, <2>1, <2>2, <2>3 DEF Result
<1>9. CASE ServerStep
  BY <1>9, ControlUnchanged DEF ServerStep
<1>. QED BY <1>1, <1>2, <1>3, <1>4, <1>5, <1>6, <1>7, <1>8, <1>9
         DEF Next, Operator

\* Only a start, a return or the next segment takes a stop back.
LEMMA StopKept == ControlOK /\ StopStands /\ Next => StopStands'
<1> SUFFICES ASSUME ControlOK, StopStands, Next, halted', ~revived'
             PROVE  userStopped' /\ index' = 0
  BY DEF StopStands
<1>s. ASSUME UNCHANGED <<halted, revived, userStopped>>, index' \in {index, 0}
      PROVE  userStopped' /\ index' = 0
  BY <1>s DEF StopStands
<1>1. CASE GoalCb BY <1>1, <1>s DEF GoalCb, controlVars, boundVars
<1>2. CASE StartCb \/ RtbNoPose \/ RtbEmpty \/ RtbCb
  BY <1>2 DEF StartCb, RtbNoPose, RtbEmpty, RtbCb, Command
<1>3. CASE StopCb BY <1>3 DEF StopCb, RememberTheStop
<1>4. CASE RetryTimer
  <2>1. retry = "pending" /\ halted /\ ~revived BY <1>4 DEF RetryTimer
  <2>. QED BY <2>1 DEF ControlOK, TimerIsOff, StopStands
<1>5. ASSUME NEW g \in Goals, Response(g) PROVE userStopped' /\ index' = 0
  BY <1>5, <1>s DEF Response, GoalRefused, GoalAccepted, missionVars,
                    controlVars, boundVars
<1>6. ASSUME NEW g \in Goals, Result(g) PROVE userStopped' /\ index' = 0
  <2>0. UNCHANGED halted
    BY <1>6 DEF Result, ResultOf, SegmentSucceeded, MissionSucceeded,
       SegmentCanceled, AbortedAtGoal, AbortedAtLastGoal, SegmentAborted
  <2>1. CASE SegmentSucceeded(g) \/ AbortedAtGoal(g)
    BY <2>1 DEF SegmentSucceeded, AbortedAtGoal, NextSegment
  <2>2. CASE MissionSucceeded(g) \/ SegmentCanceled(g) \/ AbortedAtLastGoal(g)
    BY <1>s, <2>0, <2>2 DEF MissionSucceeded, SegmentCanceled,
                            AbortedAtLastGoal, controlVars
  <2>3. CASE SegmentAborted(g) BY <1>s, <2>0, <2>3 DEF SegmentAborted
  <2>. QED BY <1>6, <2>1, <2>2, <2>3 DEF Result
<1>7. CASE ServerStep
  BY <1>7, <1>s DEF ServerStep, missionVars, controlVars, boundVars
<1>. QED BY <1>1, <1>2, <1>3, <1>4, <1>5, <1>6, <1>7 DEF Next, Operator

-----------------------------------------------------------------------------
\* What Tracks says of the handle is that it is right.
LEMMA TracksIsRight == Tracks(client, handle) => HandleIsRight
BY DEF Tracks, HandleIsRight, Live, Goals

\* A callback that sends nothing and gets no answer keeps the handle or drops
\* it, after a cancel request.
GoalsAlone ==
  UNCHANGED <<client, server>> /\ handle' \in {handle, NoGoal}
  /\ cancels' \subseteq Goals

LEMMA AloneKeeps == GoalsOK /\ GoalsAlone => GoalsOK'
<1> SUFFICES ASSUME GoalsOK, GoalsAlone PROVE GoalsOK' OBVIOUS
<1>1. client' = client /\ server' = server /\ handle' \in {handle, NoGoal}
      /\ cancels' \subseteq Goals
  BY DEF GoalsAlone
<1>2. NavTypeOK' BY <1>1 DEF GoalsOK, NavTypeOK, Goals
<1>3. Tracks(client', handle') BY <1>1 DEF GoalsOK, Tracks
<1>4. AnsweredInOrder(client') BY <1>1 DEF GoalsOK
<1>5. handle' \in Nat BY <1>1 DEF GoalsOK, NoGoal
<1>. QED BY <1>2, <1>3, <1>4, <1>5 DEF GoalsOK

\* A callback that sends a goal.
GoalsSend ==
  AsyncSendGoal /\ handle' \in {handle, NoGoal} /\ cancels' \subseteq Goals

LEMMA SendKeeps == GoalsOK /\ GoalsSend => GoalsOK'
<1> SUFFICES ASSUME GoalsOK, GoalsSend PROVE GoalsOK' OBVIOUS
<1>1. AsyncSendGoal /\ handle' \in {handle, NoGoal} /\ cancels' \subseteq Goals
  BY DEF GoalsSend
<1>2. NavTypeOK' BY <1>1, SendKeepsNav DEF GoalsOK
<1>3. client' = Append(client, "sent") /\ client \in Seq(ClientStates)
  BY <1>1 DEF AsyncSendGoal, GoalsOK, NavTypeOK
<1>4. Tracks(client', handle) /\ AnsweredInOrder(client')
  BY <1>3, SendTracks DEF GoalsOK
<1>5. Tracks(client', handle') BY <1>1, <1>4 DEF Tracks
<1>6. handle' \in Nat BY <1>1 DEF GoalsOK, NoGoal
<1>. QED BY <1>2, <1>4, <1>5, <1>6 DEF GoalsOK

\* Cancel requests are made with the handle, which is that of a goal.
LEMMA CancelsKnown ==
  ASSUME GoalsOK, CancelKept \/ UNCHANGED cancels
  PROVE  cancels' \subseteq Goals
BY DEF GoalsOK, CancelKept, AsyncCancelGoal, Tracks, NavTypeOK, Goals

LEMMA StartGoals ==
  ASSUME GoalsOK, CancelKept \/ UNCHANGED cancels,
         handle' \in {handle, NoGoal},
         NEW goals, NEW i, NEW rtb, NEW end, Start(goals, i, rtb, end)
  PROVE  GoalsOK'
<1>1. cancels' \subseteq Goals BY CancelsKnown
<1>2. CASE end = "sent"
  BY <1>1, <1>2, SendKeeps DEF Start, GoalsSend
<1>3. CASE end # "sent"
  BY <1>1, <1>3, AloneKeeps DEF Start, GoalsAlone
<1>. QED BY <1>2, <1>3

\* A result callback: goal g is over and the handle dropped; then perhaps the
\* next segment is sent.
LEMMA DoneKeeps ==
  ASSUME GoalsOK, NEW g \in Goals, client[g] = "accepted"
  PROVE  /\ Done(g) \in Seq(ClientStates)
         /\ Len(Done(g)) = Len(client)
         /\ AnsweredInOrder(Done(g))
<1>1. client \in Seq(ClientStates) BY DEF GoalsOK, NavTypeOK
<1>2. Done(g) \in Seq(ClientStates) /\ Len(Done(g)) = Len(client)
  BY <1>1 DEF Done, Goals, ClientStates
<1>3. AnsweredInOrder(Done(g))
  BY <1>1, EndKeepsOrder DEF Done, Goals, GoalsOK
<1>. QED BY <1>2, <1>3

LEMMA ResultGoals ==
  ASSUME GoalsOK, NEW g \in Goals, client[g] = "accepted",
         handle' = NoGoal, UNCHANGED cancels,
         \/ client' = Done(g) /\ UNCHANGED server
         \/ /\ client' = Append(Done(g), "sent")
            /\ server' = Append(server, "requested")
  PROVE  GoalsOK'
<1>0. /\ Done(g) \in Seq(ClientStates) /\ Len(Done(g)) = Len(client)
      /\ AnsweredInOrder(Done(g))
  BY DoneKeeps
<1>t. client \in Seq(ClientStates) /\ server \in Seq(ServerStates)
      /\ Len(server) = Len(client) /\ cancels \subseteq 1..Len(client)
  BY DEF GoalsOK, NavTypeOK, Goals
<1>h. Tracks(client', handle') /\ handle' \in Nat BY DEF Tracks, NoGoal
<1>1. CASE client' = Done(g) /\ UNCHANGED server
  <2>1. NavTypeOK' BY <1>0, <1>t, <1>1 DEF NavTypeOK, Goals
  <2>. QED BY <1>0, <1>1, <1>h, <2>1 DEF GoalsOK
<1>2. CASE /\ client' = Append(Done(g), "sent")
           /\ server' = Append(server, "requested")
  <2>1. client' \in Seq(ClientStates) /\ Len(client') = Len(client) + 1
    BY <1>0, <1>2 DEF ClientStates
  <2>2. server' \in Seq(ServerStates) /\ Len(server') = Len(server) + 1
    BY <1>t, <1>2 DEF ServerStates
  <2>3. NavTypeOK' BY <1>t, <2>1, <2>2 DEF NavTypeOK, Goals
  <2>4. Tracks(Done(g), NoGoal) BY DEF Tracks
  <2>5. AnsweredInOrder(client') BY <1>0, <1>2, <2>4, SendTracks
  <2>. QED BY <1>h, <2>3, <2>5 DEF GoalsOK
<1>. QED BY <1>1, <1>2

LEMMA GoalsKept == GoalsOK /\ Next => GoalsOK'
<1> SUFFICES ASSUME GoalsOK, Next PROVE GoalsOK' OBVIOUS
<1>0. cancels \subseteq Goals BY DEF GoalsOK, NavTypeOK
<1>1. CASE GoalCb
  BY <1>0, <1>1, AloneKeeps DEF GoalCb, GoalsAlone, navVars
<1>2. CASE StartCb
  <2>1. PICK end \in StartEnds(active, index) :
          Start(active, index, rtbMode, end)
    BY <1>2 DEF StartCb, StartAndKeepRetry
  <2>2. (CancelKept \/ UNCHANGED cancels) /\ handle' \in {handle, NoGoal}
    BY <1>2 DEF StartCb, CancelBefore
  <2>. QED BY <2>1, <2>2, StartGoals
<1>3. CASE StopCb \/ RtbNoPose \/ RtbEmpty
  <2>1. CancelKept /\ handle' = NoGoal /\ UNCHANGED <<client, server>>
    BY <1>3 DEF StopCb, RtbNoPose, RtbEmpty
  <2>2. cancels' \subseteq Goals BY <2>1, CancelsKnown
  <2>. QED BY <2>1, <2>2, AloneKeeps DEF GoalsAlone
<1>4. CASE RtbCb
  <2>1. PICK way : StartAndKeepRetry(way, 0, TRUE) BY <1>4 DEF RtbCb
  <2>2. PICK end \in StartEnds(way, 0) : Start(way, 0, TRUE, end)
    BY <2>1 DEF StartAndKeepRetry
  <2>3. CancelKept /\ handle' = NoGoal BY <1>4 DEF RtbCb
  <2>. QED BY <2>2, <2>3, StartGoals
<1>5. CASE RetryTimer
  <2>1. CASE userStopped
    BY <1>0, <1>5, <2>1, AloneKeeps DEF RetryTimer, GoalsAlone, navVars
  <2>2. CASE ~userStopped
    <3>1. PICK end \in StartEnds(active, index) :
            Start(active, index, rtbMode, end)
      BY <1>5, <2>2 DEF RetryTimer
    <3>2. (CancelKept \/ UNCHANGED cancels) /\ handle' \in {handle, NoGoal}
      BY <1>5, <2>2 DEF RetryTimer, CancelBefore
    <3>. QED BY <3>1, <3>2, StartGoals
  <2>. QED BY <2>1, <2>2
<1>6. ASSUME NEW g \in Goals, Response(g) PROVE GoalsOK'
  <2>0. /\ client \in Seq(ClientStates) /\ handle \in Nat
        /\ Tracks(client, handle) /\ AnsweredInOrder(client)
    BY DEF GoalsOK, NavTypeOK
  <2>1. g \in Nat BY <2>0 DEF Goals
  <2>2. /\ client[g] = "sent" /\ UNCHANGED <<server, cancels>>
        /\ \A h \in DOMAIN client : h < g => client[h] # "sent"
    BY <1>6 DEF Response, GoalRefused, GoalAccepted, NextResponse, Goals
  <2>3. CASE GoalRefused(g)
    <3>1. client' = [client EXCEPT ![g] = "refused"] /\ handle' = handle
      BY <2>3 DEF GoalRefused
    <3>2. NavTypeOK'
      BY <2>2, <3>1, ClientMoveKeepsNav DEF GoalsOK, ClientStates
    <3>3. Tracks(client', handle') /\ AnsweredInOrder(client')
      BY <2>0, <2>2, <3>1, AnswerTracks DEF Goals
    <3>. QED BY <2>0, <3>1, <3>2, <3>3 DEF GoalsOK
  <2>4. CASE GoalAccepted(g)
    <3>1. client' = [client EXCEPT ![g] = "accepted"] /\ handle' = g
      BY <2>4 DEF GoalAccepted
    <3>2. NavTypeOK'
      BY <2>2, <3>1, ClientMoveKeepsNav DEF GoalsOK, ClientStates
    <3>3. Tracks(client', handle') /\ AnsweredInOrder(client')
      BY <2>0, <2>2, <3>1, AnswerTracks DEF Goals
    <3>. QED BY <2>1, <3>1, <3>2, <3>3 DEF GoalsOK
  <2>. QED BY <1>6, <2>3, <2>4 DEF Response
<1>7. ASSUME NEW g \in Goals, Result(g) PROVE GoalsOK'
  <2>1. /\ client[g] = "accepted" /\ handle' = NoGoal /\ UNCHANGED cancels
    BY <1>7 DEF Result, ResultOf, SegmentSucceeded, MissionSucceeded,
       SegmentCanceled, AbortedAtGoal, AbortedAtLastGoal, SegmentAborted
  <2>2. \/ client' = Done(g) /\ UNCHANGED server
        \/ /\ client' = Append(Done(g), "sent")
           /\ server' = Append(server, "requested")
    <3>1. CASE SegmentSucceeded(g) \/ AbortedAtGoal(g)
      BY <3>1 DEF SegmentSucceeded, AbortedAtGoal, NextSegment
    <3>2. CASE MissionSucceeded(g) \/ SegmentCanceled(g)
               \/ AbortedAtLastGoal(g) \/ SegmentAborted(g)
      BY <3>2 DEF MissionSucceeded, SegmentCanceled, AbortedAtLastGoal,
         SegmentAborted
    <3>. QED BY <1>7, <3>1, <3>2 DEF Result
  <2>. QED BY <2>1, <2>2, ResultGoals
<1>8. CASE ServerStep
  <2>1. ServerNext /\ handle' = handle BY <1>8 DEF ServerStep
  <2>2. NavTypeOK' /\ client' = client
    BY <2>1, ServerKeepsNav DEF GoalsOK
  <2>. QED BY <2>1, <2>2 DEF GoalsOK
<1>. QED BY <1>1, <1>2, <1>3, <1>4, <1>5, <1>6, <1>7, <1>8
         DEF Next, Operator

-----------------------------------------------------------------------------
\* The invariant is inductive, for any poses, costmaps and bounds.
LEMMA InitInv == Init => RetryInv
<1> SUFFICES ASSUME Init PROVE RetryInv OBVIOUS
<1> USE DEF Init, NavInit
<1>1. MissionOK
  <2>1. rtbMode \in BOOLEAN OBVIOUS
  <2>. QED BY <2>1 DEF MissionOK, IndexNamesAGoal
<1>2. ControlOK
  <2>1. /\ userStopped \in BOOLEAN /\ owed \in BOOLEAN
        /\ halted \in BOOLEAN /\ revived \in BOOLEAN
    OBVIOUS
  <2>2. cmds \in 0..MaxCommands /\ fired \in 0..MaxRetries
    BY RetryAssumption
  <2>. QED BY <2>1, <2>2 DEF ControlOK, TimerIsOff
<1>3. GoalsOK
  <2>1. NavTypeOK BY DEF NavTypeOK, Goals
  <2>2. Tracks(client, handle) /\ handle \in Nat BY DEF Tracks, NoGoal
  <2>3. AnsweredInOrder(client) BY DEF AnsweredInOrder
  <2>. QED BY <2>1, <2>2, <2>3 DEF GoalsOK
<1>4. StopStands BY DEF StopStands
<1>. QED BY <1>1, <1>2, <1>3, <1>4 DEF RetryInv

LEMMA StepInv == RetryInv /\ [Next]_vars => RetryInv'
<1> SUFFICES ASSUME RetryInv, [Next]_vars PROVE RetryInv' OBVIOUS
<1>1. CASE Next
  BY <1>1, MissionKept, ControlKept, GoalsKept, StopKept DEF RetryInv
<1>2. CASE UNCHANGED vars
  <2>1. MissionOK' BY <1>2 DEF vars, missionVars, RetryInv, MissionOK,
                             IndexNamesAGoal
  <2>2. ControlOK' BY <1>2, ControlUnchanged DEF vars, RetryInv
  <2>3. cancels \subseteq Goals BY DEF RetryInv, GoalsOK, NavTypeOK
  <2>4. GoalsOK' BY <1>2, <2>3, AloneKeeps DEF vars, navVars, RetryInv, GoalsAlone
  <2>5. StopStands'
    BY <1>2 DEF vars, missionVars, controlVars, boundVars, RetryInv, StopStands
  <2>. QED BY <2>1, <2>2, <2>4, <2>5 DEF RetryInv
<1>. QED BY <1>1, <1>2

LEMMA InvHolds == Spec => []RetryInv
<1>. QED BY InitInv, StepInv, PTL DEF Spec

\* Every variable of the retry manager keeps its type.
THEOREM RetryTypes == Spec => []TypeOK
<1>1. RetryInv => TypeOK
  BY DEF RetryInv, MissionOK, ControlOK, GoalsOK, TypeOK
<1>. QED BY <1>1, InvHolds, PTL

\* After a stop no retry is pending and the index is 0, whichever refusals,
\* aborts and cancellations come late, until the operator goes on or a late
\* result has started the next segment.
THEOREM NoRetryAfterStop == Spec => []StoppedHasNoRetry
<1>1. RetryInv => StoppedHasNoRetry
  BY DEF RetryInv, ControlOK, TimerIsOff, StopStands, StoppedHasNoRetry
<1>. QED BY <1>1, InvHolds, PTL

\* Nothing but such a result sends goals after a stop.
THEOREM ResultsAloneRevive == Spec => OnlyResultsRevive
<1> DEFINE Sent == Newest' > Newest /\ halted'
<1>1. RetryInv /\ [Next]_vars => (Sent => revived')
  <2> SUFFICES ASSUME RetryInv, [Next]_vars, Sent, ~revived' PROVE FALSE
    OBVIOUS
  <2>0. client' # client
    <3>1. Newest \in Nat BY DEF RetryInv, GoalsOK, NavTypeOK, Newest
    <3>. QED BY <3>1 DEF Newest
  <2>1. CASE StartCb \/ RtbNoPose \/ RtbEmpty \/ RtbCb
    BY <2>1 DEF StartCb, RtbNoPose, RtbEmpty, RtbCb, Command
  <2>2. CASE GoalCb \/ StopCb \/ UNCHANGED vars
    BY <2>0, <2>2 DEF GoalCb, StopCb, vars, navVars
  <2>3. CASE RetryTimer
    <3>1. retry = "pending" /\ halted /\ ~revived BY <2>3 DEF RetryTimer
    <3>. QED BY <3>1 DEF RetryInv, ControlOK, TimerIsOff, StopStands
  <2>4. ASSUME NEW g \in Goals, client' = [client EXCEPT ![g] = "refused"]
                                \/ client' = [client EXCEPT ![g] = "accepted"]
                                \/ client' = [client EXCEPT ![g] = "done"]
        PROVE  FALSE
    <3>1. client \in Seq(ClientStates)
      BY DEF RetryInv, GoalsOK, NavTypeOK
    <3>2. Len(client') = Len(client) BY <2>4, <3>1
    <3>. QED BY <3>1, <3>2 DEF Newest
  <2>5. ASSUME NEW g \in Goals, Response(g) PROVE FALSE
    BY <2>4, <2>5 DEF Response, GoalRefused, GoalAccepted
  <2>6. ASSUME NEW g \in Goals, Result(g) PROVE FALSE
    <3>1. CASE SegmentSucceeded(g) \/ AbortedAtGoal(g)
      BY <3>1 DEF SegmentSucceeded, AbortedAtGoal, NextSegment
    <3>2. CASE ~(SegmentSucceeded(g) \/ AbortedAtGoal(g))
      BY <2>4, <2>6, <3>2 DEF Result, MissionSucceeded, SegmentCanceled,
                              AbortedAtLastGoal, SegmentAborted, Done
    <3>. QED BY <3>1, <3>2
  <2>7. CASE ServerStep
    BY <2>0, <2>7 DEF ServerStep, ServerNext
  <2>. QED BY <2>1, <2>2, <2>3, <2>5, <2>6, <2>7 DEF Next, Operator
<1>2. Spec => [][Sent => revived']_vars BY <1>1, InvHolds, PTL DEF Spec
<1>. QED BY <1>2 DEF OnlyResultsRevive

\* The segment index never runs past the goals of the mission.
THEOREM IndexStaysInMission == Spec => []IndexNamesAGoal
<1>1. RetryInv => IndexNamesAGoal BY DEF RetryInv, MissionOK
<1>. QED BY <1>1, InvHolds, PTL

\* A cancel request names a goal the client library knows, and the newest.
THEOREM HandleStaysRight == Spec => []HandleIsRight
<1>1. RetryInv => HandleIsRight
  BY TracksIsRight DEF RetryInv, GoalsOK
<1>. QED BY <1>1, InvHolds, PTL

\* In RTB mode the active goals are stored goals from the last to the first,
\* home after them if anywhere, whatever goals, starts, retries and results
\* came since rtbCb built them.
THEOREM ReturnStaysReverse == Spec => []ReturnPathIsReverse
<1>1. Init => ReturnPathIsReverse BY DEF Init, ReturnPathIsReverse
<1>2. RetryInv /\ ReturnPathIsReverse /\ [Next]_vars => ReturnPathIsReverse'
  <2>1. UNCHANGED vars /\ ReturnPathIsReverse => ReturnPathIsReverse'
    BY AloneReturns DEF vars, missionVars, ReturnAlone
  <2>. QED BY <2>1, ReturnKept DEF RetryInv
<1>. QED BY <1>1, <1>2, InvHolds, PTL DEF Spec
=============================================================================
