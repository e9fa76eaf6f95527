---------------------------- MODULE MissionProofs ----------------------------
(***************************************************************************)
(* What holds of the mission control process for all values of the         *)
(* constants.                                                              *)
(*                                                                         *)
(* First the types.  They need two facts that are not types: the handle,   *)
(* which cancel requests are made with, is that of a goal; and what a      *)
(* callback has loaded is as much as its next step takes it to be.  Then   *)
(* the goals: the process implements GoalTracking, so that what is proved  *)
(* of that small specification holds of the process.  The other properties *)
(* have invariants of their own; the last part is about an operator who    *)
(* waits for effects.                                                      *)
(***************************************************************************)
EXTENDS PatientOperator, NavProofs

HandleIsGoal == handle # NoGoal => handle \in Goals

\* How many coordinates a callback has loaded at each of its steps.
ReadFits ==
  /\ pc = "goalLoad" => Len(read) \in {2, 3}
  /\ pc = "goalAdd" => Len(read) = 4
  /\ pc = "rtbLoad" => Len(read) \in 0..3
  /\ pc = "rtbPlan" => Len(read) \in {0, 4}
  /\ pc \notin {"goalLoad", "goalAdd", "rtbLoad", "rtbPlan"} => read = <<>>

\* A KEEP_LAST queue of Empty messages never holds more than its depth.
LEMMA PublishedType ==
  ASSUME NEW n \in 0..QueueDepth
  PROVE  Published(n) \in 0..QueueDepth
BY LinkAssumption DEF Published

\* Pushing a goal keeps the queue of goals one.
LEMMA PushGoalType ==
  ASSUME NEW q \in Seq(Points), NEW p \in Points
  PROVE  PushGoal(q, p) \in Seq(Points)
<1>1. CASE Len(q) = QueueDepth
  <2>1. q # <<>> BY <1>1, LinkAssumption
  <2>2. Tail(q) \in Seq(Points) BY <2>1
  <2>. QED BY <1>1, <2>2 DEF PushGoal
<1>2. CASE Len(q) # QueueDepth
  BY <1>2 DEF PushGoal
<1>. QED BY <1>1, <1>2

-----------------------------------------------------------------------------
\* The telemetry node starts with its types.
LEMMA LinkInitType == LinkInit => LinkFlagsOK /\ LinkDataOK
<1> SUFFICES ASSUME LinkInit PROVE LinkFlagsOK /\ LinkDataOK OBVIOUS
<1>1. LinkFlagsOK BY DEF LinkInit, LinkFlagsOK
<1>2. LinkDataOK
  BY LinkAssumption DEF LinkInit, LinkDataOK, LinkSteps, EP_MODE_HOTAS, Origin,
                        Points
<1>. QED BY <1>1, <1>2

\* The payload-free frames enter modes that fit their byte.
LEMMA ModesAreBytes == \A c \in DOMAIN ModeFrames : ModeFrames[c] \in 0..255
<1>1. DOMAIN ModeFrames = {"HOTAS", "SHADOW", "PURSUIT", "BASE"}
  BY DEF ModeFrames
<1>2. /\ ModeFrames["HOTAS"] = 0 /\ ModeFrames["SHADOW"] = 1
      /\ ModeFrames["PURSUIT"] = 2 /\ ModeFrames["BASE"] = 3
  BY DEF ModeFrames, EP_MODE_HOTAS, EP_MODE_SHADOW, EP_MODE_PURSUIT, EP_MODE_BASE
<1>3. \A c \in {"HOTAS", "SHADOW", "PURSUIT", "BASE"} : ModeFrames[c] \in 0..255
  BY <1>2
<1>. QED BY <1>1, <1>3, Zenon

\* A handler that begins is one of a command that exists.
LEMMA ReceiveType ==
  ASSUME NEW c, NEW next \in LinkSteps, LinkDataOK, Receive(c, next)
  PROVE  /\ lastCmd' \in CommandNames /\ cmds' \in 0..MaxCommands
         /\ linkPc' \in LinkSteps
BY LinkAssumption DEF Receive, LinkDataOK

\* A command keeps the types.
LEMMA LinkCommandType ==
  LinkFlagsOK /\ LinkDataOK /\ LinkCommand => (LinkFlagsOK /\ LinkDataOK)'
<1> SUFFICES ASSUME LinkFlagsOK, LinkDataOK, LinkCommand
             PROVE  (LinkFlagsOK /\ LinkDataOK)'
  OBVIOUS
<1> USE LinkAssumption DEF LinkFlagsOK, LinkDataOK, LinkSteps, Receive,
        CommandNames, globalVars, originVars, modeVars, baseVars, topicVars
<1>1. CASE Arm BY <1>1 DEF Arm
<1>2. CASE Disarm BY <1>2 DEF Disarm
<1>3. CASE EnterMode
  <2>1. PICK c \in DOMAIN ModeFrames :
          Receive(c, "modePursuit") /\ mode' = ModeFrames[c]
    BY <1>3 DEF EnterMode
  <2>2. mode' \in 0..255 BY <2>1, ModesAreBytes, Zenon
  <2>3. UNCHANGED <<armMode, haveFix, gps, globalVars, topicVars>>
    BY <1>3 DEF EnterMode
  <2>4. "modePursuit" \in LinkSteps BY DEF LinkSteps
  <2>5. /\ lastCmd' \in CommandNames /\ cmds' \in 0..MaxCommands
        /\ linkPc' \in LinkSteps
    BY <2>1, <2>4, ReceiveType, Zenon
  <2>. QED BY <2>2, <2>3, <2>5
<1>4. CASE SetMode BY <1>4 DEF SetMode
<1>5. CASE FramedWaypoint BY <1>5, PushGoalType DEF FramedWaypoint
<1>6. CASE FramedSetBase BY <1>6 DEF FramedSetBase
<1>7. CASE FramedFlush BY <1>7, PublishedType DEF FramedFlush
<1>. QED BY <1>1, <1>2, <1>3, <1>4, <1>5, <1>6, <1>7 DEF LinkCommand

\* So does every later step of a handler.
LEMMA LinkHandlerType ==
  LinkFlagsOK /\ LinkDataOK /\ LinkHandler => (LinkFlagsOK /\ LinkDataOK)'
<1> SUFFICES ASSUME LinkFlagsOK, LinkDataOK, LinkHandler
             PROVE  (LinkFlagsOK /\ LinkDataOK)'
  OBVIOUS
<1> USE PublishedType DEF LinkFlagsOK, LinkDataOK, LinkSteps, Goes, Points,
        originVars, modeVars, baseVars
<1>1. CASE ArmLatitude BY <1>1 DEF ArmLatitude
<1>2. CASE ArmLongitude BY <1>2 DEF ArmLongitude
<1>3. CASE ArmValid BY <1>3 DEF ArmValid
<1>4. CASE ArmStart BY <1>4 DEF ArmStart
<1>5. CASE DisarmValid BY <1>5 DEF DisarmValid, DropOrigin
<1>6. CASE DisarmStop BY <1>6 DEF DisarmStop
<1>7. CASE ModePursuit BY <1>7 DEF ModePursuit
<1>8. CASE ModeRtb BY <1>8 DEF ModeRtb
<1>9. CASE ModeReturn BY <1>9 DEF ModeReturn
<1>10. CASE BaseLatitude BY <1>10 DEF BaseLatitude
<1>11. CASE BaseLongitude BY <1>11 DEF BaseLongitude, StoreLongitude
<1>. QED BY <1>1, <1>2, <1>3, <1>4, <1>5, <1>6, <1>7, <1>8, <1>9, <1>10,
            <1>11 DEF LinkHandler

\* The telemetry node keeps its types.
LEMMA LinkNextType ==
  LinkFlagsOK /\ LinkDataOK /\ LinkNext => (LinkFlagsOK /\ LinkDataOK)'
<1> SUFFICES ASSUME LinkFlagsOK, LinkDataOK, LinkNext
             PROVE  (LinkFlagsOK /\ LinkDataOK)'
  OBVIOUS
<1>1. CASE OnNavsat
  <2> USE DEF globalVars, originVars, modeVars, baseVars, topicVars
  <2>1. LinkFlagsOK' BY <1>1 DEF OnNavsat, LinkFlagsOK
  <2>2. LinkDataOK' BY <1>1, LinkAssumption DEF OnNavsat, LinkDataOK
  <2>. QED BY <2>1, <2>2
<1>. QED BY <1>1, LinkCommandType, LinkHandlerType DEF LinkNext

-----------------------------------------------------------------------------
\* The steps of a callback that runs leave messages and globals alone.
LEMMA RunningKeepsLink == RunningCallback => UNCHANGED linkVars
BY DEF RunningCallback, GoalLoad, GoalAdd, RtbPose, RtbBase, RtbLoad, RtbPlan,
       RtbEnd, StartArmed, StartMode, StartPose, StartSend

-----------------------------------------------------------------------------
\* The manager only reads the globals.
LEMMA ManagerReadsGlobals ==
  ManagerNext => UNCHANGED <<nodeVars, globalVars>>
<1> USE DEF linkVars
<1>1. ASSUME TopicCallback PROVE UNCHANGED <<nodeVars, globalVars>>
  BY <1>1 DEF TopicCallback, GoalCb, RtbCb, StartCb, StopCb, FlushCb
<1>2. ASSUME ClientCallback PROVE UNCHANGED <<nodeVars, globalVars>>
  BY <1>2 DEF ClientCallback, GoalResponse, Feedback, Result
<1>3. ASSUME RunningCallback PROVE UNCHANGED <<nodeVars, globalVars>>
  BY <1>3, RunningKeepsLink
<1>4. ASSUME CostmapCb PROVE UNCHANGED <<nodeVars, globalVars>>
  BY <1>4 DEF CostmapCb
<1>. QED BY <1>1, <1>2, <1>3, <1>4 DEF ManagerNext

\* The manager takes messages, and leaves the rest of the telemetry node alone.
LEMMA ManagerKeepsLink ==
  LinkFlagsOK /\ LinkDataOK /\ ManagerNext => (LinkFlagsOK /\ LinkDataOK)'
<1> SUFFICES ASSUME LinkFlagsOK, LinkDataOK, ManagerNext
             PROVE  (LinkFlagsOK /\ LinkDataOK)'
  OBVIOUS
<1>1. UNCHANGED <<nodeVars, globalVars>> BY ManagerReadsGlobals
<1> USE DEF nodeVars, globalVars, originVars, modeVars, baseVars
<1>2. LinkFlagsOK' BY <1>1 DEF LinkFlagsOK
<1>3. /\ startQ' \in 0..QueueDepth /\ stopQ' \in 0..QueueDepth
      /\ rtbQ' \in 0..QueueDepth /\ flushQ' \in 0..QueueDepth
      /\ goalQ' \in Seq(Points)
  <2> USE LinkAssumption DEF LinkDataOK, linkVars, topicVars
  <2>1. CASE TopicCallback
    <3>1. CASE GoalCb
      <4>1. goalQ # <<>> /\ goalQ' = Tail(goalQ)
            /\ UNCHANGED <<startQ, stopQ, rtbQ, flushQ>>
        BY <3>1 DEF GoalCb
      <4>. QED BY <4>1
    <3>2. CASE RtbCb BY <3>2 DEF RtbCb
    <3>3. CASE StartCb BY <3>3 DEF StartCb
    <3>4. CASE StopCb BY <3>4 DEF StopCb
    <3>5. CASE FlushCb BY <3>5 DEF FlushCb
    <3>. QED BY <2>1, <3>1, <3>2, <3>3, <3>4, <3>5 DEF TopicCallback
  <2>2. CASE ClientCallback
    BY <2>2 DEF ClientCallback, GoalResponse, Feedback, Result
  <2>3. CASE RunningCallback BY <2>3, RunningKeepsLink
  <2>4. CASE CostmapCb BY <2>4 DEF CostmapCb
  <2>. QED BY <2>1, <2>2, <2>3, <2>4 DEF ManagerNext
<1>4. LinkDataOK' BY <1>1, <1>3 DEF LinkDataOK
<1>. QED BY <1>2, <1>4

\* The manager keeps its flags Boolean.
LEMMA ManagerFlags == ManagerFlagsOK /\ ManagerNext => ManagerFlagsOK'
<1> SUFFICES ASSUME ManagerFlagsOK, ManagerNext PROVE ManagerFlagsOK' OBVIOUS
<1> USE DEF ManagerFlagsOK, missionVars, callVars
<1>1. CASE TopicCallback
  <2>1. CASE GoalCb BY <2>1 DEF GoalCb
  <2>2. CASE RtbCb BY <2>2 DEF RtbCb
  <2>3. CASE StartCb BY <2>3 DEF StartCb
  <2>4. CASE StopCb BY <2>4 DEF StopCb
  <2>5. CASE FlushCb BY <2>5 DEF FlushCb
  <2>. QED BY <1>1, <2>1, <2>2, <2>3, <2>4, <2>5 DEF TopicCallback
<1>2. CASE ClientCallback
  <2> PICK g \in Goals : GoalResponse(g) \/ Feedback(g) \/ Result(g)
    BY <1>2 DEF ClientCallback
  <2>1. CASE GoalResponse(g)
    BY <2>1 DEF GoalResponse, GoalRefused, GoalAccepted
  <2>2. CASE Feedback(g) BY <2>2 DEF Feedback
  <2>3. CASE Result(g) BY <2>3 DEF Result, ResetMission
  <2>. QED BY <2>1, <2>2, <2>3
<1>3. CASE RunningCallback
  <2>1. CASE GoalLoad \/ GoalAdd BY <2>1 DEF GoalLoad, GoalAdd
  <2>2. CASE RtbPose \/ RtbBase \/ RtbLoad
    BY <2>2 DEF RtbPose, RtbBase, RtbLoad, ReleaseGuard
  <2>3. CASE RtbPlan BY <2>3 DEF RtbPlan
  <2>4. CASE RtbEnd BY <2>4 DEF RtbEnd, ReleaseGuard
  <2>5. CASE StartArmed \/ StartMode \/ StartPose
    BY <2>5 DEF StartArmed, StartMode, StartPose
  <2>6. CASE StartSend BY <2>6 DEF StartSend
  <2>. QED BY <1>3, <2>1, <2>2, <2>3, <2>4, <2>5, <2>6 DEF RunningCallback
<1>4. CASE CostmapCb BY <1>4 DEF CostmapCb
<1>. QED BY <1>1, <1>2, <1>3, <1>4 DEF ManagerNext
-----------------------------------------------------------------------------
\* Conversions give map points.
LEMMA GpsToMapType ==
  ASSUME NEW p \in Points, NEW ref \in Points
  PROVE  GpsToMap(p, ref) \in Points
<1>1. p[1] \in Int /\ p[2] \in Int /\ ref[1] \in Int /\ ref[2] \in Int
  BY DEF Points
<1>2. MetresPerDegree \in Int BY MetresPerDegreeAssumption
<1>3. /\ (p[2] - ref[2]) * MetresPerDegree \in Int
      /\ (p[1] - ref[1]) * MetresPerDegree \in Int
  BY <1>1, <1>2
<1>. QED BY <1>3 DEF GpsToMap, Points, Origin

\* What goalCb stores is a map point.
LEMMA InterpretGoalType ==
  ASSUME NEW f, NEW p \in Points, NEW ref \in Points
  PROVE  InterpretGoal(f, p, ref) \in Points
BY GpsToMapType DEF InterpretGoal

\* The coordinates that are loaded are integers.
LEMMA Loaded == \A r \in Seq(Int) : \A i \in 1..Len(r) : r[i] \in Int
OBVIOUS

\* Four coordinates are two points.
LEMMA FourAreTwo ==
  ASSUME NEW r \in Seq(Int), Len(r) = 4
  PROVE  <<r[1], r[2]>> \in Points /\ <<r[3], r[4]>> \in Points
<1>1. \A i \in 1..4 : r[i] \in Int BY Loaded, Zenon
<1>2. r[1] \in Int /\ r[2] \in Int /\ r[3] \in Int /\ r[4] \in Int BY <1>1
<1>. QED BY <1>2 DEF Points

\* A coordinate more.
LEMMA OneMore ==
  ASSUME NEW r \in Seq(Int), NEW x \in Int
  PROVE  /\ Append(r, x) \in Seq(Int)
         /\ Len(r) \in {2, 3} =>
              /\ Len(r) - 1 \in {1, 2}
              /\ Len(Append(r, x)) \in {3, 4}
         /\ Len(r) \in 0..3 =>
              /\ Len(r) + 1 \in 1..4
              /\ Len(Append(r, x)) \in 1..4
<1> DEFINE n == Len(r)
           m == Len(Append(r, x))
<1>1. Append(r, x) \in Seq(Int) /\ n \in Nat /\ m = n + 1 OBVIOUS
<1> HIDE DEF n, m
<1>2. n \in {2, 3} => n - 1 \in {1, 2} /\ m \in {3, 4} BY <1>1
<1>3. n \in 0..3 => n + 1 \in 1..4 /\ m \in 1..4 BY <1>1
<1>. QED BY <1>1, <1>2, <1>3 DEF n, m

\* The point home is nothing or one map point.
LEMMA HomeLegType ==
  ManagerDataOK /\ ReadFits /\ pc = "rtbPlan" => HomeLeg \in Seq(Points)
<1> SUFFICES ASSUME ManagerDataOK, ReadFits, pc = "rtbPlan"
             PROVE  HomeLeg \in Seq(Points)
  OBVIOUS
<1>1. BasePose \in Points
  <2>1. CASE read = <<>> BY <2>1 DEF BasePose, Origin, Points
  <2>2. CASE read # <<>>
    <3>1. read \in Seq(Int) /\ Len(read) = 4
      BY <2>2 DEF ManagerDataOK, ReadFits
    <3>2. <<read[1], read[2]>> \in Points /\ <<read[3], read[4]>> \in Points
      BY <3>1, FourAreTwo
    <3>. QED BY <2>2, <3>2, GpsToMapType DEF BasePose
  <2>. QED BY <2>1, <2>2
<1>2. <<BasePose>> \in Seq(Points) BY <1>1
<1>3. <<>> \in Seq(Points) OBVIOUS
<1>. QED BY <1>2, <1>3 DEF HomeLeg

\* A return path is made of map points.
LEMMA WayBackType ==
  ASSUME ManagerDataOK, ReadFits, pc = "rtbPlan",
         NEW back \in ReturnPath(goalPoints, ReturnGoals)
  PROVE  back \o HomeLeg \in Seq(Points)
<1>1. goalPoints \in Seq(Points) BY DEF ManagerDataOK
<1>2. ReturnGoals \in SUBSET DOMAIN goalPoints BY DEF ReturnGoals
<1>3. back \in Seq(Points) BY <1>1, <1>2, ReturnPathType
<1>. QED BY <1>3, HomeLegType

\* Erasing a goal leaves a sequence of such goals.
LEMMA RemoveAtType ==
  ASSUME NEW S, NEW s \in Seq(S), NEW i \in DOMAIN s
  PROVE  RemoveAt(s, i) \in Seq(S)
<1>1. SubSeq(s, 1, i - 1) \in Seq(S) OBVIOUS
<1>2. SubSeq(s, i + 1, Len(s)) \in Seq(S) OBVIOUS
<1>. QED BY <1>1, <1>2 DEF RemoveAt

\* goalCb appends a map point to both lists.
LEMMA AddGoalType ==
  ASSUME NEW p \in Points, ManagerDataOK, AddGoal(p)
  PROVE  goalPoints' \in Seq(Points) /\ rawGoals' \in Seq(Points)
<1>1. goalPoints \in Seq(Points) /\ rawGoals \in Seq(Points)
  BY DEF ManagerDataOK
<1>. QED BY <1>1 DEF AddGoal

\* The point goalCb has converted is a map point.
LEMMA ConvertedType ==
  ASSUME ManagerDataOK, ReadFits, pc = "goalAdd"
  PROVE  GpsToMap(<<read[1], read[2]>>, <<read[3], read[4]>>) \in Points
<1>1. read \in Seq(Int) /\ Len(read) = 4 BY DEF ManagerDataOK, ReadFits
<1>2. <<read[1], read[2]>> \in Points /\ <<read[3], read[4]>> \in Points
  BY <1>1, FourAreTwo
<1>. QED BY <1>2, GpsToMapType

\* The steps that change the lists: goalCb appends, rtbCb plans, stop and
\* flush clear, feedback erases.
LEMMA ListSteps ==
  ASSUME ManagerNext
  PROVE  \/ UNCHANGED listVars
         \/ goalQ # <<>> /\ AddGoal(Head(goalQ))
         \/ /\ pc = "goalAdd"
            /\ AddGoal(GpsToMap(<<read[1], read[2]>>, <<read[3], read[4]>>))
         \/ RtbPlan
         \/ ClearGoals
         \/ \E i \in DOMAIN rawGoals :
              rawGoals' = RemoveAt(rawGoals, i) /\ goalPoints' = goalPoints
<1>1. CASE TopicCallback
  BY <1>1 DEF TopicCallback, GoalCb, RtbCb, StartCb, StopCb, FlushCb
<1>2. CASE ClientCallback
  <2> PICK g \in Goals : GoalResponse(g) \/ Feedback(g) \/ Result(g)
    BY <1>2 DEF ClientCallback
  <2>1. CASE GoalResponse(g) BY <2>1 DEF GoalResponse
  <2>2. CASE Feedback(g) BY <2>2 DEF Feedback, Erased
  <2>3. CASE Result(g) BY <2>3 DEF Result
  <2>. QED BY <2>1, <2>2, <2>3
<1>3. CASE RunningCallback
  BY <1>3 DEF RunningCallback, GoalLoad, GoalAdd, RtbPose, RtbBase, RtbLoad,
              RtbEnd, StartArmed, StartMode, StartPose, StartSend
<1>4. CASE CostmapCb BY <1>4 DEF CostmapCb
<1>. QED BY <1>1, <1>2, <1>3, <1>4 DEF ManagerNext

\* The goal lists of the manager stay sequences of map points.
LEMMA ListsType ==
  ASSUME LinkDataOK, ManagerDataOK, ReadFits, ManagerNext
  PROVE  goalPoints' \in Seq(Points) /\ rawGoals' \in Seq(Points)
<1>0. goalPoints \in Seq(Points) /\ rawGoals \in Seq(Points)
  BY DEF ManagerDataOK
<1>1. CASE UNCHANGED listVars BY <1>0, <1>1 DEF listVars
<1>2. CASE goalQ # <<>> /\ AddGoal(Head(goalQ))
  <2>1. Head(goalQ) \in Points
    <3>1. goalQ \in Seq(Points) BY DEF LinkDataOK
    <3>. QED BY <1>2, <3>1
  <2>. QED BY <1>2, <2>1, AddGoalType
<1>3. CASE /\ pc = "goalAdd"
           /\ AddGoal(GpsToMap(<<read[1], read[2]>>, <<read[3], read[4]>>))
  BY <1>3, AddGoalType, ConvertedType
<1>4. CASE RtbPlan
  <2>1. PICK back \in ReturnPath(goalPoints, ReturnGoals) :
          goalPoints' = back \o HomeLeg
    BY <1>4 DEF RtbPlan
  <2>2. rawGoals' = goalPoints' /\ pc = "rtbPlan" BY <1>4 DEF RtbPlan
  <2>. QED BY <2>1, <2>2, WayBackType
<1>5. CASE ClearGoals
  <2>1. <<>> \in Seq(Points) OBVIOUS
  <2>. QED BY <1>5, <2>1 DEF ClearGoals
<1>6. CASE \E i \in DOMAIN rawGoals :
             rawGoals' = RemoveAt(rawGoals, i) /\ goalPoints' = goalPoints
  BY <1>0, <1>6, RemoveAtType
<1>. QED BY <1>1, <1>2, <1>3, <1>4, <1>5, <1>6, ListSteps

\* What a callback loads is an integer, and it loads as much as it needs.
LEMMA ReadType ==
  ASSUME LinkDataOK, ManagerDataOK, ReadFits, ManagerNext
  PROVE  read' \in Seq(Int) /\ ReadFits'
<1>0. read \in Seq(Int) /\ <<>> \in Seq(Int) /\ Len(read) \in Nat
  BY DEF ManagerDataOK
<1> USE DEF ReadFits, callVars
<1>1. CASE TopicCallback
  <2>1. CASE GoalCb
    <3>1. CASE pc' = "goalLoad" /\ read' = Head(goalQ) /\ goalQ # <<>>
      <4>1. goalQ \in Seq(Points) BY DEF LinkDataOK
      <4>2. Head(goalQ) \in Int \X Int BY <3>1, <4>1 DEF Points
      <4>3. PICK x \in Int, y \in Int : read' = <<x, y>> BY <3>1, <4>2
      <4>4. <<x, y>> \in Seq(Int) /\ Len(<<x, y>>) = 2 OBVIOUS
      <4>. QED BY <3>1, <4>3, <4>4
    <3>2. CASE UNCHANGED callVars BY <1>0, <3>2
    <3>. QED BY <2>1, <3>1, <3>2 DEF GoalCb
  <2>2. CASE RtbCb BY <1>0, <2>2 DEF RtbCb
  <2>3. CASE StartCb BY <1>0, <2>3 DEF StartCb
  <2>4. CASE StopCb BY <1>0, <2>4 DEF StopCb
  <2>5. CASE FlushCb BY <1>0, <2>5 DEF FlushCb
  <2>. QED BY <1>1, <2>1, <2>2, <2>3, <2>4, <2>5 DEF TopicCallback
<1>2. CASE ClientCallback
  BY <1>0, <1>2 DEF ClientCallback, GoalResponse, Feedback, Result
<1>3. CASE RunningCallback
  <2>1. CASE GoalLoad
    <3>1. pc = "goalLoad" /\ Len(read) \in {2, 3} BY <2>1 DEF GoalLoad
    <3>2. baseAt[Len(read) - 1] \in Int
      <4>1. \A i \in {1, 2} : baseAt[i] \in Int BY DEF LinkDataOK, Points
      <4>2. 0 \in Int /\ Len(read) - 1 \in {1, 2} BY <1>0, <3>1, OneMore
      <4>. QED BY <4>1, <4>2
    <3>3. read' \in Seq(Int) /\ Len(read') \in {3, 4}
      BY <1>0, <2>1, <3>1, <3>2, OneMore DEF GoalLoad
    <3>4. pc' = IF Len(read') = 4 THEN "goalAdd" ELSE "goalLoad"
      BY <2>1 DEF GoalLoad
    <3>. QED BY <3>3, <3>4
  <2>2. CASE RtbLoad
    <3>1. pc = "rtbLoad" /\ Len(read) \in 0..3 BY <2>2 DEF RtbLoad
    <3>2. RtbLoads[Len(read) + 1] \in Int
      <4>1. \A i \in 1..4 : RtbLoads[i] \in Int
        BY DEF RtbLoads, LinkDataOK, Points
      <4>2. 0 \in Int /\ Len(read) + 1 \in 1..4 BY <1>0, <3>1, OneMore
      <4>. QED BY <4>1, <4>2
    <3>3. read' \in Seq(Int) /\ Len(read') \in 1..4
      BY <1>0, <2>2, <3>1, <3>2, OneMore DEF RtbLoad
    <3>4. pc' = IF Len(read') = 4 THEN "rtbPlan" ELSE "rtbLoad"
      BY <2>2 DEF RtbLoad
    <3>. QED BY <3>3, <3>4
  <2>3. CASE GoalAdd BY <1>0, <2>3 DEF GoalAdd
  <2>4. CASE RtbPose \/ RtbEnd BY <1>0, <2>4 DEF RtbPose, RtbEnd
  <2>5. CASE RtbBase BY <1>0, <2>5 DEF RtbBase
  <2>6. CASE RtbPlan BY <1>0, <2>6 DEF RtbPlan
  <2>7. CASE StartArmed \/ StartMode
    BY <1>0, <2>7 DEF StartArmed, StartMode, Return
  <2>8. CASE StartPose \/ StartSend
    BY <1>0, <2>8 DEF StartPose, StartSend, Return
  <2>. QED BY <1>3, <2>1, <2>2, <2>3, <2>4, <2>5, <2>6, <2>7, <2>8
           DEF RunningCallback
<1>4. CASE CostmapCb BY <1>0, <1>4 DEF CostmapCb
<1>. QED BY <1>1, <1>2, <1>3, <1>4 DEF ManagerNext

\* An interpolated path is made of the goals and of points between them.
LEMMA InterpolatedType ==
  ASSUME NEW goals \in Seq(Points), NEW S \in Interpolated(goals)
  PROVE  S \subseteq Points \cup {Via}
<1>1. {p \in Range(goals) : IsPoseCollisionFree(p)} \subseteq Points
  BY DEF Range
<1>. QED BY <1>1 DEF Interpolated

\* The rest of the manager's data keeps its types.
LEMMA MissionType ==
  ASSUME ManagerDataOK, NavTypeOK, ManagerNext
  PROVE  /\ pc' \in ManagerSteps
         /\ path' \subseteq Points \cup {Via}
         /\ handle' \in Nat
         /\ lethal' \subseteq Points
<1> USE DEF ManagerDataOK, ManagerSteps, missionVars, callVars
<1>0. \A g \in Goals : g \in Nat BY DEF NavTypeOK, Goals
<1>1. CASE TopicCallback
  <2>1. CASE GoalCb BY <2>1 DEF GoalCb
  <2>2. CASE RtbCb BY <2>2 DEF RtbCb, CancelCurrent, NoGoal
  <2>3. CASE StartCb BY <2>3 DEF StartCb
  <2>4. CASE StopCb BY <2>4 DEF StopCb, CancelCurrent, NoGoal
  <2>5. CASE FlushCb BY <2>5 DEF FlushCb
  <2>. QED BY <1>1, <2>1, <2>2, <2>3, <2>4, <2>5 DEF TopicCallback
<1>2. CASE ClientCallback
  <2> PICK g \in Goals : GoalResponse(g) \/ Feedback(g) \/ Result(g)
    BY <1>2 DEF ClientCallback
  <2>1. CASE GoalResponse(g)
    BY <1>0, <2>1 DEF GoalResponse, GoalRefused, GoalAccepted
  <2>2. CASE Feedback(g) BY <2>2 DEF Feedback
  <2>3. CASE Result(g) BY <2>3 DEF Result, ResetMission, NoGoal
  <2>. QED BY <2>1, <2>2, <2>3
<1>3. CASE RunningCallback
  <2>1. CASE GoalLoad \/ GoalAdd BY <2>1 DEF GoalLoad, GoalAdd
  <2>2. CASE RtbPose \/ RtbBase \/ RtbLoad \/ RtbEnd
    BY <2>2 DEF RtbPose, RtbBase, RtbLoad, RtbEnd
  <2>3. CASE RtbPlan BY <2>3 DEF RtbPlan
  <2>4. CASE StartArmed \/ StartMode \/ StartPose
    BY <2>4 DEF StartArmed, StartMode, StartPose, Return
  <2>5. CASE StartSend BY <2>5, InterpolatedType DEF StartSend, Return
  <2>. QED BY <1>3, <2>1, <2>2, <2>3, <2>4, <2>5 DEF RunningCallback
<1>4. CASE CostmapCb BY <1>4, ManagerAssumption DEF CostmapCb
<1>. QED BY <1>1, <1>2, <1>3, <1>4 DEF ManagerNext

-----------------------------------------------------------------------------
\* The manager keeps the types of the action, and keeps only handles of goals.
LEMMA ManagerKeepsNav ==
  ASSUME NavTypeOK, HandleIsGoal, ManagerNext
  PROVE  NavTypeOK' /\ HandleIsGoal'
<1>s. ASSUME UNCHANGED navVars, handle' = handle
      PROVE  NavTypeOK' /\ HandleIsGoal'
  BY <1>s DEF navVars, NavTypeOK, HandleIsGoal, Goals
<1>c. ASSUME CancelCurrent, UNCHANGED <<client, server>>
      PROVE  NavTypeOK' /\ HandleIsGoal'
  <2>1. cancels' \subseteq Goals
    BY <1>c DEF CancelCurrent, AsyncCancelGoal, HandleIsGoal, NavTypeOK
  <2>. QED BY <1>c, <2>1 DEF NavTypeOK, HandleIsGoal, Goals, CancelCurrent
<1> USE DEF missionVars
<1>1. CASE TopicCallback
  <2>1. CASE GoalCb BY <1>s, <2>1 DEF GoalCb
  <2>2. CASE RtbCb
    <3>1. UNCHANGED <<client, server>> BY <2>2 DEF RtbCb
    <3>2. CancelCurrent \/ (UNCHANGED navVars /\ handle' = handle)
      BY <2>2 DEF RtbCb, navVars
    <3>. QED BY <1>s, <1>c, <3>1, <3>2
  <2>3. CASE StartCb BY <1>s, <2>3 DEF StartCb
  <2>4. CASE StopCb BY <1>c, <2>4 DEF StopCb
  <2>5. CASE FlushCb BY <1>s, <2>5 DEF FlushCb
  <2>. QED BY <1>1, <2>1, <2>2, <2>3, <2>4, <2>5 DEF TopicCallback
<1>2. CASE ClientCallback
  <2> PICK g \in Goals : GoalResponse(g) \/ Feedback(g) \/ Result(g)
    BY <1>2 DEF ClientCallback
  <2>1. CASE GoalResponse(g)
    <3>1. PICK s \in ClientStates : client' = [client EXCEPT ![g] = s]
      BY <2>1 DEF GoalResponse, GoalRefused, GoalAccepted, Answered, ClientStates
    <3>2. UNCHANGED <<server, cancels>> BY <2>1 DEF GoalResponse
    <3>3. NavTypeOK' /\ Goals' = Goals BY <3>1, <3>2, ClientMoveKeepsNav
    <3>4. handle' = handle \/ handle' = g
      BY <2>1 DEF GoalResponse, GoalRefused, GoalAccepted
    <3>. QED BY <3>3, <3>4 DEF HandleIsGoal
  <2>2. CASE Feedback(g) BY <1>s, <2>2 DEF Feedback
  <2>3. CASE Result(g)
    <3>1. client' = [client EXCEPT ![g] = "done"] /\ UNCHANGED <<server, cancels>>
      BY <2>3 DEF Result
    <3>2. NavTypeOK' BY <3>1, ClientMoveKeepsNav DEF ClientStates
    <3>. QED BY <2>3, <3>2 DEF Result, ResetMission, HandleIsGoal
  <2>. QED BY <2>1, <2>2, <2>3
<1>3. CASE RunningCallback
  <2>1. CASE StartSend
    <3>1. CASE path' = {}
      BY <1>s, <2>1, <3>1 DEF StartSend, navVars
    <3>2. CASE path' # {}
      <4>1. AsyncSendGoal /\ UNCHANGED cancels /\ handle' = handle
        BY <2>1, <3>2 DEF StartSend
      <4>2. cancels' \subseteq Goals BY <4>1 DEF NavTypeOK
      <4>. QED BY <4>1, <4>2, SendKeepsNav DEF HandleIsGoal
    <3>. QED BY <3>1, <3>2
  <2>2. CASE ~StartSend
    BY <1>s, <1>3, <2>2
       DEF RunningCallback, GoalLoad, GoalAdd, RtbPose, RtbBase, RtbLoad,
           RtbPlan, RtbEnd, StartArmed, StartMode, StartPose
  <2>. QED BY <2>1, <2>2
<1>4. CASE CostmapCb BY <1>s, <1>4 DEF CostmapCb
<1>. QED BY <1>1, <1>2, <1>3, <1>4 DEF ManagerNext

-----------------------------------------------------------------------------
TypeInv == TypeOK /\ HandleIsGoal /\ ReadFits

\* Every step of the process or of Nav2 keeps all types.
LEMMA StepKeepsTypes == TypeInv /\ [Next]_vars => TypeInv'
<1> SUFFICES ASSUME TypeInv, [Next]_vars PROVE TypeInv' OBVIOUS
<1>0. /\ LinkFlagsOK /\ LinkDataOK /\ ManagerFlagsOK /\ ManagerDataOK
      /\ NavTypeOK /\ HandleIsGoal /\ ReadFits
  BY DEF TypeInv, TypeOK
<1>m. ASSUME UNCHANGED managerVars
      PROVE  ManagerFlagsOK' /\ ManagerDataOK' /\ ReadFits'
  <2> USE DEF managerVars, missionVars, listVars, callVars
  <2>1. ManagerFlagsOK' BY <1>0, <1>m DEF ManagerFlagsOK
  <2>2. ManagerDataOK' BY <1>0, <1>m DEF ManagerDataOK
  <2>3. ReadFits' BY <1>0, <1>m DEF ReadFits
  <2>. QED BY <2>1, <2>2, <2>3
<1>n. ASSUME UNCHANGED <<managerVars, navVars>> PROVE NavTypeOK' /\ HandleIsGoal'
  BY <1>0, <1>n DEF managerVars, missionVars, navVars, NavTypeOK, HandleIsGoal, Goals
<1>l. ASSUME UNCHANGED linkVars PROVE LinkFlagsOK' /\ LinkDataOK'
  <2> USE DEF linkVars, nodeVars, globalVars, originVars, modeVars, baseVars,
          topicVars
  <2>1. LinkFlagsOK' BY <1>0, <1>l DEF LinkFlagsOK
  <2>2. LinkDataOK' BY <1>0, <1>l DEF LinkDataOK
  <2>. QED BY <2>1, <2>2
<1>1. CASE LinkStep
  BY <1>0, <1>1, <1>m, <1>n, LinkNextType DEF LinkStep, TypeInv, TypeOK
<1>2. CASE ManagerStep
  <2> USE <1>0, <1>2 DEF ManagerStep
  <2>1. LinkFlagsOK' /\ LinkDataOK' BY ManagerKeepsLink
  <2>2. ManagerFlagsOK' BY ManagerFlags
  <2>3. ManagerDataOK' /\ ReadFits'
    BY ListsType, ReadType, MissionType DEF ManagerDataOK
  <2>4. NavTypeOK' /\ HandleIsGoal' BY ManagerKeepsNav
  <2>. QED BY <2>1, <2>2, <2>3, <2>4 DEF TypeInv, TypeOK
<1>3. CASE ServerStep
  <2>1. UNCHANGED linkVars /\ UNCHANGED managerVars /\ ServerNext
    BY <1>3 DEF ServerStep
  <2>2. NavTypeOK' /\ client' = client BY <1>0, <2>1, ServerKeepsNav
  <2>3. HandleIsGoal'
    BY <1>0, <2>1, <2>2 DEF HandleIsGoal, Goals, managerVars, missionVars
  <2>. QED BY <2>1, <2>2, <2>3, <1>m, <1>l DEF TypeInv, TypeOK
<1>4. CASE UNCHANGED vars
  BY <1>4, <1>m, <1>n, <1>l DEF vars, TypeInv, TypeOK
<1>. QED BY <1>1, <1>2, <1>3, <1>4 DEF Next

\* The state in which the process starts is of its types.
LEMMA InitHasTypes == Init => TypeInv
<1> SUFFICES ASSUME Init PROVE TypeInv OBVIOUS
<1>1. LinkFlagsOK /\ LinkDataOK BY LinkInitType DEF Init
<1>2. ManagerFlagsOK BY DEF Init, ManagerInit, ManagerFlagsOK
<1>3. ManagerDataOK /\ ReadFits
  BY DEF Init, ManagerInit, ManagerDataOK, ManagerSteps, ReadFits, NoGoal
<1>4. NavTypeOK BY DEF Init, NavInit, NavTypeOK, Goals
<1>5. HandleIsGoal BY DEF Init, ManagerInit, HandleIsGoal
<1>. QED BY <1>1, <1>2, <1>3, <1>4, <1>5 DEF TypeInv, TypeOK

\* The process keeps its types, and cancel requests name goals that exist.
THEOREM TypesAreKept == Spec => []TypeInv
BY InitHasTypes, StepKeepsTypes, PTL DEF Spec

\* Every variable has its type in every reachable state, whatever the
\* commands, positions, costmaps and queue depth are.
THEOREM TypeCorrect == Spec => []TypeOK
<1>1. TypeInv => TypeOK BY DEF TypeInv
<1>. QED BY <1>1, TypesAreKept, PTL

-----------------------------------------------------------------------------
\* A step of the manager is a step of GoalTracking, or changes nothing of it.
LEMMA ManagerTracks ==
  ASSUME TypeInv, ManagerNext
  PROVE  Tracking!Next \/ UNCHANGED Tracking!trackingVars
<1> USE DEF missionVars, navVars, Tracking!trackingVars
<1>a. missionActive \in BOOLEAN BY DEF TypeInv, TypeOK, ManagerFlagsOK
<1>c. ASSUME CancelCurrent, UNCHANGED client, missionActive' \in {missionActive, FALSE}
      PROVE  Tracking!Next
  BY <1>c DEF CancelCurrent, NoGoal, Tracking!Next, Tracking!LetGo
<1>1. CASE TopicCallback
  <2>1. CASE GoalCb BY <2>1 DEF GoalCb
  <2>2. CASE RtbCb
    <3>1. CancelCurrent \/ handle' = handle BY <2>2 DEF RtbCb
    <3>2. UNCHANGED <<client, missionActive>> BY <2>2 DEF RtbCb
    <3>. QED BY <1>c, <3>1, <3>2
  <2>3. CASE StartCb BY <2>3 DEF StartCb
  <2>4. CASE StopCb BY <1>c, <2>4 DEF StopCb
  <2>5. CASE FlushCb BY <2>5 DEF FlushCb
  <2>. QED BY <1>1, <2>1, <2>2, <2>3, <2>4, <2>5 DEF TopicCallback
<1>2. CASE ClientCallback
  <2> PICK g \in Goals : GoalResponse(g) \/ Feedback(g) \/ Result(g)
    BY <1>2 DEF ClientCallback
  <2>1. CASE GoalResponse(g)
    <3>1. Tracking!Refuse(g) \/ Tracking!Accept(g)
      BY <2>1 DEF GoalResponse, GoalRefused, GoalAccepted, Answered, Goals,
         Tracking!Refuse, Tracking!Accept, Tracking!Unanswered
    <3>. QED BY <3>1 DEF Tracking!Next, Goals
  <2>2. CASE Feedback(g) BY <2>2 DEF Feedback
  <2>3. CASE Result(g)
    <3>1. Tracking!Finish(g)
      BY <2>3 DEF Result, ResetMission, NoGoal, Tracking!Finish
    <3>. QED BY <3>1 DEF Tracking!Next, Goals
  <2>. QED BY <2>1, <2>2, <2>3
<1>3. CASE RunningCallback
  <2>1. CASE RtbPlan
    <3>1. UNCHANGED <<client, handle>> /\ missionActive' = FALSE
      BY <2>1 DEF RtbPlan
    <3>. QED BY <3>1 DEF Tracking!Next, Tracking!LetGo
  <2>2. CASE StartSend
    <3>1. CASE path' = {} BY <2>2, <3>1 DEF StartSend
    <3>2. CASE path' # {}
      BY <2>2, <3>2 DEF StartSend, AsyncSendGoal, Tracking!Next, Tracking!Send
    <3>. QED BY <3>1, <3>2
  <2>3. CASE ~RtbPlan /\ ~StartSend
    BY <1>3, <2>3 DEF RunningCallback, GoalLoad, GoalAdd, RtbPose, RtbBase,
                      RtbLoad, RtbEnd, StartArmed, StartMode, StartPose
  <2>. QED BY <2>1, <2>2, <2>3
<1>4. CASE CostmapCb BY <1>4 DEF CostmapCb
<1>. QED BY <1>1, <1>2, <1>3, <1>4 DEF ManagerNext

\* So is every step of the process and of Nav2.
LEMMA StepTracks ==
  ASSUME TypeInv, [Next]_vars
  PROVE  [Tracking!Next]_(Tracking!trackingVars)
<1> USE DEF managerVars, missionVars, navVars, Tracking!trackingVars
<1>1. CASE LinkStep BY <1>1 DEF LinkStep
<1>2. CASE ManagerStep BY <1>2, ManagerTracks DEF ManagerStep
<1>3. CASE ServerStep BY <1>3 DEF ServerStep, ServerNext
<1>4. CASE UNCHANGED vars BY <1>4 DEF vars
<1>. QED BY <1>1, <1>2, <1>3, <1>4 DEF Next

\* The process keeps its books the way GoalTracking says, whatever the ground
\* station sends, however Nav2 answers and however the two threads interleave.
THEOREM Refinement == Spec => TracksGoals
<1>1. Init => Tracking!Init
  BY DEF Init, ManagerInit, NavInit, NoGoal, Tracking!Init
<1>2. TypeInv /\ [Next]_vars => [Tracking!Next]_(Tracking!trackingVars)
  BY StepTracks
<1>. QED BY <1>1, <1>2, TypesAreKept, PTL DEF Spec, TracksGoals, Tracking!Spec

\* What GoalTracking guarantees holds of the process.
LEMMA BooksAreKept == Spec => []Tracking!TrackingInv
BY Refinement, Tracking!TrackingIsRight, PTL DEF TracksGoals

\* A cancel request of stopCb or rtbCb names a goal the client library knows,
\* the newest that was accepted.
THEOREM HandleStaysRight == Spec => []HandleIsRight
<1>1. Tracking!TrackingInv => HandleIsRight
  BY DEF Tracking!TrackingInv, Tracking!TrackedIsLive, Tracking!TrackedIsNewest, HandleIsRight,
         Live, Goals, NoGoal
<1>. QED BY <1>1, BooksAreKept, PTL

\* While mission_active_ is set, the newest goal is not over.
THEOREM ActiveMissionsAreOutstanding == Spec => []ActiveMissionIsOutstanding
<1>1. Tracking!TrackingInv => ActiveMissionIsOutstanding
  BY DEF Tracking!TrackingInv, Tracking!TypeOK, Tracking!ActiveIsOutstanding,
     ActiveMissionIsOutstanding, Outstanding, Goals, Newest
<1>. QED BY <1>1, BooksAreKept, PTL

-----------------------------------------------------------------------------
\* nested says what it should: it is set while the startCb that rtbCb calls
\* runs, and until rtbCb goes on.
NestedFits ==
  /\ nested => pc \in {"startArmed", "startMode", "startPose", "startSend",
                       "rtbEnd"}
  /\ pc = "rtbEnd" => nested

LEMMA GuardInvHolds == Spec => [](NestedFits /\ RtbGuardIsRight)
<1> USE DEF NestedFits, RtbGuardIsRight
<1>1. Init => NestedFits /\ RtbGuardIsRight BY DEF Init, ManagerInit
<1>2. NestedFits /\ RtbGuardIsRight /\ [Next]_vars
        => (NestedFits /\ RtbGuardIsRight)'
  <2> SUFFICES ASSUME NestedFits, RtbGuardIsRight, [Next]_vars
               PROVE  (NestedFits /\ RtbGuardIsRight)'
    OBVIOUS
  <2> USE DEF managerVars, callVars
  <2>1. CASE TopicCallback
    <3>1. CASE GoalCb BY <3>1 DEF GoalCb
    <3>2. CASE RtbCb BY <3>2 DEF RtbCb
    <3>3. CASE StartCb BY <3>3 DEF StartCb
    <3>4. CASE StopCb BY <3>4 DEF StopCb
    <3>5. CASE FlushCb BY <3>5 DEF FlushCb
    <3>. QED BY <2>1, <3>1, <3>2, <3>3, <3>4, <3>5 DEF TopicCallback
  <2>2. CASE ClientCallback
    BY <2>2 DEF ClientCallback, GoalResponse, Feedback, Result
  <2>3. CASE RunningCallback
    <3>1. CASE GoalLoad BY <3>1 DEF GoalLoad
    <3>2. CASE GoalAdd BY <3>2 DEF GoalAdd
    <3>3. CASE RtbPose BY <3>3 DEF RtbPose, ReleaseGuard
    <3>4. CASE RtbBase BY <3>4 DEF RtbBase
    <3>5. CASE RtbLoad BY <3>5 DEF RtbLoad
    <3>6. CASE RtbPlan BY <3>6 DEF RtbPlan
    <3>7. CASE RtbEnd BY <3>7 DEF RtbEnd, ReleaseGuard
    <3>8. CASE StartArmed BY <3>8 DEF StartArmed, Return
    <3>9. CASE StartMode BY <3>9 DEF StartMode, Return
    <3>10. CASE StartPose BY <3>10 DEF StartPose, Return
    <3>11. CASE StartSend BY <3>11 DEF StartSend, Return
    <3>. QED BY <2>3, <3>1, <3>2, <3>3, <3>4, <3>5, <3>6, <3>7, <3>8, <3>9,
                <3>10, <3>11 DEF RunningCallback
  <2>4. CASE CostmapCb BY <2>4 DEF CostmapCb
  <2>5. CASE LinkStep BY <2>5 DEF LinkStep
  <2>6. CASE ServerStep BY <2>6 DEF ServerStep
  <2>7. CASE UNCHANGED vars BY <2>7 DEF vars
  <2>. QED BY <2>1, <2>2, <2>3, <2>4, <2>5, <2>6, <2>7
           DEF Next, ManagerStep, ManagerNext
<1>. QED BY <1>1, <1>2, PTL DEF Spec

\* The static guard of rtbCb is set exactly while rtbCb runs.  It is not
\* startCb that releases it: rtbCb does, when it goes on, and on its own way
\* out without a map origin.
THEOREM RtbGuardStaysRight == Spec => []RtbGuardIsRight
BY GuardInvHolds, PTL

LEMMA NestedHolds == Spec => []NestedFits
BY GuardInvHolds, PTL

-----------------------------------------------------------------------------
\* A map origin is valid only while the vehicle is armed, and only a vehicle
\* that is armed is about to get one.
OriginInv ==
  /\ OriginOnlyWhenArmed
  /\ linkPc \in {"armLatitude", "armLongitude", "armValid"} => armMode = 1

\* A map origin is valid only while the vehicle is armed: DISARM, framed or
\* raw, gives up both, the one in a step after the other.
THEOREM OriginIsOnlyKeptWhileArmed == Spec => []OriginOnlyWhenArmed
<1> USE DEF OriginInv, OriginOnlyWhenArmed
<1>1. Init => OriginInv BY DEF Init, LinkInit
<1>2. OriginInv /\ [Next]_vars => OriginInv'
  <2> SUFFICES ASSUME OriginInv, [Next]_vars PROVE OriginInv' OBVIOUS
  <2> USE DEF linkVars, nodeVars, globalVars, originVars
  <2>1. CASE OnNavsat BY <2>1 DEF OnNavsat
  <2>2. CASE LinkCommand
    <3>1. CASE Arm BY <3>1 DEF Arm, Receive
    <3>2. CASE Disarm BY <3>2 DEF Disarm, Receive
    <3>3. CASE EnterMode BY <3>3 DEF EnterMode, Receive
    <3>4. CASE SetMode BY <3>4 DEF SetMode, Receive
    <3>5. CASE FramedWaypoint BY <3>5 DEF FramedWaypoint, Receive
    <3>6. CASE FramedSetBase BY <3>6 DEF FramedSetBase, Receive
    <3>7. CASE FramedFlush BY <3>7 DEF FramedFlush, Receive
    <3>. QED BY <2>2, <3>1, <3>2, <3>3, <3>4, <3>5, <3>6, <3>7 DEF LinkCommand
  <2>3. CASE LinkHandler
    <3>1. CASE ArmLatitude \/ ArmLongitude
      BY <3>1 DEF ArmLatitude, ArmLongitude, Goes
    <3>2. CASE ArmValid BY <3>2 DEF ArmValid, Goes
    <3>3. CASE ArmStart BY <3>3 DEF ArmStart, Goes
    <3>4. CASE DisarmValid BY <3>4 DEF DisarmValid, DropOrigin, Goes
    <3>5. CASE DisarmStop BY <3>5 DEF DisarmStop, Goes
    <3>6. CASE ModePursuit \/ ModeRtb \/ ModeReturn
      BY <3>6 DEF ModePursuit, ModeRtb, ModeReturn, Goes
    <3>7. CASE BaseLatitude \/ BaseLongitude
      BY <3>7 DEF BaseLatitude, BaseLongitude, Goes
    <3>. QED BY <2>3, <3>1, <3>2, <3>3, <3>4, <3>5, <3>6, <3>7 DEF LinkHandler
  <2>4. CASE ManagerStep BY <2>4, ManagerReadsGlobals DEF ManagerStep
  <2>5. CASE ServerStep BY <2>5 DEF ServerStep
  <2>6. CASE UNCHANGED vars BY <2>6 DEF vars
  <2>. QED BY <2>1, <2>2, <2>3, <2>4, <2>5, <2>6 DEF Next, LinkStep, LinkNext
<1>. QED BY <1>1, <1>2, PTL DEF Spec

-----------------------------------------------------------------------------
\* Only the last step of startCb sends a goal.
LEMMA OnlyStartSendSends ==
  ASSUME TypeInv, [Next]_vars, Newest' > Newest
  PROVE  StartSend
<1>0. client \in Seq(ClientStates) BY DEF TypeInv, TypeOK, NavTypeOK
<1>1. client' # client BY <1>0 DEF Newest
<1> USE DEF managerVars, missionVars, navVars
<1>2. CASE LinkStep BY <1>1, <1>2 DEF LinkStep
<1>3. CASE ManagerStep
  <2>1. CASE TopicCallback
    BY <1>1, <2>1 DEF TopicCallback, GoalCb, RtbCb, StartCb, StopCb, FlushCb
  <2>2. CASE ClientCallback
    <3> PICK g \in Goals : GoalResponse(g) \/ Feedback(g) \/ Result(g)
      BY <2>2 DEF ClientCallback
    <3>1. CASE \E s : client' = [client EXCEPT ![g] = s]
      BY <1>0, <3>1 DEF Newest, Goals
    <3>2. CASE Feedback(g) BY <1>1, <3>2 DEF Feedback
    <3>3. CASE GoalResponse(g)
      BY <3>1, <3>3 DEF GoalResponse, GoalRefused, GoalAccepted, Answered
    <3>4. CASE Result(g) BY <3>1, <3>4 DEF Result
    <3>. QED BY <3>2, <3>3, <3>4
  <2>3. CASE RunningCallback
    BY <1>1, <2>3 DEF RunningCallback, GoalLoad, GoalAdd, RtbPose, RtbBase,
                      RtbLoad, RtbPlan, RtbEnd, StartArmed, StartMode, StartPose
  <2>4. CASE CostmapCb BY <1>1, <2>4 DEF CostmapCb
  <2>. QED BY <1>3, <2>1, <2>2, <2>3, <2>4 DEF ManagerStep, ManagerNext
<1>4. CASE ServerStep BY <1>1, <1>4 DEF ServerStep, ServerNext
<1>5. CASE UNCHANGED vars BY <1>1, <1>5 DEF vars
<1>. QED BY <1>2, <1>3, <1>4, <1>5 DEF Next

\* Between startCb's test of the map origin and the goal it sends, a DISARM
\* may come: then its stop is on the way.
StopFollows == armValid \/ stopQ > 0 \/ linkPc = "disarmStop"
StartInv ==
  /\ pc \in {"startMode", "startPose", "startSend"} => StopFollows
  /\ linkPc = "disarmValid" => lastCmd = "DISARM"

\* The telemetry thread does not take a stop back.
LEMMA LinkKeepsStop ==
  ASSUME "RAW_DISARM" \notin Commands, LinkDataOK, LinkStep,
         linkPc = "disarmValid" => lastCmd = "DISARM"
  PROVE  /\ StopFollows => StopFollows'
         /\ (linkPc = "disarmValid" => lastCmd = "DISARM")'
<1> USE DEF StopFollows, globalVars, originVars, topicVars
<1>0. stopQ \in Nat BY LinkAssumption DEF LinkDataOK
<1>1. CASE OnNavsat BY <1>1 DEF OnNavsat
<1>2. CASE LinkCommand
  <2>1. CASE Arm BY <2>1 DEF Arm, Receive
  <2>2. CASE Disarm BY <2>2 DEF Disarm, Receive
  <2>3. CASE EnterMode BY <2>3 DEF EnterMode, Receive
  <2>4. CASE SetMode BY <2>4 DEF SetMode, Receive
  <2>5. CASE FramedWaypoint BY <2>5 DEF FramedWaypoint, Receive
  <2>6. CASE FramedSetBase BY <2>6 DEF FramedSetBase, Receive
  <2>7. CASE FramedFlush BY <2>7 DEF FramedFlush, Receive
  <2>. QED BY <1>2, <2>1, <2>2, <2>3, <2>4, <2>5, <2>6, <2>7 DEF LinkCommand
<1>3. CASE LinkHandler
  <2> USE DEF Goes
  <2>1. CASE ArmLatitude \/ ArmLongitude BY <2>1 DEF ArmLatitude, ArmLongitude
  <2>2. CASE ArmValid BY <2>2 DEF ArmValid
  <2>3. CASE ArmStart BY <2>3 DEF ArmStart
  <2>4. CASE DisarmValid BY <2>4 DEF DisarmValid
  <2>5. CASE DisarmStop
    <3>1. Published(stopQ) > 0 BY <1>0, LinkAssumption DEF Published
    <3>. QED BY <2>5, <3>1 DEF DisarmStop
  <2>6. CASE ModePursuit \/ ModeRtb \/ ModeReturn
    BY <2>6 DEF ModePursuit, ModeRtb, ModeReturn
  <2>7. CASE BaseLatitude \/ BaseLongitude
    BY <2>7 DEF BaseLatitude, BaseLongitude
  <2>. QED BY <1>3, <2>1, <2>2, <2>3, <2>4, <2>5, <2>6, <2>7 DEF LinkHandler
<1>. QED BY <1>1, <1>2, <1>3 DEF LinkStep, LinkNext

\* Nor does startCb get past its tests when the vehicle was disarmed and the
\* stop handled.
LEMMA ManagerKeepsStart ==
  ASSUME StartInv, ManagerNext
  PROVE  StartInv'
<1>0. UNCHANGED <<nodeVars, globalVars>> BY ManagerReadsGlobals
<1>1. UNCHANGED <<armValid, linkPc, lastCmd>>
  BY <1>0 DEF nodeVars, globalVars, originVars
<1> USE <1>1 DEF StartInv, StopFollows, linkVars, topicVars, callVars
<1>2. CASE TopicCallback
  <2>1. CASE GoalCb BY <2>1 DEF GoalCb
  <2>2. CASE RtbCb BY <2>2 DEF RtbCb
  <2>3. CASE StartCb BY <2>3 DEF StartCb
  <2>4. CASE StopCb BY <2>4 DEF StopCb
  <2>5. CASE FlushCb BY <2>5 DEF FlushCb
  <2>. QED BY <1>2, <2>1, <2>2, <2>3, <2>4, <2>5 DEF TopicCallback
<1>3. CASE ClientCallback
  BY <1>3 DEF ClientCallback, GoalResponse, Feedback, Result
<1>4. CASE RunningCallback
  <2>0. stopQ' = stopQ BY <1>4, RunningKeepsLink
  <2>1. CASE StartArmed BY <2>0, <2>1 DEF StartArmed, HaveOrigin, Return
  <2>2. CASE StartMode BY <2>0, <2>2 DEF StartMode, Return
  <2>3. CASE StartPose BY <2>0, <2>3 DEF StartPose, HaveOrigin, Return
  <2>4. CASE StartSend BY <2>0, <2>4 DEF StartSend, Return
  <2>5. CASE RtbPlan BY <2>5 DEF RtbPlan
  <2>6. CASE GoalLoad \/ GoalAdd \/ RtbPose \/ RtbBase \/ RtbLoad \/ RtbEnd
    BY <2>6 DEF GoalLoad, GoalAdd, RtbPose, RtbBase, RtbLoad, RtbEnd
  <2>. QED BY <1>4, <2>1, <2>2, <2>3, <2>4, <2>5, <2>6 DEF RunningCallback
<1>5. CASE CostmapCb BY <1>5 DEF CostmapCb
<1>. QED BY <1>2, <1>3, <1>4, <1>5 DEF ManagerNext

\* Whatever DISARM interrupts, once its stop has been handled no goal is sent
\* until the vehicle is armed again: for every ground station that disarms
\* with frames, as the raw byte publishes no stop.
THEOREM StoppedVehicleSendsNothing ==
  ASSUME "RAW_DISARM" \notin Commands
  PROVE  Spec => StoppedVehicleStays
<1>1. Init => StartInv BY DEF Init, LinkInit, ManagerInit, StartInv
<1>2. TypeInv /\ StartInv /\ [Next]_vars => StartInv'
  <2> SUFFICES ASSUME TypeInv, StartInv, [Next]_vars PROVE StartInv' OBVIOUS
  <2>1. CASE LinkStep
    <3>1. pc' = pc BY <2>1 DEF LinkStep, managerVars, callVars
    <3>2. LinkDataOK BY DEF TypeInv, TypeOK
    <3>. QED BY <2>1, <3>1, <3>2, LinkKeepsStop DEF StartInv
  <2>2. CASE ManagerStep BY <2>2, ManagerKeepsStart DEF ManagerStep
  <2>3. CASE ServerStep \/ UNCHANGED vars
    BY <2>3 DEF ServerStep, vars, linkVars, nodeVars, globalVars, originVars,
                topicVars, managerVars, callVars, StartInv, StopFollows
  <2>. QED BY <2>1, <2>2, <2>3 DEF Next
<1>3. TypeInv /\ StartInv /\ [Next]_vars
        => [Newest' > Newest =>
              armValid \/ stopQ > 0 \/ linkPc = "disarmStop"]_vars
  BY OnlyStartSendSends DEF StartSend, StartInv, StopFollows
<1>. QED BY <1>1, <1>2, <1>3, TypesAreKept, PTL DEF Spec, StoppedVehicleStays

-----------------------------------------------------------------------------
\* Between the two stores of SET_BASE the receiver reports nothing, so that
\* the half that is stored is half of the position the other half will be of.
BaseInv ==
  /\ gps \in Fixes \cup {Origin}
  /\ linkPc = "baseLongitude" => baseAt[1] = gps[1]
  /\ linkPc \notin {"baseLatitude", "baseLongitude"} =>
       baseAt \in Fixes \cup {Origin}

LEMMA BaseAlone == BaseInv /\ UNCHANGED <<nodeVars, globalVars>> => BaseInv'
BY DEF BaseInv, nodeVars, globalVars, baseVars

LEMMA LinkKeepsBase == BaseInv /\ LinkNext => BaseInv'
<1> SUFFICES ASSUME BaseInv, LinkNext PROVE BaseInv' OBVIOUS
<1> USE DEF BaseInv, Receive, Goes, globalVars, baseVars
<1>1. CASE OnNavsat BY <1>1 DEF OnNavsat
<1>2. CASE LinkCommand
  <2>1. CASE Arm BY <2>1 DEF Arm
  <2>2. CASE Disarm BY <2>2 DEF Disarm
  <2>3. CASE EnterMode BY <2>3 DEF EnterMode
  <2>4. CASE SetMode BY <2>4 DEF SetMode
  <2>5. CASE FramedWaypoint BY <2>5 DEF FramedWaypoint
  <2>6. CASE FramedSetBase BY <2>6 DEF FramedSetBase
  <2>7. CASE FramedFlush BY <2>7 DEF FramedFlush
  <2>. QED BY <1>2, <2>1, <2>2, <2>3, <2>4, <2>5, <2>6, <2>7 DEF LinkCommand
<1>3. CASE LinkHandler
  <2>1. CASE ArmLatitude \/ ArmLongitude BY <2>1 DEF ArmLatitude, ArmLongitude
  <2>2. CASE ArmValid \/ ArmStart BY <2>2 DEF ArmValid, ArmStart
  <2>3. CASE DisarmValid \/ DisarmStop BY <2>3 DEF DisarmValid, DisarmStop
  <2>4. CASE ModePursuit \/ ModeRtb \/ ModeReturn
    BY <2>4 DEF ModePursuit, ModeRtb, ModeReturn
  <2>5. CASE BaseLatitude BY <2>5 DEF BaseLatitude
  <2>6. CASE BaseLongitude
    <3>1. /\ linkPc = "baseLongitude" /\ linkPc' = "idle" /\ gps' = gps
          /\ baseAt' = <<baseAt[1], gps[2]>>
      BY <2>6 DEF BaseLongitude, StoreLongitude
    <3>2. gps \in Int \X Int BY LinkAssumption DEF Origin, Points
    <3>3. gps = <<gps[1], gps[2]>> BY <3>2
    <3>4. baseAt' = gps BY <3>1, <3>3
    <3>. QED BY <3>1, <3>4
  <2>. QED BY <1>3, <2>1, <2>2, <2>3, <2>4, <2>5, <2>6 DEF LinkHandler
<1>. QED BY <1>1, <1>2, <1>3 DEF LinkNext

LEMMA BaseInvHolds == Spec => []BaseInv
<1>1. Init => BaseInv BY DEF Init, LinkInit, BaseInv
<1>2. BaseInv /\ [Next]_vars => BaseInv'
  <2> SUFFICES ASSUME BaseInv, [Next]_vars PROVE BaseInv' OBVIOUS
  <2>1. CASE LinkStep BY <2>1, LinkKeepsBase DEF LinkStep
  <2>2. CASE ManagerStep
    BY <2>2, ManagerReadsGlobals, BaseAlone DEF ManagerStep
  <2>3. CASE ServerStep BY <2>3, BaseAlone DEF ServerStep, linkVars
  <2>4. CASE UNCHANGED vars BY <2>4, BaseAlone DEF vars, linkVars
  <2>. QED BY <2>1, <2>2, <2>3, <2>4 DEF Next
<1>. QED BY <1>1, <1>2, PTL DEF Spec

\* The base is a position the receiver reported as a whole, or the initial
\* zeros, once the two stores of SET_BASE are done.
THEOREM BaseStaysAPosition == Spec => []BaseIsAPosition
<1>1. BaseInv => BaseIsAPosition BY DEF BaseInv, BaseIsAPosition
<1>. QED BY <1>1, BaseInvHolds, PTL

-----------------------------------------------------------------------------
\* s is t with some elements left out.
Embeds(s, t) ==
  \E f \in [DOMAIN s -> DOMAIN t] :
    /\ \A i, j \in DOMAIN s : i < j => f[i] < f[j]
    /\ \A i \in DOMAIN s : s[i] = t[f[i]]

\* Every sequence embeds in itself.
LEMMA EmbedsSelf ==
  ASSUME NEW s \in Seq(Points)
  PROVE  Embeds(s, s)
<1> DEFINE f == [i \in DOMAIN s |-> i]
<1>1. f \in [DOMAIN s -> DOMAIN s] OBVIOUS
<1>2. \A i, j \in DOMAIN s : i < j => f[i] < f[j] OBVIOUS
<1>3. \A i \in DOMAIN s : s[i] = s[f[i]] OBVIOUS
<1>. QED BY <1>1, <1>2, <1>3 DEF Embeds

\* A goal appended to both lists keeps them embedded.
LEMMA EmbedsAppend ==
  ASSUME NEW s \in Seq(Points), NEW t \in Seq(Points), NEW p \in Points,
         Embeds(s, t)
  PROVE  Embeds(Append(s, p), Append(t, p))
<1>0. DOMAIN s = 1..Len(s) /\ DOMAIN t = 1..Len(t) OBVIOUS
<1>1. PICK f \in [1..Len(s) -> 1..Len(t)] :
        /\ \A i, j \in 1..Len(s) : i < j => f[i] < f[j]
        /\ \A i \in 1..Len(s) : s[i] = t[f[i]]
  BY <1>0, Zenon DEF Embeds
<1> DEFINE ss == Append(s, p)
           tt == Append(t, p)
           n  == Len(s) + 1
           ff == [i \in 1..n |-> IF i = n THEN Len(t) + 1 ELSE f[i]]
<1>2. /\ DOMAIN ss = 1..n /\ ss[n] = p
      /\ \A i \in 1..Len(s) : ss[i] = s[i]
      /\ DOMAIN tt = 1..(Len(t) + 1) /\ tt[Len(t) + 1] = p
      /\ \A i \in 1..Len(t) : tt[i] = t[i]
      /\ Len(s) \in Nat /\ Len(t) \in Nat
  OBVIOUS
<1> HIDE DEF ss, tt
<1>3. ff \in [1..n -> 1..(Len(t) + 1)] BY <1>2
<1>4. \A i, j \in 1..n : i < j => ff[i] < ff[j]
  <2> SUFFICES ASSUME NEW i \in 1..n, NEW j \in 1..n, i < j
               PROVE  ff[i] < ff[j]
    OBVIOUS
  <2>1. i \in 1..Len(s) /\ ff[i] = f[i] /\ f[i] \in 1..Len(t) BY <1>2
  <2>2. CASE j = n BY <1>2, <2>1, <2>2
  <2>3. CASE j # n
    <3>1. j \in 1..Len(s) /\ ff[j] = f[j] BY <1>2, <2>3
    <3>. QED BY <1>1, <2>1, <3>1
  <2>. QED BY <2>2, <2>3
<1>5. \A i \in 1..n : ss[i] = tt[ff[i]]
  <2> TAKE i \in 1..n
  <2>1. CASE i = n BY <1>2, <2>1
  <2>2. CASE i # n
    <3>1. i \in 1..Len(s) BY <1>2, <2>2
    <3>2. ff[i] = f[i] BY <2>2
    <3>3. f[i] \in 1..Len(t) BY <3>1
    <3>. QED BY <1>1, <1>2, <3>1, <3>2, <3>3
  <2>. QED BY <2>1, <2>2
<1>6. Embeds(ss, tt) BY <1>2, <1>3, <1>4, <1>5 DEF Embeds
<1>. QED BY <1>6 DEF ss, tt

\* A goal erased from the shorter list keeps them embedded.
LEMMA EmbedsRemoveAt ==
  ASSUME NEW s \in Seq(Points), NEW t \in Seq(Points), NEW k \in DOMAIN s,
         Embeds(s, t)
  PROVE  Embeds(RemoveAt(s, k), t)
<1>0. DOMAIN s = 1..Len(s) OBVIOUS
<1>1. PICK f \in [1..Len(s) -> DOMAIN t] :
        /\ \A i, j \in 1..Len(s) : i < j => f[i] < f[j]
        /\ \A i \in 1..Len(s) : s[i] = t[f[i]]
  BY <1>0, Zenon DEF Embeds
<1> DEFINE ss == RemoveAt(s, k)
           n  == Len(s) - 1
           ff == [i \in 1..n |-> f[IF i < k THEN i ELSE i + 1]]
<1>2. Len(s) \in Nat /\ k \in 1..Len(s) OBVIOUS
<1>3. /\ DOMAIN ss = 1..n
      /\ \A i \in 1..n : ss[i] = s[IF i < k THEN i ELSE i + 1]
  <2> DEFINE a == SubSeq(s, 1, k - 1)
             b == SubSeq(s, k + 1, Len(s))
  <2>1. /\ a \in Seq(Points) /\ Len(a) = k - 1
        /\ \A i \in 1..(k - 1) : a[i] = s[i]
    BY <1>2
  <2>2. /\ b \in Seq(Points) /\ Len(b) = Len(s) - k
        /\ \A i \in 1..(Len(s) - k) : b[i] = s[k + i]
    BY <1>2
  <2>3. ss = a \o b BY DEF RemoveAt
  <2> HIDE DEF a, b, ss
  <2>4. /\ DOMAIN ss = 1..(Len(a) + Len(b))
        /\ \A i \in 1..(Len(a) + Len(b)) :
             ss[i] = IF i <= Len(a) THEN a[i] ELSE b[i - Len(a)]
    BY <2>1, <2>2, <2>3
  <2>5. DOMAIN ss = 1..n BY <1>2, <2>1, <2>2, <2>4
  <2>6. ASSUME NEW i \in 1..n PROVE ss[i] = s[IF i < k THEN i ELSE i + 1]
    <3>1. CASE i < k
      <4>1. i \in 1..(k - 1) /\ i <= Len(a) BY <1>2, <2>1, <3>1
      <4>. QED BY <1>2, <2>1, <2>2, <2>4, <3>1, <4>1
    <3>2. CASE ~(i < k)
      <4>1. /\ ~(i <= Len(a)) /\ i - Len(a) \in 1..(Len(s) - k)
            /\ i \in 1..(Len(a) + Len(b)) /\ k + (i - Len(a)) = i + 1
        BY <1>2, <2>1, <2>2, <3>2
      <4>2. ss[i] = b[i - Len(a)] BY <2>4, <4>1
      <4>3. b[i - Len(a)] = s[i + 1] BY <2>2, <4>1
      <4>. QED BY <3>2, <4>2, <4>3
    <3>. QED BY <3>1, <3>2
  <2>. QED BY <2>5, <2>6
<1> HIDE DEF ss
<1>4. ff \in [1..n -> DOMAIN t] BY <1>2
<1>5. \A i, j \in 1..n : i < j => ff[i] < ff[j] BY <1>1, <1>2
<1>6. \A i \in 1..n : ss[i] = t[ff[i]] BY <1>1, <1>2, <1>3
<1>7. Embeds(ss, t) BY <1>3, <1>4, <1>5, <1>6 DEF Embeds
<1>. QED BY <1>7 DEF ss

\* A step of the manager keeps raw_goals_ embedded in goal_points_.
LEMMA ManagerKeepsEmbedding ==
  ASSUME TypeInv, Embeds(rawGoals, goalPoints), ManagerNext
  PROVE  Embeds(rawGoals, goalPoints)'
<1>0. /\ goalPoints \in Seq(Points) /\ rawGoals \in Seq(Points)
      /\ LinkDataOK /\ ManagerDataOK /\ ReadFits
  BY DEF TypeInv, TypeOK, ManagerDataOK
<1>s. ASSUME UNCHANGED listVars PROVE Embeds(rawGoals, goalPoints)'
  BY <1>s DEF listVars, Embeds
<1>e. ASSUME rawGoals' = goalPoints' PROVE Embeds(rawGoals, goalPoints)'
  <2>1. goalPoints' \in Seq(Points) BY <1>0, ListsType
  <2>2. Embeds(goalPoints', goalPoints') BY <2>1, EmbedsSelf
  <2>. QED BY <1>e, <2>2 DEF Embeds
<1>a. ASSUME NEW p \in Points, AddGoal(p)
      PROVE  Embeds(rawGoals, goalPoints)'
  <2>1. Embeds(Append(rawGoals, p), Append(goalPoints, p))
    BY <1>0, EmbedsAppend
  <2>. QED BY <1>a, <2>1 DEF AddGoal, Embeds
<1>1. CASE goalQ # <<>> /\ AddGoal(Head(goalQ))
  <2>1. Head(goalQ) \in Points
    <3>1. goalQ \in Seq(Points) BY <1>0 DEF LinkDataOK
    <3>. QED BY <1>1, <3>1
  <2>. QED BY <1>1, <1>a, <2>1
<1>2. CASE /\ pc = "goalAdd"
           /\ AddGoal(GpsToMap(<<read[1], read[2]>>, <<read[3], read[4]>>))
  BY <1>0, <1>2, <1>a, ConvertedType
<1>3. CASE RtbPlan BY <1>e, <1>3 DEF RtbPlan
<1>4. CASE ClearGoals BY <1>e, <1>4 DEF ClearGoals
<1>5. CASE \E i \in DOMAIN rawGoals :
             rawGoals' = RemoveAt(rawGoals, i) /\ goalPoints' = goalPoints
  <2>1. PICK i \in DOMAIN rawGoals :
          rawGoals' = RemoveAt(rawGoals, i) /\ goalPoints' = goalPoints
    BY <1>5
  <2>2. Embeds(RemoveAt(rawGoals, i), goalPoints) BY <1>0, EmbedsRemoveAt
  <2>. QED BY <2>1, <2>2 DEF Embeds
<1>. QED BY <1>s, <1>1, <1>2, <1>3, <1>4, <1>5, ListSteps

\* raw_goals_ is always goal_points_ with some goals left out: feedback of an
\* old mission, RTB, stop and flush never leave a goal in one list only.
THEOREM ActiveGoalsStayKnown == Spec => []ActiveGoalsAreKnownGoals
<1>1. Init => Embeds(rawGoals, goalPoints)
  <2>1. <<>> \in Seq(Points) OBVIOUS
  <2>2. Embeds(<<>>, <<>>) BY <2>1, EmbedsSelf
  <2>. QED BY <2>2 DEF Init, ManagerInit
<1>2. TypeInv /\ Embeds(rawGoals, goalPoints) /\ [Next]_vars
        => Embeds(rawGoals, goalPoints)'
  <2> SUFFICES ASSUME TypeInv, Embeds(rawGoals, goalPoints), [Next]_vars
               PROVE  Embeds(rawGoals, goalPoints)'
    OBVIOUS
  <2>s. ASSUME UNCHANGED listVars PROVE Embeds(rawGoals, goalPoints)'
    BY <2>s DEF listVars, Embeds
  <2> USE DEF managerVars
  <2>1. CASE LinkStep BY <2>s, <2>1 DEF LinkStep
  <2>2. CASE ManagerStep BY <2>2, ManagerKeepsEmbedding DEF ManagerStep
  <2>3. CASE ServerStep BY <2>s, <2>3 DEF ServerStep
  <2>4. CASE UNCHANGED vars BY <2>s, <2>4 DEF vars
  <2>. QED BY <2>1, <2>2, <2>3, <2>4 DEF Next
<1>3. Embeds(rawGoals, goalPoints) => ActiveGoalsAreKnownGoals
  BY DEF Embeds, ActiveGoalsAreKnownGoals
<1>. QED BY <1>1, <1>2, <1>3, TypesAreKept, PTL DEF Spec

(***************************************************************************)
(* The operator who waits (PatientOperator).  One command at a time is     *)
(* under way, and everything that waits to be handled is its doing; so a   *)
(* mission is only ever started when no other is out.                      *)
(***************************************************************************)
NoneOutstanding == \A g \in Goals : ~Outstanding(g)
NoneSent == \A g \in Goals : client[g] # "sent"

\* Both threads never run at once: a handler that goes on finds no callback
\* running, no message and no request that is not answered.
HandlerAlone ==
  linkPc # "idle" =>
    /\ pc = "idle" /\ NoneSent
    /\ startQ = 0 /\ stopQ = 0 /\ rtbQ = 0 /\ flushQ = 0 /\ goalQ = <<>>

\* What waits for a callback, or runs, belongs to the last command.
ArmSteps    == {"armLatitude", "armLongitude", "armValid", "armStart"}
ReturnSteps == {"rtbPose", "rtbBase", "rtbLoad", "rtbPlan", "rtbEnd"}
Returning   == rtbQ > 0 \/ nested \/ pc \in ReturnSteps
Starting ==
  \/ pc \in {"startPose", "startSend"}
  \/ pc \in {"startArmed", "startMode"} /\ ~nested

ArmIsAlone ==
  /\ startQ <= 1
  /\ startQ > 0 => lastCmd = "ARM" /\ pc = "idle" /\ NoneOutstanding
  /\ Starting => lastCmd = "ARM" /\ startQ = 0 /\ NoneOutstanding
  /\ linkPc \in ArmSteps /\ lastCmd = "ARM" => NoneOutstanding
  /\ linkPc = "armStart" => lastCmd = "ARM"
  /\ NoneSent \/ (lastCmd = "ARM" /\ startQ = 0 /\ pc = "idle")

ReturnIsAlone ==
  /\ Returning \/ linkPc = "modeReturn" => lastCmd = "BASE" /\ ~modePursuit
  /\ linkPc = "modeRtb" /\ lastCmd = "BASE" => ~modePursuit

OthersAreAlone ==
  /\ stopQ > 0 \/ linkPc = "disarmStop" => lastCmd = "DISARM"
  /\ flushQ > 0 => lastCmd = "FLUSH"
  /\ goalQ # <<>> \/ pc \in {"goalLoad", "goalAdd"} => lastCmd = "WAYPOINT"

OneCommandAtATime == ArmIsAlone /\ ReturnIsAlone /\ OthersAreAlone

OneMission == \A g \in Goals : Outstanding(g) => g = Newest

\* The manager only knows the answers the server has given, and only cancels
\* goals whose answer it knows.
AnswersKnown ==
  /\ \A g \in Goals : client[g] # "sent" => server[g] # "requested"
  /\ \A g \in cancels : client[g] # "sent"

MissionsInv == OneMission /\ AnswersKnown /\ MissionsAreTracked

CommandsDone ==
  /\ lastCmd = "DISARM" /\ stopQ = 0 /\ linkPc = "idle" =>
       \A g \in Goals : ~Stray(g)
  /\ lastCmd = "FLUSH" /\ flushQ = 0 => goalPoints = <<>> /\ rawGoals = <<>>

PatientInv == HandlerAlone /\ OneCommandAtATime /\ MissionsInv /\ CommandsDone

-----------------------------------------------------------------------------
\* Whatever leaves the goals and their handle alone keeps the missions.
LEMMA MissionsAlone ==
  ASSUME MissionsInv, UNCHANGED navVars, handle' = handle
  PROVE  MissionsInv' /\ (\A g \in Goals' : Stray(g)' => g \in Goals /\ Stray(g))
<1> USE DEF navVars, Goals, Newest, Outstanding, Stray
<1>1. OneMission' BY DEF MissionsInv, OneMission
<1>2. AnswersKnown' BY DEF MissionsInv, AnswersKnown
<1>3. MissionsAreTracked' BY DEF MissionsInv, MissionsAreTracked
<1>4. \A g \in Goals' : Stray(g)' => g \in Goals /\ Stray(g) OBVIOUS
<1>. QED BY <1>1, <1>2, <1>3, <1>4 DEF MissionsInv

\* A cancel request, made while no answer is awaited, leaves no goal that
\* nobody cancels.
LEMMA CancelLeavesNone ==
  ASSUME NavTypeOK, MissionsInv, HandleIsRight, NoneSent,
         CancelCurrent, UNCHANGED <<client, server>>
  PROVE  /\ MissionsInv'
         /\ \A g \in Goals' : ~Stray(g)'
         /\ \A g \in Goals : Stray(g) => g \in cancels'
<1> USE DEF Goals, Newest, Outstanding, NoGoal
<1>1. CASE handle # NoGoal
  <2>1. /\ cancels' = cancels \cup {handle} /\ handle' = NoGoal
        /\ client' = client /\ server' = server
    BY <1>1 DEF CancelCurrent, AsyncCancelGoal
  <2>2. client[handle] # "sent" BY <1>1 DEF HandleIsRight, Live
  <2>3. \A g \in Goals : Stray(g) => g = handle
    BY DEF MissionsInv, MissionsAreTracked, NoneSent
  <2>4. \A g \in Goals' : ~Stray(g)' BY <2>1, <2>3 DEF Stray
  <2>5. OneMission' BY <2>1 DEF MissionsInv, OneMission
  <2>6. AnswersKnown' BY <2>1, <2>2 DEF MissionsInv, AnswersKnown
  <2>7. MissionsAreTracked' BY <2>4 DEF MissionsAreTracked
  <2>. QED BY <2>1, <2>3, <2>4, <2>5, <2>6, <2>7 DEF MissionsInv
<1>2. CASE handle = NoGoal
  <2>1. /\ cancels' = cancels /\ handle' = NoGoal
        /\ client' = client /\ server' = server
    BY <1>2 DEF CancelCurrent
  <2>2. \A g \in Goals : g # NoGoal BY DEF NavTypeOK
  <2>3. \A g \in Goals : ~Stray(g)
    BY <1>2, <2>2 DEF MissionsInv, MissionsAreTracked, NoneSent
  <2>4. \A g \in Goals' : ~Stray(g)' BY <2>1, <2>3 DEF Stray
  <2>5. OneMission' BY <2>1 DEF MissionsInv, OneMission
  <2>6. AnswersKnown' BY <2>1 DEF MissionsInv, AnswersKnown
  <2>7. MissionsAreTracked' BY <2>4 DEF MissionsAreTracked
  <2>. QED BY <2>1, <2>3, <2>4, <2>5, <2>6, <2>7 DEF MissionsInv
<1>. QED BY <1>1, <1>2

\* A goal that is sent when none is out is the only one.
LEMMA SendIsAlone ==
  ASSUME NavTypeOK, MissionsInv, NoneOutstanding,
         AsyncSendGoal, UNCHANGED <<cancels, handle>>
  PROVE  MissionsInv'
<1> DEFINE n == Len(client) + 1
<1>1. /\ Len(client) \in Nat /\ Goals = 1..Len(client) /\ Len(server) = Len(client)
      /\ Goals' = 1..n /\ Newest' = n
      /\ client'[n] = "sent" /\ server'[n] = "requested"
      /\ \A g \in Goals : client'[g] = client[g] /\ server'[g] = server[g]
      /\ cancels' = cancels /\ handle' = handle /\ cancels \subseteq Goals
  BY DEF NavTypeOK, AsyncSendGoal, Goals, Newest, ClientStates, ServerStates
<1>2. \A g \in Goals' : g \in Goals \/ g = n BY <1>1
<1>3. \A g \in Goals : ~Outstanding(g)' BY <1>1 DEF NoneOutstanding, Outstanding
<1>4. OneMission' BY <1>1, <1>2, <1>3 DEF OneMission
<1>5. AnswersKnown' BY <1>1, <1>2 DEF MissionsInv, AnswersKnown
<1>6. MissionsAreTracked'
  BY <1>1, <1>2, <1>3 DEF MissionsAreTracked, Stray
<1>. QED BY <1>4, <1>5, <1>6 DEF MissionsInv

\* An answer or a result that the manager learns of.
LEMMA AnswerKeepsMissions ==
  ASSUME NavTypeOK, MissionsInv, NEW g \in Goals, GoalResponse(g)
  PROVE  MissionsInv'
<1>1. /\ client[g] = "sent" /\ server[g] # "requested"
      /\ server' = server /\ cancels' = cancels
      /\ \/ client' = [client EXCEPT ![g] = "refused"] /\ handle' = handle
         \/ client' = [client EXCEPT ![g] = "accepted"] /\ handle' = g
  BY DEF GoalResponse, GoalRefused, GoalAccepted, Answered
<1>2. /\ Goals' = Goals /\ Newest' = Newest
      /\ client'[g] \in {"refused", "accepted"}
      /\ \A h \in Goals : h # g => client'[h] = client[h]
  BY <1>1 DEF NavTypeOK, Goals, Newest
<1>3. cancels \subseteq Goals BY DEF NavTypeOK
<1>4. g = Newest BY <1>1 DEF MissionsInv, OneMission, Outstanding
<1>5. \A h \in Goals : h # g => ~Outstanding(h)' /\ ~Outstanding(h)
  BY <1>2, <1>4 DEF MissionsInv, OneMission, Outstanding
<1>6. OneMission' BY <1>2, <1>4, <1>5 DEF OneMission
<1>7. AnswersKnown' BY <1>1, <1>2, <1>3 DEF MissionsInv, AnswersKnown
<1>8. MissionsAreTracked'
  <2> SUFFICES ASSUME NEW h \in Goals, Stray(h)'
               PROVE  h = handle' \/ client'[h] = "sent"
    BY <1>2 DEF MissionsAreTracked
  <2>1. h = g BY <1>5 DEF Stray
  <2>2. client'[g] # "refused" BY <2>1 DEF Stray, Outstanding
  <2>. QED BY <1>1, <1>2, <2>1, <2>2 DEF NavTypeOK, Goals
<1>. QED BY <1>6, <1>7, <1>8 DEF MissionsInv

LEMMA ResultKeepsMissions ==
  ASSUME NavTypeOK, MissionsInv, NEW g \in Goals, Result(g)
  PROVE  MissionsInv' /\ \A h \in Goals' : ~Outstanding(h)'
<1>1. /\ client[g] = "accepted" /\ client' = [client EXCEPT ![g] = "done"]
      /\ server' = server /\ cancels' = cancels /\ server[g] # "requested"
  BY DEF Result, Ended
<1>2. /\ Goals' = Goals /\ Newest' = Newest /\ client'[g] = "done"
      /\ \A h \in Goals : h # g => client'[h] = client[h]
  BY <1>1 DEF NavTypeOK, Goals, Newest
<1>3. cancels \subseteq Goals BY DEF NavTypeOK
<1>4. g = Newest BY <1>1 DEF MissionsInv, OneMission, Outstanding
<1>5. \A h \in Goals' : ~Outstanding(h)'
  BY <1>2, <1>4 DEF MissionsInv, OneMission, Outstanding
<1>6. OneMission' BY <1>5 DEF OneMission
<1>7. AnswersKnown' BY <1>1, <1>2, <1>3 DEF MissionsInv, AnswersKnown
<1>8. MissionsAreTracked' BY <1>5 DEF MissionsAreTracked, Stray
<1>. QED BY <1>5, <1>6, <1>7, <1>8 DEF MissionsInv

\* Nav2 makes no goal one that nobody cancels: a cancel request is only ever
\* made for a goal it has answered.
LEMMA ServerKeepsMissions ==
  ASSUME NavTypeOK, MissionsInv, ServerNext, handle' = handle
  PROVE  /\ MissionsInv'
         /\ \A g \in Goals' : Stray(g)' => g \in Goals /\ Stray(g)
<1>0. client' = client /\ Goals' = Goals /\ Newest' = Newest
  BY DEF ServerNext, Goals, Newest
<1>t. DOMAIN server = Goals /\ cancels \subseteq Goals
  BY DEF NavTypeOK, Goals
<1>k. /\ \A h \in Goals : client[h] # "sent" => server[h] # "requested"
      /\ \A h \in cancels : client[h] # "sent"
  BY DEF MissionsInv, AnswersKnown
<1>1. /\ \A h \in Goals : server'[h] = "requested" => server[h] = "requested"
      /\ \A h \in Goals : Stray(h)' => Stray(h)
      /\ cancels' \subseteq cancels
  <2> PICK g \in Goals : ServerRefuses(g) \/ ServerAccepts(g)
                         \/ ServerCancels(g) \/ ServerEnds(g)
    BY DEF ServerNext
  <2> USE <1>0, <1>t DEF Stray, Outstanding
  <2>1. CASE ServerRefuses(g) BY <2>1 DEF ServerRefuses
  <2>2. CASE ServerAccepts(g) BY <2>2 DEF ServerAccepts, FirstRequest
  <2>3. CASE ServerCancels(g)
    <3>1. server[g] # "requested" BY <1>k, <2>3 DEF ServerCancels
    <3>. QED BY <2>3, <3>1 DEF ServerCancels
  <2>4. CASE ServerEnds(g)
    <3>1. PICK how \in {"succeeded", "aborted"} :
            server' = [server EXCEPT ![g] = how] /\ cancels' = cancels
      BY <2>4 DEF ServerEnds
    <3>. QED BY <3>1
  <2>. QED BY <2>1, <2>2, <2>3, <2>4
<1>2. OneMission' BY <1>0 DEF MissionsInv, OneMission, Outstanding
<1>3. AnswersKnown' BY <1>0, <1>1, <1>k DEF AnswersKnown
<1>4. MissionsAreTracked'
  BY <1>0, <1>1 DEF MissionsInv, MissionsAreTracked
<1>. QED BY <1>0, <1>1, <1>2, <1>3, <1>4 DEF MissionsInv
-----------------------------------------------------------------------------
\* What the beginning of a handler leaves to be done, when nothing else was.
LEMMA CommandEffect ==
  ASSUME Drained, LinkCommand
  PROVE  /\ startQ' = 0 /\ rtbQ' = 0 /\ stopQ' = 0
         /\ flushQ' > 0 <=> lastCmd' = "FLUSH"
         /\ goalQ' # <<>> => lastCmd' = "WAYPOINT"
         /\ lastCmd' = "DISARM" <=> linkPc' = "disarmValid" /\ lastCmd' # "RAW_DISARM"
         /\ linkPc' = "armStart" => lastCmd' = "ARM"
         /\ linkPc' # "idle" => flushQ' = 0 /\ goalQ' = <<>>
         /\ linkPc' \notin {"modeRtb", "modeReturn", "disarmStop"}
<1>0. /\ startQ = 0 /\ stopQ = 0 /\ rtbQ = 0 /\ flushQ = 0 /\ goalQ = <<>>
      /\ Published(0) = 1
  BY LinkAssumption DEF Drained, Published
<1> USE <1>0 DEF Receive, topicVars
<1>1. CASE Arm BY <1>1 DEF Arm
<1>2. CASE Disarm BY <1>2 DEF Disarm
<1>3. CASE EnterMode
  <2>1. PICK c \in DOMAIN ModeFrames : Receive(c, "modePursuit")
    BY <1>3 DEF EnterMode
  <2>2. DOMAIN ModeFrames = {"HOTAS", "SHADOW", "PURSUIT", "BASE"}
    BY DEF ModeFrames
  <2>3. lastCmd' \in {"HOTAS", "SHADOW", "PURSUIT", "BASE"}
    BY <2>1, <2>2 DEF Receive
  <2>4. linkPc' = "modePursuit" /\ UNCHANGED topicVars
    BY <1>3, <2>1 DEF EnterMode
  <2>. QED BY <2>3, <2>4
<1>4. CASE SetMode BY <1>4 DEF SetMode
<1>5. CASE FramedWaypoint BY <1>5 DEF FramedWaypoint
<1>6. CASE FramedSetBase BY <1>6 DEF FramedSetBase
<1>7. CASE FramedFlush BY <1>7 DEF FramedFlush
<1>. QED BY <1>1, <1>2, <1>3, <1>4, <1>5, <1>6, <1>7 DEF LinkCommand

\* Every command of the ground station is counted.
LEMMA CommandsCount ==
  ASSUME LinkDataOK, LinkCommand
  PROVE  cmds' # cmds
<1>1. \E c, next : Receive(c, next)
  BY DEF LinkCommand, Arm, Disarm, EnterMode, SetMode, FramedWaypoint,
         FramedSetBase, FramedFlush
<1>2. cmds \in Nat BY LinkAssumption DEF LinkDataOK
<1>. QED BY <1>1, <1>2 DEF Receive

\* A patient command finds everything handled.
LEMMA CommandIsAlone ==
  ASSUME LinkDataOK, NestedFits, PatientInv, Patience, LinkCommand,
         UNCHANGED <<managerVars, navVars>>
  PROVE  PatientInv'
<1>0. /\ Drained /\ NoneSent
      /\ lastCmd' = "ARM" => NoneOutstanding
  BY CommandsCount DEF Patience, Complete, NoneSent, NoneOutstanding
<1>1. /\ pc' = "idle" /\ ~nested' /\ handle' = handle /\ UNCHANGED navVars
      /\ goalPoints' = goalPoints /\ rawGoals' = rawGoals
      /\ NoneSent' /\ (NoneOutstanding => NoneOutstanding')
  BY <1>0 DEF Drained, NestedFits, managerVars, callVars, missionVars, listVars,
              navVars, NoneSent, NoneOutstanding, Goals, Outstanding
<1>2. HandlerAlone' BY <1>1, CommandEffect, <1>0 DEF HandlerAlone
<1>3. ArmIsAlone'
  BY <1>0, <1>1, CommandEffect DEF ArmIsAlone, Starting, ArmSteps
<1>4. ReturnIsAlone'
  BY <1>0, <1>1, CommandEffect DEF ReturnIsAlone, Returning, ReturnSteps
<1>5. OthersAreAlone' BY <1>0, <1>1, CommandEffect DEF OthersAreAlone
<1>6. MissionsInv' BY <1>1, MissionsAlone DEF PatientInv
<1>7. CommandsDone'
  <2>1. ~(lastCmd' = "DISARM" /\ linkPc' = "idle") BY <1>0, CommandEffect
  <2>2. ~(lastCmd' = "FLUSH" /\ flushQ' = 0) BY <1>0, CommandEffect
  <2>. QED BY <2>1, <2>2 DEF CommandsDone
<1>. QED BY <1>2, <1>3, <1>4, <1>5, <1>6, <1>7 DEF PatientInv, OneCommandAtATime

\* A handler that goes on leaves at most the message of its command.
LEMMA HandlerEffect ==
  ASSUME LinkHandler
  PROVE  /\ linkPc # "idle" /\ lastCmd' = lastCmd
         /\ UNCHANGED <<flushQ, goalQ>>
         /\ startQ' # startQ => linkPc = "armStart" /\ startQ' = Published(startQ)
         /\ stopQ' # stopQ => linkPc = "disarmStop"
         /\ linkPc = "disarmStop" => stopQ' = Published(stopQ)
         /\ rtbQ' # rtbQ => linkPc = "modeReturn"
         /\ linkPc' \in ArmSteps => linkPc \in ArmSteps
         /\ linkPc' = "armStart" => lastCmd = "ARM"
         /\ linkPc' = "disarmStop" => lastCmd = "DISARM"
         /\ linkPc = "disarmValid" /\ lastCmd = "DISARM" => linkPc' = "disarmStop"
         /\ linkPc' = "modeReturn" => lastCmd = "BASE" /\ linkPc = "modeRtb"
         /\ linkPc' = "modeRtb" /\ lastCmd = "BASE" => ~modePursuit'
         /\ linkPc' # "modeRtb" /\ modePursuit' => modePursuit
         /\ linkPc \in {"armStart", "disarmStop", "modeReturn"} => linkPc' = "idle"
<1> USE DEF Goes, ArmSteps, modeVars
<1>1. CASE ArmLatitude BY <1>1 DEF ArmLatitude
<1>2. CASE ArmLongitude BY <1>2 DEF ArmLongitude
<1>3. CASE ArmValid BY <1>3 DEF ArmValid
<1>4. CASE ArmStart BY <1>4 DEF ArmStart
<1>5. CASE DisarmValid BY <1>5 DEF DisarmValid
<1>6. CASE DisarmStop BY <1>6 DEF DisarmStop
<1>7. CASE ModePursuit BY <1>7 DEF ModePursuit
<1>8. CASE ModeRtb BY <1>8 DEF ModeRtb
<1>9. CASE ModeReturn BY <1>9 DEF ModeReturn
<1>10. CASE BaseLatitude BY <1>10 DEF BaseLatitude
<1>11. CASE BaseLongitude BY <1>11 DEF BaseLongitude
<1>. QED BY <1>1, <1>2, <1>3, <1>4, <1>5, <1>6, <1>7, <1>8, <1>9, <1>10,
            <1>11 DEF LinkHandler

\* A DISARM that is being handled has not left its stop yet.
DisarmComes ==
  linkPc # "idle" /\ lastCmd = "DISARM" =>
    linkPc \in {"disarmValid", "disarmStop"}

\* A patient handler goes on with nothing else under way.
LEMMA HandlerKeepsPatience ==
  ASSUME LinkDataOK, NestedFits, DisarmComes, PatientInv, LinkHandler,
         UNCHANGED <<managerVars, navVars>>
  PROVE  PatientInv'
<1>p. HandlerAlone /\ OneCommandAtATime /\ MissionsInv /\ CommandsDone
  BY DEF PatientInv
<1>0. /\ linkPc # "idle" /\ pc = "idle" /\ NoneSent /\ ~nested
      /\ startQ = 0 /\ stopQ = 0 /\ rtbQ = 0 /\ flushQ = 0 /\ goalQ = <<>>
      /\ Published(0) = 1
  BY <1>p, HandlerEffect, LinkAssumption DEF HandlerAlone, NestedFits, Published
<1>1. /\ pc' = "idle" /\ ~nested' /\ handle' = handle /\ UNCHANGED navVars
      /\ goalPoints' = goalPoints /\ rawGoals' = rawGoals
      /\ NoneSent' /\ (NoneOutstanding => NoneOutstanding')
  BY <1>0 DEF managerVars, callVars, missionVars, listVars, navVars, NoneSent,
              NoneOutstanding, Goals, Outstanding
<1>2. HandlerAlone'
  BY <1>0, <1>1, HandlerEffect DEF HandlerAlone, Published
<1>3. ArmIsAlone'
  BY <1>p, <1>0, <1>1, HandlerEffect
     DEF OneCommandAtATime, ArmIsAlone, Starting, ArmSteps
<1>4. ReturnIsAlone'
  BY <1>p, <1>0, <1>1, HandlerEffect
     DEF OneCommandAtATime, ReturnIsAlone, Returning, ReturnSteps
<1>5. OthersAreAlone'
  BY <1>p, <1>0, <1>1, HandlerEffect DEF OneCommandAtATime, OthersAreAlone
<1>6. MissionsInv' BY <1>p, <1>1, MissionsAlone
<1>7. CommandsDone'
  <2>1. ASSUME lastCmd' = "DISARM" PROVE linkPc' = "disarmStop" \/ stopQ' = 1
    BY <1>0, <2>1, HandlerEffect DEF DisarmComes
  <2>2. lastCmd' = "FLUSH" /\ flushQ' = 0 =>
          goalPoints' = <<>> /\ rawGoals' = <<>>
    BY <1>p, <1>0, <1>1, HandlerEffect DEF CommandsDone
  <2>. QED BY <2>1, <2>2 DEF CommandsDone
<1>. QED BY <1>2, <1>3, <1>4, <1>5, <1>6, <1>7 DEF PatientInv, OneCommandAtATime

\* A step that leaves alone what the invariant is about.
LEMMA PatientAlone ==
  ASSUME PatientInv, UNCHANGED <<linkPc, lastCmd, modePursuit, topicVars, pc,
                                 nested, listVars, handle, navVars>>
  PROVE  PatientInv'
<1>1. MissionsInv' /\ \A g \in Goals' : Stray(g)' => g \in Goals /\ Stray(g)
  BY MissionsAlone DEF PatientInv
<1>2. /\ NoneSent' <=> NoneSent
      /\ NoneOutstanding' <=> NoneOutstanding
  BY DEF navVars, NoneSent, NoneOutstanding, Outstanding, Goals
<1>3. HandlerAlone' BY <1>2 DEF PatientInv, HandlerAlone, topicVars
<1>4. OneCommandAtATime'
  BY <1>2 DEF PatientInv, OneCommandAtATime, ArmIsAlone, ReturnIsAlone,
              OthersAreAlone, Starting, Returning, topicVars
<1>5. CommandsDone' BY <1>1 DEF PatientInv, CommandsDone, topicVars, listVars
<1>. QED BY <1>1, <1>3, <1>4, <1>5 DEF PatientInv

-----------------------------------------------------------------------------
\* The callbacks of the manager, one by one.  While one runs, or has something
\* to do, no handler of the telemetry node does.
LEMMA TopicKeepsPatience ==
  ASSUME LinkDataOK, NavTypeOK, NestedFits, HandleIsRight, PatientInv,
         TopicCallback, UNCHANGED <<linkPc, lastCmd, modePursuit>>
  PROVE  PatientInv'
<1> USE DEF OneCommandAtATime, ArmIsAlone, ReturnIsAlone, OthersAreAlone,
            ArmSteps, Starting, Returning, ReturnSteps, CommandsDone, HandlerAlone
<1>p. HandlerAlone /\ OneCommandAtATime /\ MissionsInv /\ CommandsDone
  BY DEF PatientInv
<1>q. startQ \in Nat /\ stopQ \in Nat /\ rtbQ \in Nat /\ flushQ \in Nat
  BY LinkAssumption DEF LinkDataOK
<1>i. pc = "idle" /\ ~nested
  BY DEF TopicCallback, GoalCb, RtbCb, StartCb, StopCb, FlushCb, NestedFits
<1>n. ASSUME UNCHANGED navVars
      PROVE  /\ NoneSent' <=> NoneSent
             /\ NoneOutstanding' <=> NoneOutstanding
  BY <1>n DEF navVars, NoneSent, NoneOutstanding, Outstanding, Goals
<1> USE <1>i
<1>1. CASE GoalCb
  <2>1. /\ UNCHANGED <<startQ, stopQ, rtbQ, flushQ, handle>>
        /\ UNCHANGED navVars /\ goalQ # <<>>
        /\ pc' \in {"idle", "goalLoad"} /\ nested' = nested
    BY <1>1 DEF GoalCb, missionVars, callVars
  <2>2. lastCmd = "WAYPOINT" /\ linkPc = "idle" BY <1>p, <2>1
  <2>3. MissionsInv' BY <1>p, <2>1, MissionsAlone
  <2>4. HandlerAlone' /\ OneCommandAtATime' BY <1>p, <1>n, <2>1, <2>2
  <2>5. CommandsDone' BY <2>2
  <2>. QED BY <2>3, <2>4, <2>5 DEF PatientInv
<1>2. CASE RtbCb
  <2>1. /\ UNCHANGED <<startQ, stopQ, flushQ, goalQ, nested>>
        /\ UNCHANGED listVars
        /\ rtbQ > 0 /\ rtbQ' = rtbQ - 1
        /\ UNCHANGED <<client, server>>
    BY <1>2 DEF RtbCb
  <2>2. \/ CancelCurrent /\ pc' = "rtbPose"
        \/ UNCHANGED navVars /\ handle' = handle /\ pc' = pc
    BY <1>2 DEF RtbCb, navVars
  <2>3. lastCmd = "BASE" /\ ~modePursuit /\ NoneSent /\ linkPc = "idle"
    BY <1>p, <2>1
  <2>4. NoneSent' BY <2>1, <2>3 DEF NoneSent, Goals
  <2>5. MissionsInv'
    BY <1>p, <2>1, <2>2, <2>3, MissionsAlone, CancelLeavesNone
  <2>6. HandlerAlone' /\ OneCommandAtATime'
    BY <1>p, <1>q, <2>1, <2>2, <2>3, <2>4
  <2>7. CommandsDone' BY <2>3
  <2>. QED BY <2>5, <2>6, <2>7 DEF PatientInv
<1>3. CASE StartCb
  <2>1. /\ UNCHANGED <<stopQ, rtbQ, flushQ, goalQ, handle, nested>>
        /\ UNCHANGED navVars /\ UNCHANGED listVars
        /\ startQ > 0 /\ startQ' = startQ - 1
        /\ pc' = "startArmed"
    BY <1>3 DEF StartCb, missionVars
  <2>2. lastCmd = "ARM" /\ NoneOutstanding /\ NoneSent /\ linkPc = "idle"
    BY <1>p, <1>q, <2>1
  <2>3. MissionsInv' BY <1>p, <2>1, MissionsAlone
  <2>4. HandlerAlone' /\ OneCommandAtATime' BY <1>p, <1>q, <1>n, <2>1, <2>2
  <2>5. CommandsDone' BY <2>2
  <2>. QED BY <2>3, <2>4, <2>5 DEF PatientInv
<1>4. CASE StopCb
  <2>1. /\ UNCHANGED <<startQ, rtbQ, flushQ, goalQ, pc, nested, client, server>>
        /\ stopQ > 0 /\ stopQ' = stopQ - 1
        /\ CancelCurrent
    BY <1>4 DEF StopCb, callVars
  <2>2. lastCmd = "DISARM" /\ NoneSent /\ linkPc = "idle" BY <1>p, <2>1
  <2>3. MissionsInv' /\ \A g \in Goals' : ~Stray(g)'
    BY <1>p, <2>1, <2>2, CancelLeavesNone
  <2>4. NoneSent' BY <2>1, <2>2 DEF NoneSent, Goals
  <2>5. HandlerAlone' /\ OneCommandAtATime' BY <1>p, <1>q, <2>1, <2>2, <2>4
  <2>6. CommandsDone' BY <2>2, <2>3
  <2>. QED BY <2>3, <2>5, <2>6 DEF PatientInv
<1>5. CASE FlushCb
  <2>1. /\ UNCHANGED <<startQ, stopQ, rtbQ, goalQ, pc, nested, handle>>
        /\ UNCHANGED navVars /\ goalPoints' = <<>> /\ rawGoals' = <<>>
        /\ flushQ > 0 /\ flushQ' = flushQ - 1
    BY <1>5 DEF FlushCb, ClearGoals, missionVars, callVars
  <2>2. lastCmd = "FLUSH" /\ linkPc = "idle" BY <1>p, <2>1
  <2>3. MissionsInv' BY <1>p, <2>1, MissionsAlone
  <2>4. HandlerAlone' /\ OneCommandAtATime' BY <1>p, <1>q, <1>n, <2>1, <2>2
  <2>5. CommandsDone' BY <2>1, <2>2
  <2>. QED BY <2>3, <2>4, <2>5 DEF PatientInv
<1>. QED BY <1>1, <1>2, <1>3, <1>4, <1>5 DEF TopicCallback

LEMMA ClientKeepsPatience ==
  ASSUME NavTypeOK, PatientInv, ClientCallback,
         UNCHANGED <<linkPc, lastCmd, modePursuit>>
  PROVE  PatientInv'
<1> USE DEF OneCommandAtATime, ArmIsAlone, ReturnIsAlone, OthersAreAlone,
            ArmSteps, Starting, Returning, ReturnSteps, CommandsDone, HandlerAlone
<1>p. HandlerAlone /\ OneCommandAtATime /\ MissionsInv /\ CommandsDone
  BY DEF PatientInv
<1> PICK g \in Goals : GoalResponse(g) \/ Feedback(g) \/ Result(g)
  BY DEF ClientCallback
<1>0. UNCHANGED <<startQ, stopQ, rtbQ, flushQ, goalQ, pc, nested>>
  BY DEF GoalResponse, Feedback, Result, linkVars, topicVars, callVars
<1>1. CASE GoalResponse(g)
  <2>1. client[g] = "sent" BY <1>1 DEF GoalResponse, GoalRefused, GoalAccepted,
                                       Answered
  <2>2. lastCmd = "ARM" /\ startQ = 0 /\ pc = "idle" /\ linkPc = "idle"
        /\ ~nested
    BY <1>p, <2>1 DEF NoneSent
  <2>3. MissionsInv' BY <1>p, <1>1, AnswerKeepsMissions
  <2>4. HandlerAlone' /\ OneCommandAtATime' BY <1>p, <1>0, <2>2
  <2>5. CommandsDone' BY <2>2
  <2>. QED BY <2>3, <2>4, <2>5 DEF PatientInv
<1>2. CASE Feedback(g)
  <2>1. UNCHANGED <<handle, goalPoints>> /\ UNCHANGED navVars /\ rawGoals # <<>>
    BY <1>2 DEF Feedback, missionVars
  <2>2. MissionsInv' /\ \A h \in Goals' : Stray(h)' => h \in Goals /\ Stray(h)
    BY <1>p, <2>1, MissionsAlone
  <2>3. HandlerAlone' /\ OneCommandAtATime'
    BY <1>p, <1>0, <2>1 DEF navVars, NoneSent, NoneOutstanding, Outstanding, Goals
  <2>4. CommandsDone' BY <1>p, <1>0, <2>1, <2>2
  <2>. QED BY <2>2, <2>3, <2>4 DEF PatientInv
<1>3. CASE Result(g)
  <2>1. UNCHANGED listVars BY <1>3 DEF Result
  <2>2. MissionsInv' /\ \A h \in Goals' : ~Outstanding(h)'
    BY <1>p, <1>3, ResultKeepsMissions
  <2>3. NoneSent' /\ NoneOutstanding'
    BY <2>2 DEF NoneSent, NoneOutstanding, Outstanding
  <2>4. HandlerAlone' /\ OneCommandAtATime' BY <1>p, <1>0, <2>3
  <2>5. CommandsDone' BY <1>p, <1>0, <2>1, <2>2 DEF listVars, Stray
  <2>. QED BY <2>2, <2>4, <2>5 DEF PatientInv
<1>. QED BY <1>1, <1>2, <1>3

LEMMA RunningKeepsPatience ==
  ASSUME NavTypeOK, NestedFits, PatientInv, RunningCallback,
         UNCHANGED <<linkPc, lastCmd, modePursuit>>
  PROVE  PatientInv'
<1> USE DEF OneCommandAtATime, ArmIsAlone, ReturnIsAlone, OthersAreAlone,
            ArmSteps, Starting, Returning, ReturnSteps, CommandsDone, HandlerAlone
<1>p. HandlerAlone /\ OneCommandAtATime /\ MissionsInv /\ CommandsDone
  BY DEF PatientInv
<1>t. UNCHANGED <<startQ, stopQ, rtbQ, flushQ, goalQ>>
  BY RunningKeepsLink DEF linkVars, topicVars
<1>n. ASSUME UNCHANGED navVars
      PROVE  /\ NoneSent' <=> NoneSent
             /\ NoneOutstanding' <=> NoneOutstanding
  BY <1>n DEF navVars, NoneSent, NoneOutstanding, Outstanding, Goals
<1>i. pc # "idle"
  BY DEF RunningCallback, GoalLoad, GoalAdd, RtbPose, RtbBase, RtbLoad, RtbPlan,
         RtbEnd, StartArmed, StartMode, StartPose, StartSend
<1>1. CASE GoalLoad \/ GoalAdd
  <2>1. /\ UNCHANGED navVars /\ handle' = handle /\ nested' = nested
        /\ pc \in {"goalLoad", "goalAdd"} /\ pc' \in {"goalLoad", "goalAdd", "idle"}
    BY <1>1 DEF GoalLoad, GoalAdd, missionVars
  <2>2. lastCmd = "WAYPOINT" /\ linkPc = "idle" BY <1>p, <2>1
  <2>3. MissionsInv' BY <1>p, <2>1, MissionsAlone
  <2>4. HandlerAlone' /\ OneCommandAtATime' BY <1>p, <1>t, <1>n, <2>1, <2>2
  <2>5. CommandsDone' BY <2>2
  <2>. QED BY <2>3, <2>4, <2>5 DEF PatientInv
<1>2. CASE \/ RtbPose \/ RtbBase \/ RtbLoad \/ RtbPlan \/ RtbEnd
           \/ (StartArmed /\ nested) \/ (StartMode /\ nested)
  <2>1. pc \in ReturnSteps \/ nested
    BY <1>2 DEF RtbPose, RtbBase, RtbLoad, RtbPlan, RtbEnd
  <2>2. lastCmd = "BASE" /\ ~modePursuit /\ linkPc = "idle" /\ NoneSent
    BY <1>p, <1>i, <2>1
  <2>3. /\ UNCHANGED navVars /\ handle' = handle
        /\ \/ pc' = "idle" /\ nested' = nested
           \/ pc' = "idle" /\ nested' = FALSE
           \/ pc' \in ReturnSteps /\ nested' = nested
           \/ pc' \in {"startArmed", "startMode"} /\ nested'
    <3>1. CASE RtbPose \/ RtbBase \/ RtbLoad \/ RtbEnd
      BY <3>1 DEF RtbPose, RtbBase, RtbLoad, RtbEnd, missionVars
    <3>2. CASE RtbPlan BY <3>2 DEF RtbPlan
    <3>3. CASE (StartArmed /\ nested) \/ (StartMode /\ nested)
      BY <2>2, <3>3 DEF StartArmed, StartMode, Return, missionVars
    <3>. QED BY <1>2, <3>1, <3>2, <3>3
  <2>4. MissionsInv' BY <1>p, <2>3, MissionsAlone
  <2>5. HandlerAlone' /\ OneCommandAtATime' BY <1>p, <1>t, <1>n, <2>2, <2>3
  <2>6. CommandsDone' BY <2>2
  <2>. QED BY <2>4, <2>5, <2>6 DEF PatientInv
<1>3. CASE \/ (StartArmed /\ ~nested) \/ (StartMode /\ ~nested)
           \/ StartPose \/ StartSend
  <2>1. Starting
    BY <1>3 DEF StartArmed, StartMode, StartPose, StartSend
  <2>2. lastCmd = "ARM" /\ startQ = 0 /\ NoneOutstanding /\ linkPc = "idle"
        /\ ~nested
    BY <1>p, <1>i, <2>1
  <2>3. /\ pc' \in {"idle", "startMode", "startPose", "startSend"}
        /\ nested' = nested /\ handle' = handle
        /\ UNCHANGED navVars \/ (AsyncSendGoal /\ cancels' = cancels /\ pc' = "idle")
    <3>1. CASE StartSend BY <2>2, <3>1 DEF StartSend, Return, navVars
    <3>2. CASE StartArmed \/ StartMode \/ StartPose
      BY <2>2, <3>2 DEF StartArmed, StartMode, StartPose, Return, missionVars
    <3>. QED BY <1>3, <3>1, <3>2
  <2>4. MissionsInv' BY <1>p, <2>2, <2>3, MissionsAlone, SendIsAlone
  <2>5. NoneSent BY <2>2 DEF NoneOutstanding, NoneSent, Outstanding
  <2>6. HandlerAlone' /\ OneCommandAtATime' BY <1>p, <1>t, <1>n, <2>2, <2>3, <2>5
  <2>7. CommandsDone' BY <2>2
  <2>. QED BY <2>4, <2>6, <2>7 DEF PatientInv
<1>. QED BY <1>1, <1>2, <1>3 DEF RunningCallback

\* Every step of the process, of Nav2 and of the patient operator.
LEMMA PatientStep ==
  ASSUME TypeInv, HandleIsRight, NestedFits, DisarmComes, PatientInv,
         [PatientNext]_vars
  PROVE  PatientInv'
<1>0. LinkDataOK /\ NavTypeOK BY DEF TypeInv, TypeOK
<1>1. CASE Patience /\ LinkStep /\ LinkCommand
  BY <1>0, <1>1, CommandIsAlone DEF LinkStep
<1>2. CASE LinkStep /\ LinkHandler
  BY <1>0, <1>2, HandlerKeepsPatience DEF LinkStep
<1>3. CASE LinkStep /\ OnNavsat
  <2>1. UNCHANGED <<managerVars, navVars>> BY <1>3 DEF LinkStep
  <2>2. UNCHANGED <<linkPc, lastCmd, modePursuit, topicVars>>
    BY <1>3 DEF OnNavsat, globalVars, modeVars
  <2>. QED BY <2>1, <2>2, PatientAlone DEF managerVars, missionVars, callVars
<1>4. CASE ManagerStep
  <2>1. ManagerNext BY <1>4 DEF ManagerStep
  <2>2. UNCHANGED <<linkPc, lastCmd, modePursuit>>
    BY <2>1, ManagerReadsGlobals DEF nodeVars, globalVars, modeVars
  <2>3. CASE CostmapCb
    BY <2>2, <2>3, PatientAlone DEF CostmapCb, linkVars, missionVars, callVars
  <2>. QED BY <1>0, <2>1, <2>2, <2>3, TopicKeepsPatience, ClientKeepsPatience,
              RunningKeepsPatience DEF ManagerNext
<1>5. CASE ServerStep
  <2>1. ServerNext /\ UNCHANGED linkVars /\ UNCHANGED managerVars
    BY <1>5 DEF ServerStep
  <2>2. /\ UNCHANGED <<linkPc, lastCmd, modePursuit>> /\ UNCHANGED topicVars
        /\ UNCHANGED <<pc, nested>> /\ UNCHANGED listVars /\ handle' = handle
    BY <2>1 DEF linkVars, nodeVars, globalVars, modeVars, managerVars,
                missionVars, callVars
  <2>3. MissionsInv' /\ \A g \in Goals' : Stray(g)' => g \in Goals /\ Stray(g)
    BY <1>0, <2>1, <2>2, ServerKeepsMissions DEF PatientInv
  <2>4. client' = client BY <2>1 DEF ServerNext
  <2>5. /\ NoneSent' <=> NoneSent
        /\ NoneOutstanding' <=> NoneOutstanding
    BY <2>4 DEF NoneSent, NoneOutstanding, Outstanding, Goals
  <2>6. HandlerAlone' BY <2>2, <2>5 DEF PatientInv, HandlerAlone, topicVars
  <2>7. OneCommandAtATime'
    BY <2>2, <2>5 DEF PatientInv, OneCommandAtATime, ArmIsAlone, ReturnIsAlone,
                      OthersAreAlone, Starting, Returning, topicVars
  <2>8. CommandsDone'
    BY <2>2, <2>3 DEF PatientInv, CommandsDone, topicVars, listVars
  <2>. QED BY <2>3, <2>6, <2>7, <2>8 DEF PatientInv
<1>6. CASE UNCHANGED vars
  BY <1>6, PatientAlone DEF vars, linkVars, nodeVars, globalVars, modeVars,
                            managerVars, missionVars, callVars
<1>. QED BY <1>1, <1>2, <1>3, <1>4, <1>5, <1>6 DEF PatientNext, Next, LinkStep,
                                                   LinkNext

LEMMA PatientStart == Init => PatientInv
<1> SUFFICES ASSUME Init PROVE PatientInv OBVIOUS
<1> USE DEF Init, LinkInit, ManagerInit, NavInit, Goals, Outstanding
<1>1. HandlerAlone BY DEF HandlerAlone
<1>2. OneCommandAtATime
  BY DEF OneCommandAtATime, ArmIsAlone, ReturnIsAlone, OthersAreAlone, Starting,
         Returning, ReturnSteps, ArmSteps, NoneSent, NoneOutstanding
<1>3. MissionsInv
  BY DEF MissionsInv, OneMission, AnswersKnown, MissionsAreTracked
<1>4. CommandsDone BY DEF CommandsDone
<1>. QED BY <1>1, <1>2, <1>3, <1>4 DEF PatientInv

\* What the patient invariant rests on holds of every operator.
LEMMA DisarmCommand == DisarmComes /\ [Next]_vars => DisarmComes'
<1> SUFFICES ASSUME DisarmComes, [Next]_vars PROVE DisarmComes' OBVIOUS
<1> USE DEF DisarmComes, linkVars, nodeVars
<1>1. CASE OnNavsat BY <1>1 DEF OnNavsat
<1>2. CASE LinkCommand
  <2> USE DEF Receive
  <2>1. CASE Arm BY <2>1 DEF Arm
  <2>2. CASE Disarm BY <2>2 DEF Disarm
  <2>3. CASE EnterMode
    <3>1. PICK c \in DOMAIN ModeFrames : Receive(c, "modePursuit")
      BY <2>3 DEF EnterMode
    <3>2. DOMAIN ModeFrames = {"HOTAS", "SHADOW", "PURSUIT", "BASE"}
      BY DEF ModeFrames
    <3>. QED BY <3>1, <3>2
  <2>4. CASE SetMode BY <2>4 DEF SetMode
  <2>5. CASE FramedWaypoint BY <2>5 DEF FramedWaypoint
  <2>6. CASE FramedSetBase BY <2>6 DEF FramedSetBase
  <2>7. CASE FramedFlush BY <2>7 DEF FramedFlush
  <2>. QED BY <1>2, <2>1, <2>2, <2>3, <2>4, <2>5, <2>6, <2>7 DEF LinkCommand
<1>3. CASE LinkHandler
  <2> USE DEF Goes
  <2>1. CASE ArmLatitude \/ ArmLongitude BY <2>1 DEF ArmLatitude, ArmLongitude
  <2>2. CASE ArmValid \/ ArmStart BY <2>2 DEF ArmValid, ArmStart
  <2>3. CASE DisarmValid \/ DisarmStop BY <2>3 DEF DisarmValid, DisarmStop
  <2>4. CASE ModePursuit \/ ModeRtb \/ ModeReturn
    BY <2>4 DEF ModePursuit, ModeRtb, ModeReturn
  <2>5. CASE BaseLatitude \/ BaseLongitude
    BY <2>5 DEF BaseLatitude, BaseLongitude
  <2>. QED BY <1>3, <2>1, <2>2, <2>3, <2>4, <2>5 DEF LinkHandler
<1>4. CASE ManagerStep BY <1>4, ManagerReadsGlobals DEF ManagerStep
<1>5. CASE ServerStep BY <1>5 DEF ServerStep
<1>6. CASE UNCHANGED vars BY <1>6 DEF vars
<1>. QED BY <1>1, <1>2, <1>3, <1>4, <1>5, <1>6 DEF Next, LinkStep, LinkNext

LEMMA DisarmComesHolds == Spec => []DisarmComes
<1>1. Init => DisarmComes BY DEF Init, LinkInit, DisarmComes
<1>. QED BY <1>1, DisarmCommand, PTL DEF Spec

LEMMA PatientIsSpec == PatientSpec => Spec
<1>1. [PatientNext]_vars => [Next]_vars BY DEF PatientNext
<1>. QED BY <1>1, PTL DEF PatientSpec, Spec

PatientFacts == TypeInv /\ HandleIsRight /\ NestedFits /\ PatientInv

LEMMA PatientInvHolds == PatientSpec => []PatientFacts
<1>1. PatientFacts /\ DisarmComes /\ [PatientNext]_vars => PatientInv'
  BY PatientStep DEF PatientFacts
<1>. QED BY <1>1, PatientIsSpec, PatientStart, TypesAreKept, HandleStaysRight,
            NestedHolds, DisarmComesHolds, PTL DEF PatientSpec, PatientFacts

\* With an operator who waits, the manager always holds the handle of a goal
\* that Nav2 drives to and nobody cancelled, or is about to get it.
THEOREM PatientMissionsAreTracked == PatientSpec => []MissionsAreTracked
<1>1. PatientFacts => MissionsAreTracked BY DEF PatientFacts, PatientInv, MissionsInv
<1>. QED BY <1>1, PatientInvHolds, PTL

\* With an operator who waits, a DISARM that is handled leaves Nav2 no goal
\* that nobody asked it to cancel.
THEOREM PatientDisarmStops == PatientSpec => []DisarmStops
<1>1. PatientFacts => DisarmStops
  BY DEF PatientFacts, PatientInv, CommandsDone, DisarmStops, Drained
<1>. QED BY <1>1, PatientInvHolds, PTL

\* With an operator who waits, a flush that is handled leaves no goal.
THEOREM PatientFlushClears == PatientSpec => []FlushClears
<1>1. PatientFacts => FlushClears
  BY DEF PatientFacts, PatientInv, CommandsDone, FlushClears, Drained
<1>. QED BY <1>1, PatientInvHolds, PTL

\* With an operator who waits, the cancel request of rtbCb reaches every goal
\* that is out.
THEOREM PatientRtbCancels == PatientSpec => RtbCancelsCurrent
<1>1. ASSUME PatientFacts, [PatientNext]_vars,
             pc = "idle", pc' = "rtbPose", NEW g \in Goals, Stray(g)
      PROVE  g \in cancels'
  <2>0. NavTypeOK /\ HandleIsRight /\ PatientInv
    BY <1>1 DEF PatientFacts, TypeInv, TypeOK
  <2>1. RtbCb
    <3> USE <1>1 DEF managerVars, callVars
    <3>1. ~LinkStep BY DEF LinkStep
    <3>2. ~ServerStep BY DEF ServerStep
    <3>3. ~UNCHANGED vars BY DEF vars
    <3>4. ~ClientCallback
      BY DEF ClientCallback, GoalResponse, Feedback, Result
    <3>5. ~RunningCallback
      BY DEF RunningCallback, GoalLoad, GoalAdd, RtbPose, RtbBase, RtbLoad,
             RtbPlan, RtbEnd, StartArmed, StartMode, StartPose, StartSend
    <3>6. ~CostmapCb BY DEF CostmapCb
    <3>7. TopicCallback
      BY <3>1, <3>2, <3>3, <3>4, <3>5, <3>6
         DEF PatientNext, Next, ManagerStep, ManagerNext
    <3>. QED BY <3>7 DEF TopicCallback, GoalCb, StartCb, StopCb, FlushCb
  <2>2. rtbQ > 0 /\ CancelCurrent /\ UNCHANGED <<client, server>>
    BY <1>1, <2>1 DEF RtbCb
  <2>3. NoneSent
    BY <2>0, <2>2 DEF PatientInv, OneCommandAtATime, ArmIsAlone, ReturnIsAlone,
                      Returning
  <2>. QED BY <1>1, <2>0, <2>2, <2>3, CancelLeavesNone DEF PatientInv
<1>2. PatientFacts /\ [PatientNext]_vars
        => [pc = "idle" /\ pc' = "rtbPose" =>
              \A g \in Goals : Stray(g) => g \in cancels']_vars
  BY <1>1
<1>. QED BY <1>2, PatientInvHolds, PTL DEF PatientSpec, RtbCancelsCurrent

-----------------------------------------------------------------------------
(***************************************************************************)
(* Whole goals.  The map origin and the base are two coordinates each,     *)
(* stored and loaded one by one.  What is stored is whole at the end, for  *)
(* every operator; what is loaded is, for one who waits, because no        *)
(* handler stores while a callback loads.                                  *)
(***************************************************************************)
Wholes == {p \in Points : Whole(p)}

\* ARM stores the two halves of one fix, and declares them valid afterwards.
OriginIsWhole ==
  /\ haveFix => gps \in Fixes
  /\ armValid => armedAt \in Fixes
  /\ linkPc \in {"armLatitude", "armLongitude", "armValid"} => gps \in Fixes
  /\ linkPc \in {"armLatitude", "armLongitude"} => ~armValid
  /\ linkPc = "armLongitude" => armedAt[1] = gps[1]
  /\ linkPc = "armValid" => armedAt = gps

LEMMA LinkKeepsOrigin == OriginIsWhole /\ LinkNext => OriginIsWhole'
<1> SUFFICES ASSUME OriginIsWhole, LinkNext PROVE OriginIsWhole' OBVIOUS
<1> USE DEF OriginIsWhole, Receive, Goes, globalVars, originVars
<1>1. CASE OnNavsat BY <1>1 DEF OnNavsat
<1>2. CASE LinkCommand
  <2>1. CASE Arm BY <2>1 DEF Arm
  <2>2. CASE Disarm BY <2>2 DEF Disarm
  <2>3. CASE EnterMode BY <2>3 DEF EnterMode
  <2>4. CASE SetMode BY <2>4 DEF SetMode
  <2>5. CASE FramedWaypoint BY <2>5 DEF FramedWaypoint
  <2>6. CASE FramedSetBase BY <2>6 DEF FramedSetBase
  <2>7. CASE FramedFlush BY <2>7 DEF FramedFlush
  <2>. QED BY <1>2, <2>1, <2>2, <2>3, <2>4, <2>5, <2>6, <2>7 DEF LinkCommand
<1>3. CASE LinkHandler
  <2>1. CASE ArmLatitude BY <2>1 DEF ArmLatitude
  <2>2. CASE ArmLongitude
    <3>1. /\ linkPc = "armLongitude" /\ linkPc' = "armValid"
          /\ UNCHANGED <<haveFix, gps, armValid>>
          /\ armedAt' = <<armedAt[1], gps[2]>>
      BY <2>2 DEF ArmLongitude
    <3>2. gps \in Int \X Int BY <3>1, LinkAssumption DEF Points
    <3>3. gps = <<gps[1], gps[2]>> BY <3>2
    <3>4. armedAt' = gps BY <3>1, <3>3
    <3>. QED BY <3>1, <3>4
  <2>3. CASE ArmValid BY <2>3 DEF ArmValid
  <2>4. CASE ArmStart BY <2>4 DEF ArmStart
  <2>5. CASE DisarmValid BY <2>5 DEF DisarmValid, DropOrigin
  <2>6. CASE DisarmStop BY <2>6 DEF DisarmStop
  <2>7. CASE ModePursuit \/ ModeRtb \/ ModeReturn
    BY <2>7 DEF ModePursuit, ModeRtb, ModeReturn
  <2>8. CASE BaseLatitude \/ BaseLongitude
    BY <2>8 DEF BaseLatitude, BaseLongitude
  <2>. QED BY <1>3, <2>1, <2>2, <2>3, <2>4, <2>5, <2>6, <2>7, <2>8
           DEF LinkHandler
<1>. QED BY <1>1, <1>2, <1>3 DEF LinkNext

LEMMA OriginIsWholeHolds == Spec => []OriginIsWhole
<1> USE DEF OriginIsWhole
<1>1. Init => OriginIsWhole BY DEF Init, LinkInit
<1>2. OriginIsWhole /\ [Next]_vars => OriginIsWhole'
  <2> SUFFICES ASSUME OriginIsWhole, [Next]_vars PROVE OriginIsWhole' OBVIOUS
  <2> USE DEF linkVars, nodeVars, globalVars, originVars
  <2>1. CASE LinkStep BY <2>1, LinkKeepsOrigin DEF LinkStep
  <2>2. CASE ManagerStep BY <2>2, ManagerReadsGlobals DEF ManagerStep
  <2>3. CASE ServerStep BY <2>3 DEF ServerStep
  <2>4. CASE UNCHANGED vars BY <2>4 DEF vars
  <2>. QED BY <2>1, <2>2, <2>3, <2>4 DEF Next
<1>. QED BY <1>1, <1>2, PTL DEF Spec

-----------------------------------------------------------------------------
\* What a callback has loaded belongs to one base and one map origin.
LoadsAreWhole ==
  /\ pc \in {"goalLoad", "goalAdd"} =>
       /\ <<read[1], read[2]>> \in Waypoints
       /\ LooksLikeGps(<<read[1], read[2]>>)
  /\ pc = "goalLoad" /\ Len(read) = 3 => read[3] = baseAt[1]
  /\ pc = "goalAdd" => read[3] = baseAt[1] /\ read[4] = baseAt[2]
  /\ pc \in {"rtbBase", "rtbLoad", "rtbPlan"} => armValid
  /\ pc \in {"rtbLoad", "rtbPlan"} =>
       \A i \in 1..Len(read) : read[i] = RtbLoads[i]

ListsAreWhole ==
  /\ goalQ \in Seq(Waypoints)
  /\ goalPoints \in Seq(Wholes) /\ rawGoals \in Seq(Wholes)

\* A callback that runs finds no handler at work, and the operator waiting.
LEMMA CallbackAlone ==
  ASSUME PatientFacts, [PatientNext]_vars, pc # "idle"
  PROVE  linkPc = "idle" /\ UNCHANGED <<originVars, baseVars>>
<1>0. linkPc = "idle" BY DEF PatientFacts, PatientInv, HandlerAlone
<1> USE DEF linkVars, globalVars
<1>1. CASE LinkStep /\ LinkCommand
  <2>0. LinkDataOK BY DEF PatientFacts, TypeInv, TypeOK
  <2>2. cmds' # cmds BY <1>1, <2>0, CommandsCount
  <2>3. cmds' # cmds => ~UNCHANGED vars BY DEF vars, linkVars, nodeVars
  <2>1. Drained BY <2>2, <2>3 DEF PatientNext, Patience, Complete
  <2>. QED BY <2>1 DEF Drained
<1>2. CASE LinkStep /\ LinkHandler BY <1>0, <1>2, HandlerEffect
<1>3. CASE LinkStep /\ OnNavsat BY <1>0, <1>3 DEF OnNavsat
<1>4. CASE ManagerStep BY <1>0, <1>4, ManagerReadsGlobals DEF ManagerStep
<1>5. CASE ServerStep BY <1>0, <1>5 DEF ServerStep
<1>6. CASE UNCHANGED vars BY <1>0, <1>6 DEF vars
<1>. QED BY <1>1, <1>2, <1>3, <1>4, <1>5, <1>6
         DEF PatientNext, Next, LinkStep, LinkNext

\* What is loaded goes behind what was loaded.
LEMMA LoadedBehind ==
  ASSUME NEW r \in Seq(Int), NEW x \in Int
  PROVE  /\ Len(Append(r, x)) = Len(r) + 1
         /\ Append(r, x)[Len(r) + 1] = x
         /\ \A i \in 1..Len(r) : Append(r, x)[i] = r[i]
OBVIOUS

LEMMA ThirdLoaded ==
  ASSUME NEW r \in Seq(Int), NEW x \in Int, Len(r) = 2
  PROVE  /\ Len(Append(r, x)) = 3 /\ Append(r, x)[3] = x
         /\ Append(r, x)[1] = r[1] /\ Append(r, x)[2] = r[2]
<1> DEFINE s == Append(r, x)
<1>1. /\ Len(s) = Len(r) + 1 /\ s[Len(r) + 1] = x
      /\ \A i \in 1..Len(r) : s[i] = r[i]
  BY LoadedBehind
<1> HIDE DEF s
<1>2. Len(s) = 2 + 1 /\ s[2 + 1] = x /\ \A i \in 1..2 : s[i] = r[i]
  BY <1>1, Zenon
<1>3. Len(s) = 3 /\ s[3] = x /\ s[1] = r[1] /\ s[2] = r[2] BY <1>2
<1>. QED BY <1>3 DEF s

LEMMA FourthLoaded ==
  ASSUME NEW r \in Seq(Int), NEW x \in Int, Len(r) = 3
  PROVE  /\ Len(Append(r, x)) = 4 /\ Append(r, x)[4] = x
         /\ Append(r, x)[1] = r[1] /\ Append(r, x)[2] = r[2]
         /\ Append(r, x)[3] = r[3]
<1> DEFINE s == Append(r, x)
<1>1. /\ Len(s) = Len(r) + 1 /\ s[Len(r) + 1] = x
      /\ \A i \in 1..Len(r) : s[i] = r[i]
  BY LoadedBehind
<1> HIDE DEF s
<1>2. Len(s) = 3 + 1 /\ s[3 + 1] = x /\ \A i \in 1..3 : s[i] = r[i]
  BY <1>1, Zenon
<1>3. Len(s) = 4 /\ s[4] = x /\ s[1] = r[1] /\ s[2] = r[2] /\ s[3] = r[3]
  BY <1>2
<1>. QED BY <1>3 DEF s

\* goalCb loads the base it converts with, and rtbCb the origin and the base,
\* while neither changes.
LEMMA LoadsStayWhole ==
  ASSUME PatientFacts, LoadsAreWhole, ListsAreWhole, [PatientNext]_vars
  PROVE  LoadsAreWhole'
<1>t. /\ read \in Seq(Int) /\ Len(read) \in Nat /\ ReadFits
      /\ baseAt \in Points /\ armedAt \in Points
  BY DEF PatientFacts, TypeInv, TypeOK, ManagerDataOK, LinkDataOK
<1>q. pc # "idle" => UNCHANGED <<armValid, armedAt, baseAt, baseSet>>
  BY CallbackAlone DEF originVars, baseVars
<1>s. ASSUME UNCHANGED callVars PROVE LoadsAreWhole'
  BY <1>q, <1>s DEF LoadsAreWhole, callVars, RtbLoads
<1>m. ManagerNext \/ UNCHANGED callVars
  BY DEF PatientNext, Next, LinkStep, ManagerStep, ServerStep, vars, managerVars
<1>r. ASSUME pc' \notin {"goalLoad", "goalAdd", "rtbBase", "rtbLoad", "rtbPlan"}
      PROVE  LoadsAreWhole'
  BY <1>r DEF LoadsAreWhole
<1>1. CASE GoalCb
  <2>1. CASE pc' = "goalLoad"
    <3>1. /\ goalQ # <<>> /\ read' = Head(goalQ) /\ LooksLikeGps(Head(goalQ))
      BY <1>1, <2>1 DEF GoalCb, callVars
    <3>2. Head(goalQ) \in Waypoints BY <3>1 DEF ListsAreWhole
    <3>3. Head(goalQ) \in Int \X Int BY <3>2, LinkAssumption DEF Points
    <3>4. PICK x \in Int, y \in Int : read' = <<x, y>> BY <3>1, <3>3
    <3>5. Len(<<x, y>>) = 2 /\ <<x, y>>[1] = x /\ <<x, y>>[2] = y OBVIOUS
    <3>6. Len(read') = 2 /\ <<read'[1], read'[2]>> = Head(goalQ)
      BY <3>1, <3>4, <3>5
    <3>. QED BY <2>1, <3>1, <3>2, <3>6 DEF LoadsAreWhole
  <2>2. CASE pc' # "goalLoad" BY <1>s, <1>1, <2>2 DEF GoalCb
  <2>. QED BY <2>1, <2>2
<1>2. CASE GoalLoad
  <2>1. /\ pc = "goalLoad" /\ Len(read) \in {2, 3}
        /\ read' = Append(read, baseAt[Len(read) - 1])
        /\ pc' = IF Len(read') = 4 THEN "goalAdd" ELSE "goalLoad"
        /\ baseAt' = baseAt
    BY <1>t, <1>q, <1>2 DEF GoalLoad, ReadFits
  <2>2. CASE Len(read) = 2
    <3>1. read' = Append(read, baseAt[1]) /\ baseAt[1] \in Int
      BY <1>t, <2>1, <2>2 DEF Points
    <3>2. /\ Len(read') = 3 /\ read'[3] = baseAt[1]
          /\ read'[1] = read[1] /\ read'[2] = read[2]
      BY <1>t, <2>2, <3>1, ThirdLoaded
    <3>. QED BY <2>1, <3>2 DEF LoadsAreWhole
  <2>3. CASE Len(read) = 3
    <3>1. read' = Append(read, baseAt[2]) /\ baseAt[2] \in Int
      BY <1>t, <2>1, <2>3 DEF Points
    <3>2. /\ Len(read') = 4 /\ read'[4] = baseAt[2] /\ read'[3] = read[3]
          /\ read'[1] = read[1] /\ read'[2] = read[2]
      BY <1>t, <2>3, <3>1, FourthLoaded
    <3>. QED BY <2>1, <2>3, <3>2 DEF LoadsAreWhole
  <2>. QED BY <2>1, <2>2, <2>3
<1>3. CASE RtbPose
  BY <1>q, <1>3, <1>r DEF RtbPose, HaveOrigin, LoadsAreWhole
<1>4. CASE RtbBase
  <2>1. read = <<>> /\ read' = read /\ armValid'
    BY <1>t, <1>q, <1>4 DEF RtbBase, ReadFits, LoadsAreWhole
  <2>2. pc' \in {"rtbLoad", "rtbPlan"} BY <1>4 DEF RtbBase
  <2>3. 1..Len(read') = {} BY <2>1
  <2>. QED BY <2>1, <2>2, <2>3 DEF LoadsAreWhole
<1>5. CASE RtbLoad
  <2>1. /\ pc = "rtbLoad" /\ pc' \in {"rtbLoad", "rtbPlan"}
        /\ read' = Append(read, RtbLoads[Len(read) + 1])
        /\ RtbLoads' = RtbLoads /\ armValid'
    BY <1>q, <1>5 DEF RtbLoad, RtbLoads, LoadsAreWhole
  <2>2. \A i \in 1..Len(read) : read[i] = RtbLoads[i]
    BY <2>1 DEF LoadsAreWhole
  <2>3. \A i \in 1..Len(read') : read'[i] = RtbLoads[i]
    BY <1>t, <2>1, <2>2
  <2>. QED BY <2>1, <2>3 DEF LoadsAreWhole
<1>6. CASE ManagerNext /\ ~GoalCb /\ ~GoalLoad /\ ~RtbPose /\ ~RtbBase /\ ~RtbLoad
  <2> USE <1>6
  <2>1. CASE TopicCallback
    BY <1>r, <2>1 DEF TopicCallback, RtbCb, StartCb, StopCb, FlushCb, callVars
  <2>2. CASE ClientCallback
    BY <1>s, <2>2 DEF ClientCallback, GoalResponse, Feedback, Result
  <2>3. CASE RunningCallback
    BY <1>r, <2>3 DEF RunningCallback, GoalAdd, RtbPlan, RtbEnd, StartArmed,
                      StartMode, StartPose, StartSend, Return
  <2>4. CASE CostmapCb BY <1>s, <2>4 DEF CostmapCb
  <2>. QED BY <2>1, <2>2, <2>3, <2>4 DEF ManagerNext
<1>. QED BY <1>m, <1>s, <1>1, <1>2, <1>3, <1>4, <1>5, <1>6

LEMMA Converted ==
  ASSUME NEW w \in Waypoints, NEW b \in Bases
  PROVE  InterpretGoal("", w, b) \in Wholes
<1>1. w \in Points /\ b \in Points
  BY LinkAssumption DEF Bases, Origin, Points
<1>2. InterpretGoal("", w, b) \in Points BY <1>1, InterpretGoalType
<1>. QED BY <1>2 DEF Wholes, Whole

LEMMA HomeConverted ==
  ASSUME NEW b \in Bases, NEW a \in Fixes
  PROVE  GpsToMap(b, a) \in Wholes
<1>1. a \in Points /\ b \in Points
  BY LinkAssumption DEF Bases, Origin, Points
<1>2. GpsToMap(b, a) \in Points BY <1>1, GpsToMapType
<1>. QED BY <1>2 DEF Wholes, Whole

\* The point home is made from one base and one map origin.
LEMMA HomeLegIsWhole ==
  ASSUME PatientFacts, BaseInv, OriginIsWhole, LoadsAreWhole, pc = "rtbPlan"
  PROVE  HomeLeg \in Seq(Wholes)
<1>0. <<>> \in Seq(Wholes) OBVIOUS
<1>1. CASE HomeLeg = <<>> BY <1>0, <1>1
<1>2. CASE HomeLeg # <<>>
  <2>1. HomeLeg = <<BasePose>> /\ DistSq(BasePose, Origin) > 4
    BY <1>2 DEF HomeLeg, FarFromRobot, RobotPose
  <2>2. BasePose # Origin BY <2>1 DEF DistSq, Origin
  <2>3. read # <<>> BY <2>2 DEF BasePose
  <2>4. read \in Seq(Int) /\ Len(read) = 4
    BY <2>3 DEF PatientFacts, TypeInv, TypeOK, ManagerDataOK, ReadFits
  <2>5. \A i \in 1..4 : read[i] = RtbLoads[i]
    BY <2>4, Zenon DEF LoadsAreWhole
  <2>6. /\ read[1] = armedAt[1] /\ read[2] = armedAt[2]
        /\ read[3] = baseAt[1] /\ read[4] = baseAt[2]
    BY <2>5 DEF RtbLoads
  <2>7. armedAt \in Fixes BY DEF OriginIsWhole, LoadsAreWhole
  <2>8. baseAt \in Bases
    <3>1. linkPc = "idle" BY DEF PatientFacts, PatientInv, HandlerAlone
    <3>. QED BY <3>1 DEF BaseInv, Bases
  <2>9. armedAt \in Int \X Int /\ baseAt \in Int \X Int
    BY DEF PatientFacts, TypeInv, TypeOK, LinkDataOK, Points
  <2>10. armedAt = <<armedAt[1], armedAt[2]>> /\ baseAt = <<baseAt[1], baseAt[2]>>
    BY <2>9
  <2>11. BasePose = GpsToMap(baseAt, armedAt)
    BY <2>3, <2>6, <2>10 DEF BasePose
  <2>12. BasePose \in Wholes BY <2>7, <2>8, <2>11, HomeConverted
  <2>. QED BY <2>1, <2>12
<1>. QED BY <1>1, <1>2

\* A goal appended to lists of such goals.
LEMMA AddGoalIsWhole ==
  ASSUME NEW p \in Wholes, ListsAreWhole, AddGoal(p)
  PROVE  goalPoints' \in Seq(Wholes) /\ rawGoals' \in Seq(Wholes)
BY DEF ListsAreWhole, AddGoal

LEMMA GoalsStayWhole ==
  ASSUME PatientFacts, BaseInv, OriginIsWhole, LoadsAreWhole, ListsAreWhole,
         ManagerNext
  PROVE  goalPoints' \in Seq(Wholes) /\ rawGoals' \in Seq(Wholes)
<1>0. goalPoints \in Seq(Wholes) /\ rawGoals \in Seq(Wholes)
  BY DEF ListsAreWhole
<1>1. CASE UNCHANGED listVars BY <1>0, <1>1 DEF listVars
<1>2. CASE GoalCb
  <2>1. CASE setWaypoints /\ ~LooksLikeGps(Head(goalQ))
    <3>1. goalQ # <<>> /\ AddGoal(Head(goalQ)) BY <1>2, <2>1 DEF GoalCb, callVars
    <3>2. Head(goalQ) \in Waypoints BY <3>1 DEF ListsAreWhole
    <3>3. InterpretGoal("", Head(goalQ), Origin) = Head(goalQ)
      BY <2>1 DEF InterpretGoal, LocalFrames
    <3>4. Head(goalQ) \in Wholes BY <3>2, <3>3, Converted DEF Bases
    <3>. QED BY <3>1, <3>4, AddGoalIsWhole
  <2>2. CASE ~(setWaypoints /\ ~LooksLikeGps(Head(goalQ)))
    BY <1>1, <1>2, <2>2 DEF GoalCb
  <2>. QED BY <2>1, <2>2
<1>3. CASE GoalAdd
  <2>1. /\ pc = "goalAdd"
        /\ AddGoal(GpsToMap(<<read[1], read[2]>>, <<read[3], read[4]>>))
    BY <1>3 DEF GoalAdd
  <2>2. /\ <<read[1], read[2]>> \in Waypoints
        /\ LooksLikeGps(<<read[1], read[2]>>)
        /\ read[3] = baseAt[1] /\ read[4] = baseAt[2]
    BY <2>1 DEF LoadsAreWhole
  <2>3. baseAt \in Bases
    <3>1. linkPc = "idle" BY <2>1 DEF PatientFacts, PatientInv, HandlerAlone
    <3>. QED BY <3>1 DEF BaseInv, Bases
  <2>4. baseAt \in Int \X Int
    BY DEF PatientFacts, TypeInv, TypeOK, LinkDataOK, Points
  <2>5. baseAt = <<baseAt[1], baseAt[2]>> BY <2>4
  <2>6. GpsToMap(<<read[1], read[2]>>, <<read[3], read[4]>>)
          = InterpretGoal("", <<read[1], read[2]>>, baseAt)
    BY <2>2, <2>5 DEF InterpretGoal
  <2>7. GpsToMap(<<read[1], read[2]>>, <<read[3], read[4]>>) \in Wholes
    BY <2>2, <2>3, <2>6, Converted
  <2>. QED BY <2>1, <2>7, AddGoalIsWhole
<1>4. CASE RtbPlan
  <2>1. PICK back \in ReturnPath(goalPoints, ReturnGoals) :
          goalPoints' = back \o HomeLeg
    BY <1>4 DEF RtbPlan
  <2>2. rawGoals' = goalPoints' /\ pc = "rtbPlan" BY <1>4 DEF RtbPlan
  <2>3. ReturnGoals \in SUBSET DOMAIN goalPoints BY DEF ReturnGoals
  <2>4. back \in Seq(Wholes) BY <1>0, <2>3, ReturnPathType
  <2>. QED BY <2>1, <2>2, <2>4, HomeLegIsWhole
<1>5. CASE ClearGoals
  <2>1. <<>> \in Seq(Wholes) OBVIOUS
  <2>. QED BY <1>5, <2>1 DEF ClearGoals
<1>6. CASE \E i \in DOMAIN rawGoals :
             rawGoals' = RemoveAt(rawGoals, i) /\ goalPoints' = goalPoints
  BY <1>0, <1>6, RemoveAtType
<1>7. ASSUME ~GoalCb, ~GoalAdd
      PROVE  \/ UNCHANGED listVars \/ RtbPlan \/ ClearGoals
             \/ \E i \in DOMAIN rawGoals :
                  rawGoals' = RemoveAt(rawGoals, i) /\ goalPoints' = goalPoints
  <2>1. CASE TopicCallback
    BY <1>7, <2>1 DEF TopicCallback, RtbCb, StartCb, StopCb, FlushCb
  <2>2. CASE ClientCallback
    <3> PICK g \in Goals : GoalResponse(g) \/ Feedback(g) \/ Result(g)
      BY <2>2 DEF ClientCallback
    <3>1. CASE GoalResponse(g) BY <3>1 DEF GoalResponse
    <3>2. CASE Feedback(g) BY <3>2 DEF Feedback, Erased
    <3>3. CASE Result(g) BY <3>3 DEF Result
    <3>. QED BY <3>1, <3>2, <3>3
  <2>3. CASE RunningCallback
    BY <1>7, <2>3
       DEF RunningCallback, GoalLoad, RtbPose, RtbBase, RtbLoad, RtbEnd,
           StartArmed, StartMode, StartPose, StartSend
  <2>4. CASE CostmapCb BY <2>4 DEF CostmapCb
  <2>. QED BY <2>1, <2>2, <2>3, <2>4 DEF ManagerNext
<1>. QED BY <1>1, <1>2, <1>3, <1>4, <1>5, <1>6, <1>7

\* Messages are waypoints the ground station sent.
LEMMA MessagesAreWaypoints ==
  ASSUME ListsAreWhole, [Next]_vars
  PROVE  goalQ' \in Seq(Waypoints)
<1>0. goalQ \in Seq(Waypoints) BY DEF ListsAreWhole
<1>1. ASSUME NEW p \in Waypoints PROVE PushGoal(goalQ, p) \in Seq(Waypoints)
  <2>1. CASE Len(goalQ) = QueueDepth
    <3>1. goalQ # <<>> BY <2>1, LinkAssumption
    <3>2. Tail(goalQ) \in Seq(Waypoints) BY <1>0, <3>1
    <3>. QED BY <2>1, <3>2 DEF PushGoal
  <2>2. CASE Len(goalQ) # QueueDepth BY <1>0, <2>2 DEF PushGoal
  <2>. QED BY <2>1, <2>2
<1> USE DEF linkVars, topicVars
<1>2. CASE OnNavsat BY <1>0, <1>2 DEF OnNavsat
<1>3. CASE LinkCommand
  BY <1>0, <1>1, <1>3 DEF LinkCommand, Arm, Disarm, EnterMode, SetMode,
                          FramedWaypoint, FramedSetBase, FramedFlush
<1>4. CASE LinkHandler BY <1>0, <1>4, HandlerEffect
<1>5. CASE ManagerStep
  <2>1. CASE GoalCb
    <3>1. goalQ # <<>> /\ goalQ' = Tail(goalQ) BY <2>1 DEF GoalCb
    <3>. QED BY <1>0, <3>1
  <2>2. CASE TopicCallback /\ ~GoalCb
    BY <1>0, <2>2 DEF TopicCallback, RtbCb, StartCb, StopCb, FlushCb
  <2>3. CASE ClientCallback
    BY <1>0, <2>3 DEF ClientCallback, GoalResponse, Feedback, Result
  <2>4. CASE RunningCallback BY <1>0, <2>4, RunningKeepsLink
  <2>5. CASE CostmapCb BY <1>0, <2>5 DEF CostmapCb
  <2>. QED BY <1>5, <2>1, <2>2, <2>3, <2>4, <2>5 DEF ManagerStep, ManagerNext
<1>6. CASE ServerStep BY <1>0, <1>6 DEF ServerStep
<1>7. CASE UNCHANGED vars BY <1>0, <1>7 DEF vars
<1>. QED BY <1>2, <1>3, <1>4, <1>5, <1>6, <1>7 DEF Next, LinkStep, LinkNext

\* Two threads, eight loads and stores without a lock: with an operator who
\* waits, no goal is made of the latitude of one position and the longitude of
\* another.
THEOREM PatientGoalsAreWhole == PatientSpec => []GoalsAreWhole
<1> DEFINE Facts == PatientFacts /\ BaseInv /\ OriginIsWhole
           Settled == LoadsAreWhole /\ ListsAreWhole
<1>1. Init => Settled
  <2> SUFFICES ASSUME Init PROVE Settled OBVIOUS
  <2>1. <<>> \in Seq(Waypoints) /\ <<>> \in Seq(Wholes) OBVIOUS
  <2>2. ListsAreWhole
    BY <2>1 DEF Init, LinkInit, ManagerInit, ListsAreWhole
  <2>3. LoadsAreWhole BY DEF Init, ManagerInit, LoadsAreWhole
  <2>. QED BY <2>2, <2>3
<1>2. Facts /\ Settled /\ [PatientNext]_vars => Settled'
  <2> SUFFICES ASSUME Facts, Settled, [PatientNext]_vars PROVE Settled' OBVIOUS
  <2>1. LoadsAreWhole' BY LoadsStayWhole
  <2>2. goalQ' \in Seq(Waypoints) BY MessagesAreWaypoints DEF PatientNext
  <2>3. goalPoints' \in Seq(Wholes) /\ rawGoals' \in Seq(Wholes)
    <3>1. CASE ManagerStep BY <3>1, GoalsStayWhole DEF ManagerStep
    <3>2. CASE ~ManagerStep
      BY <3>2 DEF PatientNext, Next, LinkStep, ServerStep, vars, managerVars,
                  listVars, ListsAreWhole
    <3>. QED BY <3>1, <3>2
  <2>. QED BY <2>1, <2>2, <2>3 DEF ListsAreWhole
<1>3. Settled => GoalsAreWhole
  <2> SUFFICES ASSUME Settled PROVE GoalsAreWhole OBVIOUS
  <2>1. Range(goalPoints) \cup Range(rawGoals) \subseteq Wholes
    BY DEF ListsAreWhole, Range
  <2>. QED BY <2>1 DEF GoalsAreWhole, Wholes
<1> HIDE DEF Facts, Settled
<1>4. PatientSpec => []Facts
  BY PatientIsSpec, PatientInvHolds, BaseInvHolds, OriginIsWholeHolds, PTL
     DEF Facts
<1>. QED BY <1>1, <1>2, <1>3, <1>4, PTL DEF PatientSpec
=============================================================================
