--------------------------- MODULE TelemetryLink ---------------------------
(***************************************************************************)
(* AgxEpTelemetrySender of telemetry_handler_wp_manager.cpp: what each     *)
(* command of the ground station does to the telemetry node, to the global *)
(* variables it shares with the waypoint manager, and to the topics it     *)
(* publishes.  How bytes become commands is the subject of SerialParser.   *)
(*                                                                         *)
(* The waypoint manager runs in another thread of the same process, and    *)
(* nothing locks the globals.  So a handler that stores several globals    *)
(* takes one step for each store and one for what it publishes, and the    *)
(* other thread may run in between; linkPc names the next step.  lastCmd   *)
(* tells the handlers that share steps apart: the framed ARM and DISARM    *)
(* from the raw ones, which publish nothing, and the four modes.           *)
(*                                                                         *)
(* Not modelled here: have_waypoint_, set_base_requested_ and wp_lat/lon,  *)
(* which only log lines read, and the commands that change nothing else    *)
(* (RAW_WAYPOINT, RAW_SET_BASE, GOAL).                                     *)
(***************************************************************************)
EXTENDS Geo, Sequences

CONSTANTS
  Commands,      \* the commands this ground station uses
  MaxCommands,   \* bound: how many it sends
  SetModes,      \* the mode bytes it puts into SET_MODE
  Fixes,         \* the GPS positions the receiver may report
  Waypoints,     \* the GPS positions it sends as waypoints
  QueueDepth     \* rclcpp::QoS(10) of every mission topic

CommandNames ==
  {"ARM", "RAW_ARM", "DISARM", "RAW_DISARM", "HOTAS", "SHADOW", "PURSUIT",
   "BASE", "SET_MODE", "WAYPOINT", "SET_BASE", "FLUSH"}

ASSUME LinkAssumption ==
  /\ Commands \subseteq CommandNames
  /\ MaxCommands \in Nat
  /\ SetModes \subseteq 0..255
  /\ Fixes \subseteq Points
  /\ Waypoints \subseteq Points
  /\ QueueDepth \in Nat /\ QueueDepth > 0

EP_MODE_HOTAS   == 0
EP_MODE_SHADOW  == 1
EP_MODE_PURSUIT == 2
EP_MODE_BASE    == 3

VARIABLES
  mode, armMode, haveFix, gps,          \* members of the telemetry node
  linkPc,                               \* the next step of a handler
  armValid, armedAt,                    \* globals: is_arming_valid_, armed_*
  modePursuit, modeRtb, setWaypoints,   \* globals of the same names
  baseSet, baseAt,                      \* globals: base_set_, base_*
  startQ, stopQ, rtbQ, flushQ,          \* messages waiting per Empty topic
  goalQ,                                \* waiting /goal_pose messages
  cmds, lastCmd                         \* commands so far and the last one

nodeVars   == <<mode, armMode, haveFix, gps, linkPc, cmds, lastCmd>>
originVars == <<armValid, armedAt>>
modeVars   == <<modePursuit, modeRtb>>
baseVars   == <<baseSet, baseAt>>
globalVars == <<originVars, modeVars, baseVars, setWaypoints>>
topicVars  == <<startQ, stopQ, rtbQ, flushQ, goalQ>>
linkVars   == <<nodeVars, globalVars, topicVars>>

LinkFlagsOK ==
  /\ haveFix \in BOOLEAN /\ armValid \in BOOLEAN
  /\ modePursuit \in BOOLEAN /\ modeRtb \in BOOLEAN
  /\ setWaypoints \in BOOLEAN /\ baseSet \in BOOLEAN

LinkSteps ==
  {"idle", "armLatitude", "armLongitude", "armValid", "armStart",
   "disarmValid", "disarmStop", "modePursuit", "modeRtb", "modeReturn",
   "baseLatitude", "baseLongitude"}

LinkDataOK ==
  /\ linkPc \in LinkSteps
  /\ mode \in 0..255
  /\ armMode \in {0, 1}
  /\ gps \in Points /\ armedAt \in Points /\ baseAt \in Points
  /\ startQ \in 0..QueueDepth /\ stopQ \in 0..QueueDepth
  /\ rtbQ \in 0..QueueDepth /\ flushQ \in 0..QueueDepth
  /\ goalQ \in Seq(Points)
  /\ cmds \in 0..MaxCommands
  /\ lastCmd \in CommandNames \cup {"NONE"}

LinkInit ==
  /\ mode = EP_MODE_HOTAS
  /\ armMode = 0
  /\ haveFix = FALSE /\ gps = Origin
  /\ linkPc = "idle"
  /\ armValid = FALSE /\ armedAt = Origin
  /\ modePursuit = FALSE /\ modeRtb = FALSE
  /\ setWaypoints = FALSE
  /\ baseSet = FALSE /\ baseAt = Origin
  /\ startQ = 0 /\ stopQ = 0 /\ rtbQ = 0 /\ flushQ = 0
  /\ goalQ = <<>>
  /\ cmds = 0 /\ lastCmd = "NONE"

\* A KEEP_LAST queue drops its oldest message when it is full.  Messages of
\* type Empty are alike, so such a queue is the number of its messages.
PublishedUnbounded(n) == n + 1
Published(n) == IF n = QueueDepth THEN n ELSE n + 1
PushGoal(q, p) == Append(IF Len(q) = QueueDepth THEN Tail(q) ELSE q, p)

-----------------------------------------------------------------------------
\* The GPS receiver reports a position, or a position that is not finite.
OnNavsat ==
  /\ linkPc = "idle"
  /\ \/ haveFix' = FALSE /\ UNCHANGED gps
     \/ haveFix' = TRUE /\ gps' \in Fixes
  /\ UNCHANGED <<mode, armMode, linkPc, cmds, lastCmd, globalVars, topicVars>>

\* The handler of command c begins, and goes on with step next if it does
\* not end at once.
Receive(c, next) ==
  /\ c \in Commands
  /\ cmds < MaxCommands
  /\ linkPc = "idle"
  /\ cmds' = cmds + 1
  /\ lastCmd' = c
  /\ linkPc' = next

\* The handler that runs takes step here, and then goes on with step next.
Goes(here, next) ==
  /\ linkPc = here
  /\ linkPc' = next
  /\ UNCHANGED <<mode, armMode, haveFix, gps, cmds, lastCmd, setWaypoints,
                 flushQ, goalQ>>

\* ARM, framed and raw, latches the map origin once, if there is a fix.
Arm ==
  /\ \/ ~armValid /\ haveFix /\ \E c \in {"ARM", "RAW_ARM"} : Receive(c, "armLatitude")
     \/ ~(~armValid /\ haveFix) /\ Receive("ARM", "armStart")
     \/ ~(~armValid /\ haveFix) /\ Receive("RAW_ARM", "idle")
  /\ armMode' = 1
  /\ UNCHANGED <<mode, haveFix, gps, globalVars, topicVars>>

ArmLatitude ==
  /\ Goes("armLatitude", "armLongitude")
  /\ armedAt' = <<gps[1], armedAt[2]>>
  /\ UNCHANGED <<armValid, modeVars, baseVars, startQ, stopQ, rtbQ>>

ArmLongitude ==
  /\ Goes("armLongitude", "armValid")
  /\ armedAt' = <<armedAt[1], gps[2]>>
  /\ UNCHANGED <<armValid, modeVars, baseVars, startQ, stopQ, rtbQ>>

ArmValid ==
  /\ Goes("armValid", IF lastCmd = "ARM" THEN "armStart" ELSE "idle")
  /\ armValid' = TRUE
  /\ UNCHANGED <<armedAt, modeVars, baseVars, startQ, stopQ, rtbQ>>

\* The framed ARM starts a mission, in PURSUIT mode.
ArmStart ==
  /\ Goes("armStart", "idle")
  /\ startQ' = IF armValid /\ mode = EP_MODE_PURSUIT
               THEN Published(startQ) ELSE startQ
  /\ UNCHANGED <<originVars, modeVars, baseVars, stopQ, rtbQ>>

\* DISARM, framed and raw, gives up the map origin.
Disarm ==
  /\ \E c \in {"DISARM", "RAW_DISARM"} : Receive(c, "disarmValid")
  /\ armMode' = 0
  /\ UNCHANGED <<mode, haveFix, gps, globalVars, topicVars>>

KeepOrigin == UNCHANGED armValid
DropOrigin == armValid' = FALSE
DisarmValid ==
  /\ Goes("disarmValid", IF lastCmd = "DISARM" THEN "disarmStop" ELSE "idle")
  /\ DropOrigin
  /\ UNCHANGED <<armedAt, modeVars, baseVars, startQ, stopQ, rtbQ>>

\* The framed DISARM stops the mission; the raw byte publishes nothing.
DisarmStop ==
  /\ Goes("disarmStop", "idle")
  /\ stopQ' = Published(stopQ)
  /\ UNCHANGED <<originVars, modeVars, baseVars, startQ, rtbQ>>

\* The payload-free mode frames set the mode and both flags.
ModeFrames ==
  [HOTAS |-> EP_MODE_HOTAS, SHADOW |-> EP_MODE_SHADOW,
   PURSUIT |-> EP_MODE_PURSUIT, BASE |-> EP_MODE_BASE]

EnterMode ==
  /\ \E c \in DOMAIN ModeFrames :
       Receive(c, "modePursuit") /\ mode' = ModeFrames[c]
  /\ UNCHANGED <<armMode, haveFix, gps, globalVars, topicVars>>

ModePursuit ==
  /\ Goes("modePursuit", "modeRtb")
  /\ modePursuit' = (lastCmd = "PURSUIT")
  /\ UNCHANGED <<originVars, modeRtb, baseVars, startQ, stopQ, rtbQ>>

ModeRtb ==
  /\ Goes("modeRtb", IF lastCmd = "BASE" THEN "modeReturn" ELSE "idle")
  /\ modeRtb' = (lastCmd = "BASE")
  /\ UNCHANGED <<originVars, modePursuit, baseVars, startQ, stopQ, rtbQ>>

\* BASE triggers a return.
ModeReturn ==
  /\ Goes("modeReturn", "idle")
  /\ rtbQ' = Published(rtbQ)
  /\ UNCHANGED <<originVars, modeVars, baseVars, startQ, stopQ>>

\* SET_MODE, framed (0x22) and raw (0x20), leaves the two flags alone.
SetMode ==
  /\ Receive("SET_MODE", "idle")
  /\ mode' \in SetModes
  /\ UNCHANGED <<armMode, haveFix, gps, globalVars, topicVars>>

FramedWaypoint ==
  /\ Receive("WAYPOINT", "idle")
  /\ setWaypoints' = TRUE
  /\ \E p \in Waypoints : goalQ' = PushGoal(goalQ, p)
  /\ UNCHANGED <<mode, armMode, haveFix, gps, originVars, modeVars, baseVars,
                 startQ, stopQ, rtbQ, flushQ>>

\* SET_BASE; there need not be a fix.
FramedSetBase ==
  /\ Receive("SET_BASE", "baseLatitude")
  /\ baseSet' = TRUE
  /\ UNCHANGED <<mode, armMode, haveFix, gps, originVars, modeVars, baseAt,
                 setWaypoints, topicVars>>

BaseLatitude ==
  /\ Goes("baseLatitude", "baseLongitude")
  /\ baseAt' = <<gps[1], baseAt[2]>>
  /\ UNCHANGED <<originVars, modeVars, baseSet, startQ, stopQ, rtbQ>>

StoreLatitudeOnly == UNCHANGED baseAt
StoreLongitude == baseAt' = <<baseAt[1], gps[2]>>
BaseLongitude ==
  /\ Goes("baseLongitude", "idle")
  /\ StoreLongitude
  /\ UNCHANGED <<originVars, modeVars, baseSet, startQ, stopQ, rtbQ>>

FramedFlush ==
  /\ Receive("FLUSH", "idle")
  /\ flushQ' = Published(flushQ)
  /\ UNCHANGED <<mode, armMode, haveFix, gps, globalVars, startQ, stopQ, rtbQ,
                 goalQ>>

LinkCommand ==
  \/ Arm \/ Disarm \/ EnterMode \/ SetMode
  \/ FramedWaypoint \/ FramedSetBase \/ FramedFlush

\* A handler that has begun goes on.
LinkHandler ==
  \/ ArmLatitude \/ ArmLongitude \/ ArmValid \/ ArmStart
  \/ DisarmValid \/ DisarmStop
  \/ ModePursuit \/ ModeRtb \/ ModeReturn
  \/ BaseLatitude \/ BaseLongitude

LinkNext == OnNavsat \/ LinkCommand \/ LinkHandler
=============================================================================
