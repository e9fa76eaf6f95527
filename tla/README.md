# Formal models of mdx_ugv

mdx_ugv drives an unmanned ground vehicle: a ground station talks to the
vehicle over a UART, a telemetry node turns its frames into ROS topics and
shared flags, a waypoint manager turns those into missions for Nav2, and a few
perception nodes watch the surroundings. This directory holds TLA+ models of
the parts that decide what the vehicle does, the TLC runs that check them on
small instances, and the theorems TLAPS proves about them for every instance.

`PROJECT.json` maps every definition to the source lines it stands for, lists
the runs, the hazards of the code with the properties aimed at them, and the
disagreements between the code and its own comments the runs exhibit.

## 1. The system

| component | source | state | operations | status |
|---|---|---|---|---|
| mission control process, telemetry node | `src/src/telemetry_handler_wp_manager.cpp` 159-728 | mode, arm state, fix, position; the globals it shares (map origin, mode flags, base) | `on_navsat`, one handler per command | modelled (`TelemetryLink`) |
| the same node, UART receiver | same, 235-284, 373-684 | `read_buffer_`, port | `readSerialCommands`, `open_serial` | modelled (`SerialParser`) |
| mission control process, waypoint manager | same, 730-1466 | goal lists, path, goal handle, mission flags, costmap | topic callbacks, action-client callbacks | modelled (`WaypointManager`) |
| Nav2 action server and client library | external | goals, cancel requests | accept, refuse, preempt, cancel, end | modelled as used (`NavAction`) |
| stand-alone telemetry handler | `edge_pilot_telemetry_handler.cpp` | mode, arm state, fix, heading, velocities, `seq_`, port | topics, `tick_send`, `write_all`, commands | modelled (`EdgeTelemetry`) but for what only log lines read |
| stand-alone waypoint manager | `wp_manager_interpolater.cpp` | lists, handle, flags | goal, start, stop, RTB, answers of Nav2 | modelled (`StandaloneManager`) but for markers |
| waypoint manager with retries (trov) | `wp_manager_interpolater_trov.cpp` | segments, index, handle, retry timer, `user_stopped_` | the same, and retry | modelled (`RetryManager`) but for markers |
| dynamic obstacle processor | `dynamic_obstacle_processor.cpp` 1-685 (the rest is commented out) | `prev_state_`, ids | `cloudCallback` and all it calls | modelled (`Clustering`, `ObstacleTracker`) |
| first waypoint manager | `waypoint_manager.cpp` | segment index, pause | start, pause, resume, RTB | not modelled: its target in `CMakeLists.txt` is commented out |
| plan interpolator | `interpolator.cpp` 1-129 (the rest is commented out) | none | `planCallback` | not modelled: stateless, publishes markers only |
| LiDAR zone detector | `lidar_zone_detector.cpp` 88-253 (the first part is commented out) | three bytes of shared memory | `cloudCallback` | not modelled: nothing in the repository reads them, so that nothing says what their reader may see |
| moving model plugin | `plugins/move_model.cpp` | table of poses | `Update` | not modelled: moves a model of the simulation as a function of its time |
| Python obstacle processors | `scripts/*obstacle_processor.py` | tracked obstacles | cloud callback | not modelled: earlier versions of the C++ node, their launch actions are commented out |
| Python adapters, behaviour trees, launch, URDF, worlds, config | | none of their own | | not modelled: stateless, or data for programs outside the repository |

The stand-alone telemetry handler and the telemetry node of the mission process
share code line for line: `on_odom`, `on_cmdvel` and `tick_send`
(`telemetry_handler_wp_manager.cpp` 302-369,
`edge_pilot_telemetry_handler.cpp` 273-340), `write_all` (664-684, 593-613), and
the parser. `EdgeTelemetry` is therefore also the model of what the mission
process sends, and `SerialParser` of what the stand-alone handler receives.

### Interaction

The two nodes of the mission control process run on one `MultiThreadedExecutor`.
All callbacks of a node are in its default, mutually exclusive, group, so that
each node is sequential and the two run in parallel. They interact in two ways:

* five topics (`start_navigation`, `stop_navigation`, `rtb`,
  `flush_waypoints`, `goal_pose`), each with its own queue of ten messages; the
  executor may serve them in any order;
* plain global variables (`is_arming_valid_`, `armed_*`, `mode_pursuit_`,
  `mode_rtb_`, `set_waypoints_`, `base_*`) which the telemetry node writes and
  the manager reads, without a lock, several times within one callback.

The managers send goals with `async_send_goal`; response, feedback and result
come back as callbacks, and Nav2 preempts a goal when it accepts the next. The
retry manager drives `follow_path`, one segment after the other; the two others
drive `navigate_through_poses`, all goals at once. The stand-alone programs spin
on one thread: a callback, with the sleeps and the nested `startCb` in it, runs
to its end before the next one starts, and what interleaves are topics, timers,
answers, and Nav2. The obstacle processor sees only clouds and transforms.

### What is hard

* a stop or return between sending a goal and its response;
* results and feedback of an old goal that arrive while a new one is out;
* a retry timer against stops, starts, returns and results;
* topics that overtake each other; globals that change within a callback;
* one flag updated by one command and not by another (`SET_MODE`, `BASE`);
* two words stored one after the other (`SET_BASE`) and read by another thread;
* a byte stream cut anywhere, damaged, interrupted by a port that fails, and
  shared by a raw protocol without checksum and a framed one; a frame of which
  `write_all` wrote a part;
* identities of obstacles through greedy matching, missed clouds, long gaps and
  transforms that fail for some of them.

## 2. The modules

| module | models |
|---|---|
| `Geo` | `gpsToMap`, the degrees-or-metres guess of `goalCb`, distances |
| `TelemetryLink` (extends `Geo`) | what each command does to node, globals and topics |
| `NavAction` | the action server and the client library, from their use in `sendPathToNav2` |
| `ReturnPaths` | the way back `rtbCb` builds from the stored goals, in all three managers |
| `WaypointManager` (extends the last three) | the callbacks of the manager in the mission process |
| `MissionControl` | the whole process: `LinkStep`, `ManagerStep`, `ServerStep`; fairness; invariants |
| `GoalTracking` | abstract specification: what a client that keeps one goal handle promises, with its proof |
| `MissionClaims` | what comments and messages of the code say, as formulas |
| `PatientOperator` | `MissionControl` under an operator who waits for effects |
| `SerialParser`, `Crc16` | the UART receiver; the checksum |
| `EdgeTelemetry` | the state frames of the telemetry handlers, `write_all`, and a reader |
| `RetryManager` | the manager of `wp_manager_interpolater_trov.cpp` |
| `StandaloneManager` | the manager of `wp_manager_interpolater.cpp` |
| `Clustering` | candidates, `clusterPoints`, circles and the people among them |
| `ObstacleTracker` (extends `Clustering`) | the tracker of `dynamic_obstacle_processor.cpp` |
| `MCMission`, `MCSerial`, `MCEdge`, `MCRetry`, `MCStandalone`, `MCObstacles` | small instances |
| `NavProofs` | lemmas about `NavAction` and `ReturnPaths`, shared by the proofs |
| `MissionProofs`, `SerialParserProofs`, `EdgeProofs`, `RetryProofs`, `StandaloneProofs`, `ObstacleProofs` | theorems |

Correspondence of state: a variable has the name of the C++ member or global
it stands for, without underscores (`goalPoints` is `goal_points_`, `armValid`
is `is_arming_valid_`). A queue of Empty messages is a number.

The mission process has two threads that share globals without a lock, so a
handler or callback of it takes a step for each store or load of a shared global
after its first:

| code | steps |
|---|---|
| ARM (526-547, 407-427) | `Arm`, `ArmLatitude`, `ArmLongitude`, `ArmValid`, `ArmStart` (framed only) |
| DISARM (548-553, 429-441) | `Disarm`, `DisarmValid`, `DisarmStop` (framed only) |
| mode frames (554-578) | `EnterMode`, `ModePursuit`, `ModeRtb`, `ModeReturn` (BASE only) |
| SET_BASE (616-626) | `FramedSetBase`, `BaseLatitude`, `BaseLongitude` |
| `goalCb` (852-935) | `GoalCb`, `GoalLoad` twice, `GoalAdd` |
| `rtbCb` (937-1045) | `RtbCb`, the sleep, `RtbPose`, `RtbBase`, `RtbLoad` four times, `RtbPlan`, `startCb`, `RtbEnd` |
| `startCb` (1055-1114) | `StartCb`, `StartArmed`, `StartMode`, `StartPose`, `StartSend` |

`linkPc` and `pc` name the next step in either thread, `read` holds what was
loaded, and `nested` says that `startCb` returns to `rtbCb`. The other handlers
are one step: SET_MODE stores a member only its own node reads, FLUSH only
publishes, and the waypoint handler stores `set_waypoints_` before it publishes
the first goal, until which no goal waits that could tell. A callback that loads
no global, or one, is one step too. In the single-threaded programs each
callback is one action. `cloudCallback` has one action per detection, because
every detection may fail to be transformed.

Some variables are not in the code and only serve the properties: `halted`
(the last command was a stop), `revived` (a result has started a segment since)
and `owed` (a retry was announced) in `RetryManager`, `unsent` and `lost` in
`StandaloneManager`, `centres`, `seen` and the field `cloud` in
`ObstacleTracker`, `sent`, `odd`, `skipped` and `split` in `EdgeTelemetry`, and
the counters that bound a run.

Abstractions that matter:

* In the mission process, positions are whole degrees and whole metres. The
  conversion keeps equality, distance above the thresholds, and the guard for
  coordinates off the globe. In the other two managers a goal is a model value
  and `Near` is the one, if any, the robot is close to; `near` and the costmap
  are chosen where they are read, since each may change before any callback.
* `getRobotPose` of the mission process converts the blank pose it is handed;
  the robot is therefore always at the origin, which is what `RobotPose` says.
* A path is the set of goals it contains, and one element `Via` for
  interpolated points where only they could make the path non-empty. The retry
  manager's path to one goal is just sent or not.
* Data races on single words are modelled as atomic reads and writes of them, in
  the order of the source.
* The variables only log lines and markers read are left out; each module names
  them.
* In `SerialParser`, `read()` returns any part of what has arrived, the port
  fails at any write, and reopening loses any prefix of what is on the line.
* In `EdgeTelemetry`, the edge pilot, which is not in the repository, is taken
  to read frames like the framed loop of the node's own parser. Angles are in
  thousandths of a degree. The rate of the ticks and that of the line are
  parameters of the node, so a tick may write while earlier frames are still under
  way. Reopening a closed port ends with `tcflush`: any end of what is under way
  may be dropped then.
* In `ObstacleTracker`, lengths are decimetres, times tenths of a second, speeds
  millimetres per second; the vehicle stands still, so that the frame of the
  sensor and the map agree. The parameter `disable_point_filtering`, with which
  the cloud is published unchanged, is left out.

## 3. The runs

| run | specification | checks |
|---|---|---|
| `MCMissionCore` | `Spec` | goal bookkeeping, list order, the RTB guard, no goal sent once a DISARM's stop is handled, refinement of `GoalTracking` |
| `MCMissionAll` | `FairSpec` | every command: types; map origin only while armed; base stored as a whole; the manager comes to rest when the ground station is silent |
| `MCMissionPatient` | `PatientFairSpec` | stop, flush and return do what they say if the operator waits; a DISARM ends the drive; no goal is computed from halves of two positions |
| `MCSerial` | `FairSpec` | an undisturbed line is carried out once and in order; on a disturbed one nothing is invented; the parser returns, less than a frame is left over |
| `MCRetry` | `FairSpec` | after a stop no retry is pending and nothing is sent until a late success, or an abort at the goal, starts a segment; the segment index in the mission, the handle right, a return path in reverse, rest in the end |
| `MCStandalone` | `FairSpec` | the handle right, what is out can be cancelled, goals in order, `mission_active_`, rest in the end |
| `MCObstacles` | `Spec` | clusters are the connected groups; people are tracked one by one; what stands still gets no speed; misses are counted and end |
| `MCEdge` | `Spec` | behind frames cut short no state is recognised that was not sent, and none is lost |
| `ClaimDisarmStops`, `ClaimRtbRuns` | `Spec` | statements of comments and messages that the mission process does not keep |
| `ClaimRetryKept`, `ClaimStopHolds` | `Spec` | the same for the retry manager |

### Bounds

* `MaxCommands` of the mission process, 4 to 6: arming, mode, a waypoint and a
  start take four commands, a second ARM starts a second mission, and a DISARM,
  a return, a flush or another waypoint follow. `MCMissionCore` has six, which
  two goals on their way need, preemption, and a result of the first after the
  response of the second, or two waypoints, a mission and a second return.
* `MCMissionCore` has two waypoints, so that the order of the goals matters, and a
  base that is not set; both are converted to map points far from the origin, and
  a return drives back through both. The other mission runs have one waypoint.
  `MCMissionPatient` has two fixes that differ in both coordinates, so that a base
  or map origin may be torn; the other runs one, which differs from the base
  that is not set yet.
* `QueueDepth` 2 instead of 10 for the core and the patient operator; 1 for
  `MCMissionAll`, where four commands overflow it.
* `Costmaps`: none comes, so that every pose counts as free, or the empty one and
  one in which the cell of the waypoint, seen from the first fix, is lethal.
* Serial: scripts of two to four frames, clean (with raw commands in front, an
  unknown type, a waypoint whose data looks like a frame) and damaged (another
  type, payload, version, a length too short or too long, a lost byte), each cut
  in every possible way by `read()`. The buffer and the checksum have the real
  size. At most one port failure; attempts to reopen every third tick instead
  of every fiftieth, which only shortens the wait.
* `MCRetry`: two poses, two goals, two commands of the operator and one retry.
  A start and a stop (or return), with the segments that successes start
  from within, give several requests, two of them out at once, and a retry
  that fires behind either command.
* `MCStandalone`: two poses, three commands: a start, a second start before the
  first is answered or over, and a stop or return. `MaxGoals` 2 bounds the
  stored goals when the operator adds one; a return may store home as a third.
* `MCObstacles`: five clouds out of six (nobody, one, two or three people, a step
  between two clouds, things too high, too small and too wide), `min_cluster_points`
  2 instead of 15, gaps of 0.3 s, after which a speed is measured, and of 1.4 s,
  two of which make a person static. Five clouds are one sight and four misses.
* `MCEdge`: four ticks, one event, two cuts, by `write_all` or `tcflush`, and one
  read that ends at any byte. What is left of a frame that is cut is nothing, one
  byte, both start bytes, the header up to the version, up to its length, a part
  of the position, or all but the last byte (`Parts`). The events are those that
  are hard to write: a position whose bytes are 0xAA 0x55 0x01 0x10, velocities
  that must be clamped, a heading that rounds to a full turn, the mode 0x55. A
  frame cut behind its sequence number takes the next start byte, 170, for its
  length and waits for seven more frames: what waits is still there at the end.
  The checksum is the code's: `MC_Crc` computes `Crc16Ccitt` by table, because TLC
  evaluates it for every candidate of a frame, and `TableIsCrc` compares the two.

`CHECK_DEADLOCK FALSE` in all runs but `MCSerial`: the number of commands,
clouds or ticks is bounded, and when they are used up nothing is left to do.

### Fairness

`MissionControl` assumes that the executor goes on: a handler or callback that
runs finishes (weak fairness), a message or client callback that is ready again and
again is served in the end (strong fairness, because the manager runs one
callback at a time). Nav2 answers requests, acts on cancel requests and, in
`FairSpec`, ends every goal. `PatientFairSpec` drops the last assumption: a
drive need not end by itself. Nothing is assumed of the ground station, the
receiver, feedback or costmaps. `SerialParser` assumes that the timer goes on,
that a loop which can take a turn does, and that what was sent arrives.
`RetryManager` and `StandaloneManager` assume that the node keeps spinning, so
that some answer that has come, and a timer that is due, are served in the end
(weak fairness suffices: they stay ready), and that Nav2 answers requests and
ends its goals; nothing is assumed of the operator. Of `ObstacleTracker` and
`EdgeTelemetry` only safety is checked.

### What the runs show

All invariants of the mission process hold for any order of commands,
callbacks and server steps within the bounds. What comments and messages of the
code say does not always hold:

* The handle to cancel with is known only after the goal response. A DISARM
  that comes before it cancels nothing (`ClaimDisarmStops`), and neither does a
  return to base.
* `startCb` asks for a valid arming and sends the goal later; the other thread may
  disarm in between, so a disarmed vehicle may send a mission. What does hold is
  that the stop of that DISARM is then still to come (`StoppedVehicleStays`): the
  mission is sent before it and not after it. For the raw DISARM byte, which publishes no stop, not even this holds.
* The BASE mode clears the pursuit flag that `startCb` asks for, so the return
  mission is planned and not started (`ClaimRtbRuns`).
* The retry timer's callback runs `startCb` and then cancels `retry_timer_`: if
  `startCb` failed, that is the timer of the next retry. The infinite retries end
  with the first that fails at once (`ClaimRetryKept`).
* A success that is handled after a stop starts the next segment
  (`ClaimStopHolds`), and so does an abort within two metres of the goal. The
  `startCb` called from within takes the stop back (line 248): if it fails, a retry is
  pending although the operator's last command is a stop. `StoppedHasNoRetry`
  therefore speaks of the time until such a result, and `OnlyResultsRevive` says
  that nothing else ends it.

The first kind disappears for an operator who waits for each command to take
effect, which `MCMissionPatient` shows.

More follows from the definitions and has no run of its own, because the code
nowhere says otherwise, or only in passing. Of the mission process:

* Topics overtake each other, so that a waypoint sent before a flush may survive
  it (`FlushClears` holds for the patient operator only).
* `SET_MODE` changes the mode byte and leaves the flags: `startCb` refuses the
  start that ARM publishes in a PURSUIT mode set that way.
* A return to base replaces the list of permanent goals. Without a base
  (`base_set_`) home is the map origin, and the pose the manager has of the robot is
  the origin always, so that home is not far enough then to be added to the way
  back (line 1027). With one it is added if base and armed position are more than
  two metres apart (1004-1015).
* A `SET_BASE` that another command follows, or precedes, too soon may be read half
  old and half new by `goalCb` or `rtbCb`: `GoalsAreWhole` does not hold for an
  operator who does not wait. Nor does it for a map origin, if the vehicle is
  disarmed and armed elsewhere while `rtbCb` runs.
* Raw commands are recognised at the front of the buffer only. A raw command
  between two frames that are read at once is skipped by `find_sof`, and one that
  is read behind a frame waits until something else arrives; the clean scripts
  therefore have them first. A raw waypoint of which `read()` returns only eight
  bytes is dropped, and its last byte is taken for a raw command (line 443).
  Raw commands have no checksum either: after a failure of the port the tail of a
  frame may come first in the buffer, and a byte of it that is a raw command is
  obeyed. `NothingInvented` therefore speaks of lines that are undisturbed or free
  of such bytes (`RawFree`), which all damaged scripts are.

Of the retry manager:

* The result CANCELED of the goal a return has cancelled clears `rtb_mode_` of
  that return. An abort close to the last goal ends a return and leaves the flag
  on; so does a stop in RTB mode while no goal is out. Goals are then ignored.
* A success that comes late may skip a segment. A start or return does not
  cancel a pending retry, which restarts the running segment, and the abort of a
  preempted segment schedules one.

Of the stand-alone manager:

* A start while a mission is out sends another; the result of the first drops
  the handle of the second, which stop and return then cannot cancel. This is why
  `MissionsAreTracked` excepts `lost`.
* `mission_active_` is set although no server was found.
* The goals called permanent are replaced by the way back, so that a second
  return reverses the reversed path: home first. "Start from completed goals"
  always starts from the first, since the count it uses is of the goals that
  remain.

Of the obstacle processor: `obstacle_timeout` is never read, misses alone
decide. A detection is taken for dynamic until it was watched for
`static_observation_time`, and its points are hidden meanwhile.

Of the state frames: a read that ends between the two start bytes, behind a frame
cut short, makes `find_sof` drop the first of them, and a whole frame is lost
(`NothingLost` excepts it by `split`). A heading may be 36000. The status
byte is 0 for a vehicle that moves and for one that stands disarmed. A stale
position goes on being reported, and `have_fix_` is not.

## 4. The proofs

Every invariant and every action property of the runs is proved for all values
of the constants, but for those named at the end of this section. The
assumptions are those the modules make of their constants and TLC evaluates.

**The mission process.** `MissionProofs` proves, from
`MetresPerDegreeAssumption`, `LinkAssumption` and `ManagerAssumption`, every
safety property of `MCMissionCore` and `MCMissionAll` (of them
`StoppedVehicleStays` for ground stations that do not send the raw DISARM byte),
and every property of `MCMissionPatient` but `DisarmEndsDriving`, which needs
fairness.

* Types: `TypeOK` is not inductive. `TypeInv` adds `HandleIsGoal`, that the
  handle is one of the goals sent, without which a cancel request could leave
  the set of goals.
* Goals: `GoalTracking` proves its `TrackingInv` inductive. Its parts need
  each other: an accepted goal becomes the tracked one, and that it is the
  newest follows only from `AnsweredInOrder`, that responses come in the order
  of the requests. `Refinement` maps every step of the process to a step or a
  stutter of `GoalTracking`, and the goal invariants of `MissionControl`
  (`HandleIsRight`, `ActiveMissionIsOutstanding`) are its invariants under that
  mapping.
* The RTB guard: `NestedFits` says between which steps `nested` is set, from which
  `RtbGuardIsRight` follows step by step: each way out of `rtbCb` passes `RtbPose` or
  `RtbEnd`, the only two that release it.
* No goal after a DISARM: `StartInv` says that behind a test that succeeded the
  vehicle is validly armed still, or a DISARM is between its stores and its stop,
  or its stop waits. The stop cannot be handled before the callback is over, since
  both are callbacks of one group, and no test succeeds before the next ARM.
* The base: `BaseInv` adds that between the two stores of `SET_BASE` the half
  already stored is half of the position the node has, which no fix can change
  meanwhile, since fixes and commands are callbacks of the same node.
* Whole goals: `OriginIsWhole` says the same of the map origin between its stores
  and of the order in which `is_arming_valid_` is set. That no store comes between
  the loads of one callback follows from the patience of the operator
  (`LoadsStayWhole`); what the loads are converted to is then whole
  (`GoalsStayWhole`).
* Active goals: `Embeds` (an order-preserving map from the active goals into the
  known ones) is kept by appending to both lists, erasing from the first, and
  replacing or clearing both.
* The patient operator: `PatientInv` has three parts. `OneCommandAtATime` says
  which command each queued message and each running callback stems from;
  `MissionsInv` that one mission is out at most, and that it is the tracked one or
  its response is still to come; `CommandsDone` what a handled DISARM and flush
  have left. `DisarmStops`, `FlushClears`, `MissionsAreTracked` and
  `RtbCancelsCurrent` are read off it.

**The receiver.** `SerialParserProofs` proves, for every checksum, line and
number of failures: types, `LeftoverIsShort`, from it that a buffer longer than
the longest frame (263 bytes; `ParserAssumption`) is never full when `read()` is
called, and that every turn of the parser loops consumes a byte or leaves the
loop, which is why they end. That `find_sof` returns a number of bytes needs the
least element of a set of naturals, from the well-foundedness of `<`.

`HandledInOrder` is proved for every script the assumption on scripts
(`ScriptAssumption`) allows: raw commands first, then well-formed frames. The
invariant `InStep` says that as long as the line is undisturbed, buffer and line
together are exactly the chunks not yet handled, the first of them unread or
partly read; that the parser takes a chunk only as a whole, and recognises
no other one in it, follows from the bytes at its front. What a line consists of
is a recursive function of the script, and the facts about it are proved by
taking the first chunk that would violate them.

`NothingInvented` is proved also for lines with damaged frames, from which
failures of the port take further bytes. No proof can do without an assumption
on the checksum there: damaged bytes may happen to have a good one. `NoForgery` is
that assumption, on the scripts and the checksum and on nothing else. It lists
the streams a script can turn into (`Arriving`: the positions of the bytes, with
a gap for each failure at most), and asks that whatever in one of them passes for a frame
with a command is a frame of the script, at least one byte of which is in its place.
`MCSerial` asks TLC for it, so that the scripts with damage are scripts
it holds of. What it does not give, and the proof does, is that such a stream is
all the parser ever sees, and that it takes no frame twice and none out of turn.
The invariant `Genuine` says: buffer and line together are what is left of
one of these streams behind a position (`Arrives`), and each command carried out
belongs to a chunk of its own that ends before that position (`CameFrom`). Reading
leaves it as it is, each turn of a loop moves the position (`ArrivesBehind`), a
reopened port takes another gap (`GapOpens`), and a frame that is handled adds its
chunk (`CameFromMore`), which lies behind the others because the positions of a
stream increase.

**The state frames.** `EdgeProofs` proves of `EdgeTelemetry`, from
`EdgeAssumption` and `Crc16Bit` (a checksum is a number of 16 bits), the types,
with the bytes on the line and in the edge pilot's buffer; `UncutFramesArrive`: as
long as `write_all` and `tcflush` have cut nothing, every state is recognised as it
was sent and nothing else is; and `NothingLostUnlessForged`: behind any number of
cuts, by either and wherever, no whole frame is lost without a split start, as
long as nothing else has passed for a frame. `Crc16Bit` holds of the code's
checksum by its return type, and of `Crc16Ccitt`, its translation, by
`CrcIs16Bit`.

That nothing else passes for a frame is `OnlyStatesArrive` itself, which
`MCEdge` checks with the code's CRC and its worst payloads. Behind a cut it cannot
be proved: whether bytes put together from two frames have a good checksum
depends on the values of the checksum, and for some payloads they do.

The argument has four parts. What `append_le_*` writes of a number of its width,
`rd_*` reads back (`UShortRead`, `ShortRead`, `LongRead`), so that the bytes of
`Frame(s)` say `s` (`FrameWritten`, `FrameSaid`), and they pass wherever they lie
whole (`HeldPasses`). A turn of the framed loop waits, drops at most what no frame
begins in, or takes one frame that passes (`TurnCases`). So no turn passes over a
frame of which two bytes are there without taking it (`InTurn`, by induction over
the turns in `ReadInPlace`); and if the line holds nothing but whole frames, side
by side (`Tiled`), the turns take these and stop at a start (`InTile`, `ReadTiled`).
Both need that what is taken from the front of the buffer is taken from the
front of buffer and line together (`BehindJoined`), and that the other frames keep
their places then (`LaidBehind`, `TiledBehind`).

The invariant is `EdgeInv`: every frame written as a whole lies where `sent` says, in
buffer and line together, 26 bytes apart at least (`LaidOut`); none was passed
over unless something else was taken or a start was split; and without a cut the
line is `Tiled` and nothing was taken amiss. A part of a frame keeps the others in
place (`LaidOn`), a whole one too and adds itself (`LaidMore`, `TiledMore`), a
`tcflush` leaves those in front of its cut (`LaidBefore`). A read that ends
between two start bytes does no harm on a line without cuts, because the loop
waits for eight bytes at the start of a frame before it looks for one.

**The managers.** `NavProofs` has the lemmas the two stand-alone managers share:
what requests, cancel requests and server steps do to the types and to the
liveness of a goal, that a way back consists of stored goals, and that they come
from the last to the first.

`RetryProofs` proves, from `RetryAssumption`, that `RetryInv` is inductive:
`MissionOK` (lists and index, `IndexNamesAGoal`), `ControlOK` (flags and
`StoppedHasNoRetry`) and `GoalsOK` (handle and answers). Every `startCb` resets
`user_stopped_` before it may schedule a retry, and every `scheduleRetry` asks
for it, so that none is pending while `user_stopped_` is set. `StopStands` ties that
flag to the operator: after a stop it stays set until a start, a return, or a
success or abort at the goal that starts the next segment. `NoRetryAfterStop` and
`ResultsAloneRevive` follow, the latter because a retry that fires is one that was
pending. The index is advanced only when a next goal exists, or together with the
end of the mission.
`ReturnStaysReverse` needs `MissionOK` only: goals are stored outside the RTB mode
alone, and a step that leaves the mode on leaves the active goals alone, empties
them, or has just built them from the stored ones.

`StandaloneProofs` proves, from `StandaloneAssumption`, that `StandaloneInv`
(`ListsOK`, `GoalsOK`, `FlagsOK`, `ServedOK`) is inductive. `HandleIsRight` needs
`AnswersAreServed` and `ServedInOrder`: the client hears of goals in the order
of the requests and of none the server has not answered. `Tracked` needs that an
acceptance which replaces a handle is of a later goal, so that Nav2 has preempted
the earlier one. `GoalsStayInOrder` composes the embedding of the list with
the one of the list without a goal.

**The obstacle processor.** The first part of `ObstacleProofs` is about one cloud. `UpTo` is
induction over an interval, and `Recursion` that a function defined by recursion
over one exists; with them what the loops of `clusterPoints` compute is proved
for clouds of any size. The argument: the list that a cluster grows from stays a
list of unassigned points without repetition (`JoinGrows`), each joined through
a chain of near points; after as many rounds as there are points nothing near is
left out (`GrowIsDone`); so a cluster is a connected component of the points, and
the clusters are all of them (`ClustersAreTheGroups`). `DetectionsType` and
`DetectionsCover` say what the tracker gets: a place and a radius per cluster,
and the circle covers its points.

Its second part proves, from `ClusteringAssumption` and `TrackerAssumption`, that
`TrackInv` is inductive: `TypeOK`, `MissesAreRight` (how `missed` relates to
the cloud in the middle of `cloudCallback`, of which `MissesAreCounted` is what
is left between two clouds), `StillWorldStandsStill`, and `FoundOnes`
(`PeopleAreTracked` in the middle of a cloud: what was matched is not missing).
A still obstacle's smoothed speed is the integer part of four tenths of zero;
that a moving one's stays within the clamp is a lemma of its own.
`StillPointsStay` needs `CoverInv`: an obstacle taken for dynamic was watched for a
short time only or was once fast, and a point that is not published is near a
dynamic one; in a still world nothing was ever fast, because
`min_dynamic_velocity` is positive (`TrackerAssumption`).

The types of the receiver, of the state frames and of the two stand-alone
managers are proved and not checked by a run of their own: what the clamps and the
widths of the numbers are for, `OnlyStatesArrive` says more of than `TypeOK`.

**Only model-checked.**

* Everything under fairness: `EventuallyRests` of the three managers,
  `DisarmEndsDriving`, `AllHandled`, `ParserReturns`. Liveness is out of the
  prover's reach.
* `OnlyStatesArrive` of `EdgeTelemetry` behind a cut, and `NoForgery` of the
  receiver's scripts: whether damaged bytes collide depends on the checksum's
  values.
* What `Crc16Ccitt` computes beyond its width; the runs of the receiver use it, those of
  the state frames a table of it.

## 5. Plan

What could be added, in this order:

1. Refinement of a variant of `GoalTracking` by `RetryManager` and
   `StandaloneManager`, which allow two missions and a lost handle.
2. A vehicle that moves while a cloud is processed: two frames in
   `ObstacleTracker`, and transforms from one to the other.
3. `PathInterpolation` for the points between goals, against a reference
   definition.
4. The safety of the patient operator for the other two managers.
