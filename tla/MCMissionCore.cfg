SPECIFICATION Spec
CONSTANTS
  MetresPerDegree = 100
  Commands = {"ARM", "DISARM", "PURSUIT", "BASE", "WAYPOINT", "FLUSH"}
  MaxCommands = 6
  SetModes = {0}
  Fixes <- MC_Fixes
  Waypoints <- MC_TwoWaypoints
  QueueDepth = 2
  Via = Via
  Costmaps <- MC_NoCostmap
CHECK_DEADLOCK FALSE
INVARIANTS
  HandleIsRight
  ActiveMissionIsOutstanding
  ActiveGoalsAreKnownGoals
  RtbGuardIsRight
PROPERTIES
  StoppedVehicleStays
  TracksGoals
