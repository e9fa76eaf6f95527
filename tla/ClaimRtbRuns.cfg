SPECIFICATION Spec
CONSTANTS
  MetresPerDegree = 100
  Commands = {"ARM", "BASE", "WAYPOINT"}
  MaxCommands = 3
  SetModes = {2}
  Fixes <- MC_Fixes
  Waypoints <- MC_OneWaypoint
  QueueDepth = 2
  Via = Via
  Costmaps <- MC_NoCostmap
CHECK_DEADLOCK FALSE
INVARIANT
  RtbMissionRuns
