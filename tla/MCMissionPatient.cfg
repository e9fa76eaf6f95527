SPECIFICATION PatientFairSpec
CONSTANTS
  MetresPerDegree = 100
  Commands = {"ARM", "DISARM", "PURSUIT", "BASE", "SET_BASE", "WAYPOINT", "FLUSH"}
  MaxCommands = 5
  SetModes = {0}
  Fixes <- MC_TwoFixes
  Waypoints <- MC_OneWaypoint
  QueueDepth = 2
  Via = Via
  Costmaps <- MC_NoCostmap
CHECK_DEADLOCK FALSE
INVARIANTS
  DisarmStops
  FlushClears
  GoalsAreWhole
  MissionsAreTracked
PROPERTIES
  RtbCancelsCurrent
  DisarmEndsDriving
