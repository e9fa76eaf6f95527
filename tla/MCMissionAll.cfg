SPECIFICATION FairSpec
CONSTANTS
  MetresPerDegree = 100
  Commands = {"ARM", "RAW_ARM", "DISARM", "RAW_DISARM", "HOTAS", "SHADOW", "PURSUIT", "BASE", "SET_MODE", "WAYPOINT", "SET_BASE", "FLUSH"}
  MaxCommands = 4
  SetModes = {2}
  Fixes <- MC_Fixes
  Waypoints <- MC_OneWaypoint
  QueueDepth = 1
  Via = Via
  Costmaps <- MC_Costmaps
CHECK_DEADLOCK FALSE
INVARIANTS
  TypeOK
  OriginOnlyWhenArmed
  BaseIsAPosition
PROPERTY
  EventuallyRests
