SPECIFICATION Spec
CONSTANTS
  Poses = {p1, p2}
  Home = home
  Costmaps <- MC_Costmaps
  MaxGoals = 2
  MaxCommands = 2
  MaxRetries = 1
CHECK_DEADLOCK FALSE
PROPERTY
  StopHolds
