SPECIFICATION FairSpec
CONSTANTS
  Poses = {p1, p2}
  Home = home
  Costmaps <- MC_Costmaps
  MaxGoals = 2
  MaxCommands = 3
CHECK_DEADLOCK FALSE
INVARIANTS
  HandleIsRight
  ActiveMeansOut
  MissionsAreTracked
  GoalsKeepOrder
PROPERTIES
  EventuallyRests
