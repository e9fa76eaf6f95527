SPECIFICATION FairSpec
CONSTANTS
  Poses = {p1, p2}
  Home = home
  Costmaps <- MC_Costmaps
  MaxGoals = 2
  MaxCommands = 2
  MaxRetries = 1
CHECK_DEADLOCK FALSE
INVARIANTS
  StoppedHasNoRetry
  IndexNamesAGoal
  HandleIsRight
  ReturnPathIsReverse
PROPERTIES
  OnlyResultsRevive
  EventuallyRests
