SPECIFICATION Spec
CONSTANTS
  Crc <- MC_Crc
  Fixes <- MC_Fixes
  Yaws <- MC_Yaws
  Velocities <- MC_Velocities
  Commands <- MC_Commands
  SetModes = {85}
  SeqSize = 256
  ReopenEvery = 3
  Parts = {0, 1, 2, 3, 6, 9, 25}
  MaxTicks = 4
  MaxEvents = 1
  MaxCuts = 2
  MaxReads = 1
CHECK_DEADLOCK FALSE
INVARIANTS
  OnlyStatesArrive
  NothingLost
