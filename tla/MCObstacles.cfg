SPECIFICATION Spec
CONSTANTS
  TriggerRadius = 80
  HeightMin = 3
  HeightMax = 22
  ClusteringDistance = 15
  MinClusterPoints = 2
  MaxHumanRadius = 9
  InflationRadius = 6
  AssociationDistance = 20
  MinDynamicVelocity = 150
  StaticTime = 20
  Clouds <- MC_Clouds
  Gaps = {3, 14}
  MaxClouds = 5
CHECK_DEADLOCK FALSE
INVARIANTS
  TypeOK
  StillWorldStandsStill
  PeopleAreTracked
  MissesAreCounted
  StillPointsStay
  ClusteringIsRight
