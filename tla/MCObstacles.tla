---------------------------- MODULE MCObstacles ----------------------------
(* A world of people, two points each, along the x axis.  A, B and C are   *)
(* as near each other as may be without being taken for one.               *)
EXTENDS ObstacleTracker

Person(x) == <<<<x - 1, 0, 10>>, <<x + 1, 0, 10>>>>
A == Person(20)
B == Person(40)
C == Person(60)
Step == Person(38)                      \* A, or B, on the way
Bird == <<<<20, 0, 30>>>>               \* too high
Pole == <<<<50, 20, 10>>>>              \* a single point
Wall == <<<<30, 20, 5>>, <<56, 20, 5>>, <<43, 20, 5>>>>   \* too wide

MC_Clouds == {<<>>, Bird \o A, Pole \o B \o A, A \o B, Step, Wall \o C \o A}
=============================================================================
