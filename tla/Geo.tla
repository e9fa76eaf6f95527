-------------------------------- MODULE Geo --------------------------------
(***************************************************************************)
(* The geometry of telemetry_handler_wp_manager.cpp, over pairs of         *)
(* integers.  A GPS position is <<latitude, longitude>> in whole degrees,  *)
(* a map point is <<x, y>> in whole metres.  The conversion keeps what the *)
(* mission logic tells apart: equal positions map to the origin, distinct  *)
(* ones to points that are MetresPerDegree or more apart.  The cosine that *)
(* shrinks the east axis is left out.                                      *)
(***************************************************************************)
EXTENDS Integers

CONSTANT MetresPerDegree

ASSUME MetresPerDegreeAssumption ==
  MetresPerDegree \in Nat /\ MetresPerDegree > 10

Points == Int \X Int
Origin == <<0, 0>>

Abs(n) == IF n < 0 THEN -n ELSE n

\* A conversion with a coordinate off the globe gives the origin.
OnGlobe(p) == Abs(p[1]) <= 90 /\ Abs(p[2]) <= 180

GpsToMap(p, ref) ==
  IF OnGlobe(p) /\ OnGlobe(ref)
  THEN <<(p[2] - ref[2]) * MetresPerDegree, (p[1] - ref[1]) * MetresPerDegree>>
  ELSE Origin

\* goalCb's guess whether the coordinates of a goal are degrees.
LooksLikeGps(p) == OnGlobe(p) /\ (Abs(p[1]) > 1 \/ Abs(p[2]) > 1)

LocalFrames == {"map", "odom", "base_link", ""}

\* The map point goalCb stores for coordinates p received in frame f.
InterpretGoal(f, p, ref) ==
  IF f \in LocalFrames /\ ~LooksLikeGps(p) THEN p ELSE GpsToMap(p, ref)

DistSq(a, b) ==
  (a[1] - b[1]) * (a[1] - b[1]) + (a[2] - b[2]) * (a[2] - b[2])
=============================================================================
