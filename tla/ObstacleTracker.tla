-------------------------- MODULE ObstacleTracker --------------------------
(***************************************************************************)
(* The tracker of dynamic_obstacle_processor.cpp.  cloudCallback runs to   *)
(* its end before the next cloud is taken; it is modelled as one step that *)
(* takes the cloud, one per detection, and one that counts the misses,     *)
(* forgets obstacles and publishes.  Times are in tenths of a second,      *)
(* speeds in millimetres per second.                                       *)
(*                                                                         *)
(* The vehicle stands still, so that map and sensor frame agree.  Left     *)
(* out: last_detected, which equals stamp, the frame, z and the markers.   *)
(***************************************************************************)
EXTENDS Clustering

CONSTANTS
  AssociationDistance,   \* association_distance
  MinDynamicVelocity,    \* min_dynamic_velocity
  StaticTime,            \* static_observation_time
  Clouds,                \* clouds the sensor may send
  Gaps,                  \* times between two clouds
  MaxClouds              \* bound on the number of clouds

ASSUME TrackerAssumption ==
  /\ {AssociationDistance, MinDynamicVelocity, StaticTime} \subseteq Nat
  /\ AssociationDistance > 0 /\ MinDynamicVelocity > 0
  /\ \A c \in Clouds : c \in Seq(Int \X Int \X Int)
  /\ Gaps \subseteq Nat /\ MaxClouds \in Nat

VARIABLES
  obstacles,   \* prev_state_, from ids to states
  nextId,      \* next_obstacle_id_
  cloud,       \* the cloud that is processed, or was processed last
  todo,        \* its detections the loop has still to take
  missing,     \* prev_ids that are not matched
  busy,        \* cloudCallback runs
  now,         \* the stamp of the cloud
  filtered,    \* the points of it that are published, once it is processed
  clouds,      \* the clouds so far
  centres,     \* where the cloud was found to show a person
  seen         \* where any cloud was

trackVars == <<obstacles, nextId>>
cloudVars == <<cloud, now, clouds, centres, seen>>
vars == <<trackVars, cloudVars, todo, missing, busy, filtered>>

Ids == DOMAIN obstacles

Init ==
  /\ obstacles = <<>> /\ nextId = 0
  /\ cloud = <<>> /\ todo = <<>> /\ missing = {} /\ busy = FALSE
  /\ now = 0 /\ filtered = {}
  /\ clouds = 0 /\ centres = {} /\ seen = {}

-----------------------------------------------------------------------------
\* What the clouds show, once and for all.
Views == {<<Detections(c), c>> : c \in Clouds}

CloudCallback ==
  /\ ~busy
  /\ clouds < MaxClouds
  /\ \E view \in Views : todo' = view[1] /\ cloud' = view[2]
  /\ \E gap \in Gaps : now' = now + gap
  /\ centres' = {} /\ missing' = Ids
  /\ busy' = TRUE /\ filtered' = {}
  /\ clouds' = clouds + 1
  /\ UNCHANGED <<trackVars, seen>>

AnyNear(pos) ==
  {id \in Ids : FlatSq(obstacles[id].pos, pos)
                  <= AssociationDistance * AssociationDistance}
\* The obstacles findClosestObstacle may return: the closest one, if it is
\* close enough; the order of prev_state_ decides between equals.
Closest(pos) ==
  {id \in Ids :
     /\ FlatSq(obstacles[id].pos, pos)
          < AssociationDistance * AssociationDistance
     /\ \A other \in Ids :
          FlatSq(obstacles[id].pos, pos) <= FlatSq(obstacles[other].pos, pos)}

DoNotClamp(v) == v
Clamp(v) == IF v > 3000 THEN 3000 ELSE IF v < -3000 THEN -3000 ELSE v

\* Six parts of the speed since the last detection, four of the old one.
Smooth(d, dt, v) == (6 * Clamp((1000 * d) \div dt) + 4 * v) \div 10

\* updateObstacleState for a known obstacle.
Velocity(o, pos) ==
  LET dt == now - o.stamp
  IN IF dt > 0 /\ dt < 15
     THEN <<Smooth(pos[1] - o.pos[1], dt, o.vel[1]),
            Smooth(pos[2] - o.pos[2], dt, o.vel[2])>>
     ELSE <<(8 * o.vel[1]) \div 10, (8 * o.vel[2]) \div 10>>

SpeedSq(v) == FlatSq(v, <<0, 0>>)

\* The highest speed is kept of velocities that were measured only.
TopSpeedSq(o, v) ==
  LET dt == now - o.stamp
  IN IF dt > 0 /\ dt < 15 /\ SpeedSq(v) > o.topSq THEN SpeedSq(v) ELSE o.topSq

AlwaysDynamic(first, topSq) == TRUE
IsDynamic(first, topSq) ==
  ~(now - first > StaticTime /\ topSq < MinDynamicVelocity * MinDynamicVelocity)

UpdatedWithMisses(o, d) ==
  [pos |-> d.pos, vel |-> Velocity(o, d.pos), radius |-> d.radius,
   stamp |-> now, first |-> o.first, missed |-> o.missed,
   dynamic |-> IsDynamic(o.first, TopSpeedSq(o, Velocity(o, d.pos))),
   topSq |-> TopSpeedSq(o, Velocity(o, d.pos)), cloud |-> clouds]
Updated(o, d) ==
  LET v == Velocity(o, d.pos)
      top == TopSpeedSq(o, v)
  IN [pos |-> d.pos, vel |-> v, radius |-> d.radius, stamp |-> now,
      first |-> o.first, missed |-> 0, dynamic |-> IsDynamic(o.first, top),
      topSq |-> top, cloud |-> clouds]

New(d) ==
  [pos |-> d.pos, vel |-> <<0, 0>>, radius |-> d.radius, stamp |-> now,
   first |-> now, missed |-> 0, dynamic |-> IsDynamic(now, 0), topSq |-> 0,
   cloud |-> clouds]

\* One turn of the loop over the clusters: a detection is the closest known
\* obstacle, or a new one, which the following detections may match.
Matched ==
  \E id \in Closest(Head(todo).pos) :
    /\ obstacles' = [obstacles EXCEPT ![id] = Updated(@, Head(todo))]
    /\ missing' = missing \ {id}
    /\ UNCHANGED nextId

Unmatched ==
  /\ Closest(Head(todo).pos) = {}
  /\ obstacles' = [id \in Ids \cup {nextId} |->
                     IF id = nextId THEN New(Head(todo)) ELSE obstacles[id]]
  /\ nextId' = nextId + 1
  /\ UNCHANGED missing

TrackDetection ==
  /\ Matched \/ Unmatched
  /\ centres' = centres \cup {Head(todo).pos}
  /\ seen' = seen \cup {Head(todo).pos}

\* Its centre cannot be transformed to the map: it is skipped.
SkipDetection == UNCHANGED <<trackVars, missing, centres, seen>>

NextDetection ==
  /\ busy
  /\ todo # <<>>
  /\ TrackDetection \/ SkipDetection
  /\ todo' = Tail(todo)
  /\ UNCHANGED <<cloud, now, clouds, busy, filtered>>

\* The points of the cloud that no dynamic obstacle covers, if the transform
\* of the obstacles in hide succeeds.
Filter(hide) ==
  {p \in PointsOf(cloud) :
     \A id \in hide :
       FlatSq(p, obstacles'[id].pos)
         > obstacles'[id].radius * obstacles'[id].radius}

\* missed_frames is counted, cleanExpiredObstacles forgets, the rest is
\* published.
FinishCloud ==
  /\ busy
  /\ todo = <<>>
  /\ LET Misses(id) == obstacles[id].missed + (IF id \in missing THEN 1 ELSE 0)
     IN obstacles' = [id \in {id \in Ids : Misses(id) <= 3} |->
                        [obstacles[id] EXCEPT !.missed = Misses(id)]]
  /\ \E hide \in SUBSET {id \in DOMAIN obstacles' : obstacles'[id].dynamic} :
       filtered' = Filter(hide)
  /\ busy' = FALSE /\ missing' = {}
  /\ UNCHANGED <<nextId, cloudVars, todo>>

Next == CloudCallback \/ NextDetection \/ FinishCloud

Spec == Init /\ [][Next]_vars

-----------------------------------------------------------------------------
Speeds == -3000..3000

\* The types of all state: ids come from the counter, and a smoothed speed
\* stays within the clamp.
ObstacleStates ==
  [pos : Int \X Int, vel : Speeds \X Speeds, radius : Nat, stamp : Nat,
   first : Nat, missed : Nat, dynamic : BOOLEAN, topSq : Nat, cloud : Nat]

TypeOK ==
  /\ nextId \in Nat
  /\ Ids \subseteq 0..(nextId - 1)
  /\ \A id \in Ids : obstacles[id] \in ObstacleStates
  /\ todo \in Seq([pos : Int \X Int, radius : Nat])
  /\ missing \subseteq Ids
  /\ busy \in BOOLEAN
  /\ now \in Nat /\ clouds \in 0..MaxClouds
  /\ centres \subseteq seen /\ seen \subseteq Int \X Int

Apart(S) ==
  \A p, q \in S :
    p # q => FlatSq(p, q) >= AssociationDistance * AssociationDistance

\* As long as everything that was ever seen stands still, nothing is taken
\* for moving: whatever is missed now and then, in whatever order clusters
\* come, each place is one obstacle without speed.  (It may still be taken
\* for dynamic until it was watched for static_observation_time.)
StillWorldStandsStill ==
  Apart(seen) =>
    /\ \A id \in Ids : /\ obstacles[id].pos \in seen
                       /\ obstacles[id].vel = <<0, 0>>
                       /\ obstacles[id].topSq = 0
    /\ \A id, other \in Ids :
         obstacles[id].pos = obstacles[other].pos => id = other

\* People far enough apart for the association are tracked one by one: none
\* takes the place of another in the same cloud, however they moved since.
PeopleAreTracked ==
  Apart(centres) =>
    \A p \in centres :
      \E id \in Ids : obstacles[id].pos = p /\ obstacles[id].missed = 0

\* missed_frames counts the clouds since an obstacle was last detected, and
\* no obstacle is kept that four clouds in a row did not show.
MissesAreCounted ==
  ~busy =>
    \A id \in Ids : /\ obstacles[id].missed = clouds - obstacles[id].cloud
                    /\ obstacles[id].missed <= 3

\* Only a cloud that may hide a person loses points: in a world where all that
\* was seen stands still, a point is left out of the published cloud only near
\* an obstacle that has not been watched for static_observation_time yet.
StillPointsStay ==
  ~busy /\ Apart(seen) =>
    \A p \in PointsOf(cloud) \ filtered :
      \E id \in Ids : /\ obstacles[id].stamp - obstacles[id].first <= StaticTime
                      /\ FlatSq(p, obstacles[id].pos)
                           <= obstacles[id].radius * obstacles[id].radius

\* clusterPoints finds exactly the connected groups of points, of every cloud
\* and its parts, whatever their order.
ClusteringIsRight ==
  clouds = 0 =>
    \A c \in Clouds : \A K \in SUBSET DOMAIN c :
      LET pts == Candidates(Part(c, K))
      IN IsClustering(pts, ClusterPoints(pts))
=============================================================================
