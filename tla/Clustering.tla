----------------------------- MODULE Clustering -----------------------------
(***************************************************************************)
(* From a LiDAR cloud to clusters, in dynamic_obstacle_processor.cpp: the  *)
(* points of cloudCallback that may belong to a person, clusterPoints, and *)
(* what is computed of a cluster.  A point is <<x, y, z>>, lengths are in  *)
(* decimetres.                                                             *)
(***************************************************************************)
EXTENDS Integers, Sequences, FiniteSets

CONSTANTS
  TriggerRadius,           \* trigger_radius
  HeightMin, HeightMax,    \* human_height_min, human_height_max
  ClusteringDistance,      \* clustering_distance
  MinClusterPoints,        \* min_cluster_points
  MaxHumanRadius,          \* max_human_radius
  InflationRadius          \* inflation_radius

ASSUME ClusteringAssumption ==
  /\ {TriggerRadius, HeightMin, HeightMax, ClusteringDistance,
      MinClusterPoints, MaxHumanRadius, InflationRadius} \subseteq Nat
  /\ MinClusterPoints > 0 /\ ClusteringDistance > 0

\* The squared distance of two points, seen from above.
FlatSq(p, q) == (p[1] - q[1]) * (p[1] - q[1]) + (p[2] - q[2]) * (p[2] - q[2])

\* The whole part of a square root.
Root(n) == CHOOSE k \in 0..n : k * k <= n /\ (k + 1) * (k + 1) > n

Ego == <<0, 0>>

\* Near enough, not the vehicle itself, and at the height of a person.
IsCandidate(p) ==
  /\ FlatSq(p, Ego) < TriggerRadius * TriggerRadius
  /\ FlatSq(p, Ego) > 1
  /\ p[3] > HeightMin /\ p[3] < HeightMax

\* The members of S up to n, in increasing order.
Ascending(S, n) ==
  LET upTo[k \in 0..n] ==
        IF k = 0 THEN <<>>
        ELSE IF k \in S THEN Append(upTo[k - 1], k) ELSE upTo[k - 1]
  IN upTo[n]

\* The elements of s at the positions that c lists, and at those in S.
Selected(s, c) == [m \in DOMAIN c |-> s[c[m]]]
Part(s, S)     == Selected(s, Ascending(S, Len(s)))

Candidates(cloud) == Part(cloud, {i \in DOMAIN cloud : IsCandidate(cloud[i])})

PointsOf(c) == {c[m] : m \in DOMAIN c}

-----------------------------------------------------------------------------
\* clusterPoints.  Indices of points stand for points.
Adjacent(pts, i, k) ==
  FlatSq(pts[i], pts[k]) < ClusteringDistance * ClusteringDistance

\* The turn of the loop for element j of a cluster: the points of free that
\* are near it join the cluster.
Join(pts, c, j, free) ==
  IF j > Len(c) THEN c
  ELSE c \o Ascending({k \in free \ PointsOf(c) : Adjacent(pts, c[j], k)},
                      Len(pts))

\* The cluster that starts with point i takes the points of free that are
\* near its first element, then those near its second, and so on.
GrowOnce(pts, i, free) == Join(pts, <<i>>, 1, free)
Grow(pts, i, free) ==
  LET grown[j \in 0..Len(pts)] ==
        IF j = 0 THEN <<i>> ELSE Join(pts, grown[j - 1], j, free)
  IN grown[Len(pts)]

\* A point that is in no cluster yet begins one.
Assign(pts, s, i) ==
  IF i \notin s.free THEN s
  ELSE LET c == Grow(pts, i, s.free)
       IN [clusters |-> Append(s.clusters, c), free |-> s.free \ PointsOf(c)]

\* The clusters, in the order of their first points.
ClusterPoints(pts) ==
  LET after[i \in 0..Len(pts)] ==
        IF i = 0 THEN [clusters |-> <<>>, free |-> DOMAIN pts]
        ELSE Assign(pts, after[i - 1], i)
      found == after[Len(pts)].clusters
  IN [n \in DOMAIN found |-> Selected(pts, found[n])]

-----------------------------------------------------------------------------
\* The middle of a cluster and its reach around it.
SumOf(c, axis) ==
  LET sum[m \in 0..Len(c)] == IF m = 0 THEN 0 ELSE sum[m - 1] + c[m][axis]
  IN sum[Len(c)]

Centre(c) == <<SumOf(c, 1) \div Len(c), SumOf(c, 2) \div Len(c)>>

RadiusSq(c) ==
  CHOOSE r \in {FlatSq(c[m], Centre(c)) : m \in DOMAIN c} :
    \A m \in DOMAIN c : FlatSq(c[m], Centre(c)) <= r

\* A cluster that may be a person: not too few points, not too wide.
IsPerson(c) ==
  /\ Len(c) >= MinClusterPoints
  /\ RadiusSq(c) <= MaxHumanRadius * MaxHumanRadius

\* What the tracker is given of a cluster.
Detection(c) ==
  [pos |-> Centre(c), radius |-> Root(RadiusSq(c)) + InflationRadius]

Detections(cloud) ==
  LET found  == ClusterPoints(Candidates(cloud))
      people == Part(found, {n \in DOMAIN found : IsPerson(found[n])})
  IN [n \in DOMAIN people |-> Detection(people[n])]

-----------------------------------------------------------------------------
\* Reference definition of a clustering: every point is in one cluster, once;
\* points of two clusters are never near each other; and no cluster falls
\* into two parts that are not near each other.
NearSets(S, T) ==
  \E p \in S, q \in T :
    FlatSq(p, q) < ClusteringDistance * ClusteringDistance

Count(p, c) == Cardinality({m \in DOMAIN c : c[m] = p})

IsClustering(pts, cs) ==
  /\ \A p \in PointsOf(pts) :
       \E n \in DOMAIN cs : /\ Count(p, cs[n]) = Count(p, pts)
                            /\ \A m \in DOMAIN cs \ {n} : Count(p, cs[m]) = 0
  /\ \A n \in DOMAIN cs : PointsOf(cs[n]) \subseteq PointsOf(pts)
  /\ \A n, m \in DOMAIN cs :
       n # m => ~NearSets(PointsOf(cs[n]), PointsOf(cs[m]))
  /\ \A n \in DOMAIN cs : \A S \in SUBSET PointsOf(cs[n]) :
       S # {} /\ S # PointsOf(cs[n]) => NearSets(S, PointsOf(cs[n]) \ S)
=============================================================================
