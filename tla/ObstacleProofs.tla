--------------------------- MODULE ObstacleProofs ---------------------------
(***************************************************************************)
(* Theorems about ObstacleTracker and Clustering, for all clouds and all    *)
(* values of the parameters.                                                *)
(*                                                                          *)
(* The first part is about one cloud: clusterPoints finds the connected     *)
(* groups of points, and what the tracker is given of them has the types it *)
(* relies on.  The loops of clusterPoints are recursive functions over an   *)
(* interval 0..n.  Two lemmas carry them: Recursion says that such a        *)
(* function exists, UpTo is induction over the interval.                    *)
(*                                                                          *)
(* The second part is about the tracker: types and identities, the counting *)
(* of misses, that a still world stands still and keeps its points, and that *)
(* people are tracked.  Each is inductive, together with the types, one     *)
(* detection at a time.                                                     *)
(***************************************************************************)
EXTENDS ObstacleTracker, FunctionTheorems, FiniteSetTheorems,
        WellFoundedInduction, TLAPS

Point3D == Int \X Int \X Int

-----------------------------------------------------------------------------
\* A set of naturals that is not empty has a least element.
LEMMA LeastNumber ==
  ASSUME NEW T, T \subseteq Nat, T # {}
  PROVE  \E x \in T : \A y \in T : x <= y
<1>1. PICK x \in T : \A y \in T : ~ (<<y, x>> \in OpToRel(<, Nat))
  BY WFMin, NatLessThanWellFounded
<1>2. \A y \in T : ~ (y < x) BY <1>1 DEF OpToRel
<1>. QED BY <1>2

\* Induction up to n; the set G holds the numbers something is shown of.
LEMMA UpTo ==
  ASSUME NEW n \in Nat, NEW G,
         0 \in G, \A j \in 1..n : j - 1 \in G => j \in G
  PROVE  \A j \in 0..n : j \in G
<1> DEFINE bad == {j \in 0..n : j \notin G}
<1>1. SUFFICES ASSUME bad # {} PROVE FALSE OBVIOUS
<1>2. PICK j \in bad : \A k \in bad : j <= k
  <2>1. bad \subseteq Nat OBVIOUS
  <2>. HIDE DEF bad
  <2>. QED BY <1>1, <2>1, LeastNumber
<1>3. j \in 1..n /\ j - 1 \in 0..n /\ ~(j <= j - 1)
  <2>1. j \in 0..n /\ j \notin G OBVIOUS
  <2>2. j # 0 BY <2>1
  <2>. QED BY <2>1, <2>2
<1>4. j - 1 \in G BY <1>2, <1>3
<1>. QED BY <1>3, <1>4

\* A function that is defined from 0 to n by steps exists.
Steps(Step, n, X) == Step \in [1..n -> [X -> X]]

Follows(f, first, Step, n, X) ==
  /\ f \in [0..n -> X]
  /\ f[0] = first
  /\ \A j \in 1..n : f[j] = Step[j][f[j - 1]]

LEMMA Recursion ==
  ASSUME NEW n \in Nat, NEW X, NEW first \in X, NEW Step, Steps(Step, n, X)
  PROVE  \E f : Follows(f, first, Step, n, X)
<1>0. Step \in [1..n -> [X -> X]] BY DEF Steps
<1> DEFINE Upto(m, f) == /\ f \in [0..m -> X] /\ f[0] = first
                         /\ \A j \in 1..m : f[j] = Step[j][f[j - 1]]
           G == {m \in 0..n : \E f : Upto(m, f)}
<1>1. 0 \in G
  <2>1. Upto(0, [j \in 0..0 |-> first]) OBVIOUS
  <2>. HIDE DEF Upto
  <2>. QED BY <2>1
<1>2. ASSUME NEW m \in 1..n, m - 1 \in G  PROVE m \in G
  <2>1. PICK f : Upto(m - 1, f) BY <1>2
  <2> DEFINE g == [j \in 0..m |-> IF j = m THEN Step[m][f[m - 1]] ELSE f[j]]
  <2>2. m - 1 \in 0..(m - 1) /\ f[m - 1] \in X BY <2>1
  <2>3. Step[m][f[m - 1]] \in X BY <1>0, <2>2
  <2>4. \A j \in 0..m : j # m => j \in 0..(m - 1) OBVIOUS
  <2>5. g \in [0..m -> X] BY <2>1, <2>3, <2>4
  <2>6. g[0] = first BY <2>1
  <2>7. ASSUME NEW j \in 1..m  PROVE g[j] = Step[j][g[j - 1]]
    <3>1. j - 1 \in 0..m /\ j - 1 # m /\ g[j - 1] = f[j - 1] OBVIOUS
    <3>2. CASE j = m BY <3>1, <3>2
    <3>3. CASE j # m
      <4>1. j \in 1..(m - 1) BY <3>3
      <4>2. g[j] = f[j] BY <3>3
      <4>. QED BY <2>1, <3>1, <4>1, <4>2
    <3>. QED BY <3>2, <3>3
  <2>8. Upto(m, g) BY <2>5, <2>6, <2>7
  <2>. HIDE DEF Upto, g
  <2>. QED BY <2>8
<1>3. \A j \in 0..n : j \in G
  <2>. HIDE DEF G
  <2>. QED BY <1>1, <1>2, UpTo
<1>4. n \in G BY <1>3
<1>5. PICK f : Upto(n, f) BY <1>4
<1>6. Follows(f, first, Step, n, X) BY <1>5 DEF Follows
<1>. QED BY <1>6

-----------------------------------------------------------------------------
\* Ascending lists the members of a set, each once.
Lists(c, S) ==
  /\ c \in Seq(S) /\ PointsOf(c) = S
  /\ \A i, j \in 1..Len(c) : c[i] = c[j] => i = j

LEMMA SeqOfMore ==
  ASSUME NEW S, NEW T, S \subseteq T, NEW c \in Seq(S)  PROVE c \in Seq(T)
<1>1. Len(c) \in Nat /\ \A m \in 1..Len(c) : c[m] \in S OBVIOUS
<1>2. \A m \in 1..Len(c) : c[m] \in T BY <1>1
<1>. QED BY <1>1, <1>2

LEMMA AppendLists ==
  ASSUME NEW S, NEW c, Lists(c, S), NEW k, k \notin S
  PROVE  Lists(Append(c, k), S \cup {k})
<1> DEFINE d == Append(c, k)
<1>1. c \in Seq(S) /\ Len(c) \in Nat /\ DOMAIN c = 1..Len(c) BY DEF Lists
<1>2. \A i \in 1..Len(c) : c[i] \in S BY <1>1
<1>3. c \in Seq(S \cup {k})
  <2>1. \A i \in 1..Len(c) : c[i] \in S \cup {k} BY <1>2
  <2>. QED BY <1>1, <2>1
<1>4. /\ d \in Seq(S \cup {k}) /\ Len(d) = Len(c) + 1
      /\ DOMAIN d = 1..(Len(c) + 1) /\ d[Len(c) + 1] = k
      /\ \A i \in 1..Len(c) : d[i] = c[i]
  BY <1>1, <1>3
<1> HIDE DEF d
<1>5. \A i \in 1..(Len(c) + 1) : i \in 1..Len(c) \/ i = Len(c) + 1 BY <1>1
<1>6. PointsOf(d) = S \cup {k}
  <2>1. PointsOf(c) = S BY DEF Lists
  <2>2. PointsOf(d) \subseteq S \cup {k} BY <1>2, <1>4, <1>5 DEF PointsOf
  <2>3. k \in PointsOf(d) BY <1>1, <1>4 DEF PointsOf
  <2>4. ASSUME NEW x \in S  PROVE x \in PointsOf(d)
    <3>1. PICK i \in 1..Len(c) : x = c[i] BY <1>1, <2>1 DEF PointsOf
    <3>2. i \in 1..(Len(c) + 1) BY <1>1
    <3>. QED BY <1>4, <3>1, <3>2 DEF PointsOf
  <2>. QED BY <2>2, <2>3, <2>4
<1>7. ASSUME NEW i \in 1..Len(d), NEW j \in 1..Len(d), d[i] = d[j]  PROVE i = j
  <2>1. \A m, l \in 1..Len(c) : c[m] = c[l] => m = l BY DEF Lists
  <2>. QED BY <1>2, <1>4, <1>5, <1>7, <2>1
<1>8. Lists(d, S \cup {k}) BY <1>4, <1>6, <1>7 DEF Lists
<1>. QED BY <1>8 DEF d

LEMMA AscendingLists ==
  ASSUME NEW n \in Nat, NEW S, S \subseteq 1..n
  PROVE  Lists(Ascending(S, n), S)
<1> DEFINE Upto(f) == f = [k \in 0..n |->
                             IF k = 0 THEN <<>>
                             ELSE IF k \in S THEN Append(f[k - 1], k)
                                  ELSE f[k - 1]]
           upTo == CHOOSE f : Upto(f)
<1>1. \E f : Upto(f)
  <2> DEFINE Step == [k \in 1..n |-> [c \in Seq(Nat) |->
                        IF k \in S THEN Append(c, k) ELSE c]]
  <2>1. Step \in [1..n -> [Seq(Nat) -> Seq(Nat)]]
    <3>1. \A k \in 1..n, c \in Seq(Nat) : Append(c, k) \in Seq(Nat) OBVIOUS
    <3>. QED BY <3>1
  <2>2. PICK f \in [0..n -> Seq(Nat)] :
          f[0] = <<>> /\ \A k \in 1..n : f[k] = Step[k][f[k - 1]]
    <3>1. Steps(Step, n, Seq(Nat)) BY <2>1 DEF Steps
    <3>2. <<>> \in Seq(Nat) OBVIOUS
    <3>. HIDE DEF Step
    <3>3. PICK f : Follows(f, <<>>, Step, n, Seq(Nat))
      BY <3>1, <3>2, Recursion
    <3>. QED BY <3>3 DEF Follows
  <2>3. \A k \in 1..n : f[k] = Step[k][f[k - 1]] BY <2>2
  <2>4. ASSUME NEW k \in 1..n
        PROVE  f[k] = IF k \in S THEN Append(f[k - 1], k) ELSE f[k - 1]
    <3>1. f[k - 1] \in Seq(Nat) BY <2>2
    <3>. QED BY <2>3, <3>1
  <2>5. \A k \in 0..n : k = 0 \/ k \in 1..n OBVIOUS
  <2>6. Upto(f) BY <2>2, <2>4, <2>5
  <2>. HIDE DEF Upto
  <2>. QED BY <2>6
<1>2. Upto(upTo)
  <2>. HIDE DEF Upto
  <2>. QED BY <1>1
<1>3. Ascending(S, n) = upTo[n] BY DEF Ascending
<1> HIDE DEF upTo
<1> DEFINE G == {k \in 0..n : Lists(upTo[k], S \cap (1..k))}
<1>4. 0 \in G
  <2>1. upTo[0] = <<>> BY <1>2
  <2>2. S \cap (1..0) = {} OBVIOUS
  <2>3. Lists(<<>>, {}) BY DEF Lists, PointsOf
  <2>. QED BY <2>1, <2>2, <2>3
<1>5. ASSUME NEW k \in 1..n, k - 1 \in G  PROVE k \in G
  <2>1. Lists(upTo[k - 1], S \cap (1..(k - 1))) BY <1>5
  <2>2. upTo[k] = IF k \in S THEN Append(upTo[k - 1], k) ELSE upTo[k - 1]
    <3>1. k \in 0..n /\ k # 0 OBVIOUS
    <3>2. upTo[k] = IF k = 0 THEN <<>>
                    ELSE IF k \in S THEN Append(upTo[k - 1], k) ELSE upTo[k - 1]
      BY <1>2, <3>1 DEF upTo
    <3>. QED BY <3>1, <3>2
  <2>3. CASE k \in S
    <3>1. S \cap (1..k) = (S \cap (1..(k - 1))) \cup {k} BY <2>3
    <3>2. k \notin S \cap (1..(k - 1)) OBVIOUS
    <3>3. Lists(upTo[k], S \cap (1..k))
      BY <2>1, <2>2, <2>3, <3>1, <3>2, AppendLists
    <3>. QED BY <3>3
  <2>4. CASE k \notin S
    <3>1. S \cap (1..k) = S \cap (1..(k - 1)) BY <2>4
    <3>. QED BY <2>1, <2>2, <2>4, <3>1
  <2>. QED BY <2>3, <2>4
<1>6. n \in G
  <2>. HIDE DEF G
  <2>. QED BY <1>4, <1>5, UpTo
<1>7. S \cap (1..n) = S OBVIOUS
<1>. QED BY <1>3, <1>6, <1>7

\* What Part leaves of a sequence is made of its elements, and is all of
\* those at the positions asked for.
LEMMA PartType ==
  ASSUME NEW X, NEW s \in Seq(X), NEW S, S \subseteq DOMAIN s
  PROVE  Part(s, S) \in Seq(X) /\ PointsOf(Part(s, S)) = {s[i] : i \in S}
<1> DEFINE kept == Ascending(S, Len(s))
<1>1. Len(s) \in Nat /\ DOMAIN s = 1..Len(s) /\ \A i \in 1..Len(s) : s[i] \in X
  OBVIOUS
<1>2. Lists(kept, S) BY <1>1, AscendingLists
<1>3. Part(s, S) = [m \in DOMAIN kept |-> s[kept[m]]] BY DEF Part, Selected
<1> HIDE DEF kept
<1>4. kept \in Seq(S) /\ PointsOf(kept) = S BY <1>2 DEF Lists
<1>5. Len(kept) \in Nat /\ DOMAIN kept = 1..Len(kept)
      /\ \A m \in 1..Len(kept) : kept[m] \in S
  BY <1>4
<1>6. \A m \in 1..Len(kept) : s[kept[m]] \in X BY <1>1, <1>5
<1>7. Part(s, S) \in Seq(X) BY <1>3, <1>5, <1>6
<1>8. DOMAIN Part(s, S) = 1..Len(kept)
      /\ \A m \in 1..Len(kept) : Part(s, S)[m] = s[kept[m]]
  BY <1>3, <1>5
<1>9. PointsOf(Part(s, S)) = {s[i] : i \in S}
  BY <1>4, <1>5, <1>8 DEF PointsOf
<1>. QED BY <1>7, <1>9

-----------------------------------------------------------------------------
\* Two lists without a common member make a list.
LEMMA ConcatLists ==
  ASSUME NEW S, NEW T, NEW c, NEW a, Lists(c, S), Lists(a, T), S \cap T = {}
  PROVE  Lists(c \o a, S \cup T)
<1> DEFINE d == c \o a
<1>1. /\ c \in Seq(S) /\ Len(c) \in Nat /\ DOMAIN c = 1..Len(c)
      /\ a \in Seq(T) /\ Len(a) \in Nat /\ DOMAIN a = 1..Len(a)
  BY DEF Lists
<1>2. \A i \in 1..Len(c) : c[i] \in S BY <1>1
<1>3. \A i \in 1..Len(a) : a[i] \in T BY <1>1
<1>4. c \in Seq(S \cup T) /\ a \in Seq(S \cup T)
  <2>1. \A i \in 1..Len(c) : c[i] \in S \cup T BY <1>2
  <2>2. \A i \in 1..Len(a) : a[i] \in S \cup T BY <1>3
  <2>. QED BY <1>1, <2>1, <2>2
<1>5. /\ d \in Seq(S \cup T) /\ Len(d) = Len(c) + Len(a)
      /\ DOMAIN d = 1..(Len(c) + Len(a))
      /\ \A i \in 1..Len(c) : d[i] = c[i]
      /\ \A i \in 1..Len(a) : d[Len(c) + i] = a[i]
  BY <1>4
<1> HIDE DEF d
<1>6. \A i \in 1..Len(d) : \/ i \in 1..Len(c)
                           \/ i - Len(c) \in 1..Len(a)
                              /\ Len(c) + (i - Len(c)) = i
  BY <1>1, <1>5
<1>7. \A i \in 1..Len(d) : \/ i \in 1..Len(c) /\ d[i] = c[i]
                           \/ /\ i - Len(c) \in 1..Len(a)
                              /\ d[i] = a[i - Len(c)]
  <2> TAKE i \in 1..Len(d)
  <2>1. CASE i \in 1..Len(c) BY <1>5, <2>1
  <2>2. CASE i - Len(c) \in 1..Len(a) /\ Len(c) + (i - Len(c)) = i
    <3>1. d[Len(c) + (i - Len(c))] = a[i - Len(c)] BY <1>5, <2>2
    <3>. QED BY <2>2, <3>1
  <2>. QED BY <1>6, <2>1, <2>2
<1>8. PointsOf(d) = S \cup T
  <2>1. PointsOf(c) = S /\ PointsOf(a) = T BY DEF Lists
  <2>2. PointsOf(d) \subseteq S \cup T
    <3>1. \A i \in 1..Len(d) : d[i] \in S \cup T BY <1>2, <1>3, <1>7
    <3>. QED BY <1>5, <3>1 DEF PointsOf
  <2>3. ASSUME NEW x \in S  PROVE x \in PointsOf(d)
    <3>1. PICK i \in 1..Len(c) : x = c[i] BY <1>1, <2>1 DEF PointsOf
    <3>2. i \in 1..(Len(c) + Len(a)) BY <1>1
    <3>. QED BY <1>5, <3>1, <3>2 DEF PointsOf
  <2>4. ASSUME NEW x \in T  PROVE x \in PointsOf(d)
    <3>1. PICK i \in 1..Len(a) : x = a[i] BY <1>1, <2>1 DEF PointsOf
    <3>2. Len(c) + i \in 1..(Len(c) + Len(a)) BY <1>1
    <3>. QED BY <1>5, <3>1, <3>2 DEF PointsOf
  <2>. QED BY <2>2, <2>3, <2>4
<1>9. ASSUME NEW i \in 1..Len(d), NEW j \in 1..Len(d), d[i] = d[j]  PROVE i = j
  <2>1. /\ \A m, l \in 1..Len(c) : c[m] = c[l] => m = l
        /\ \A m, l \in 1..Len(a) : a[m] = a[l] => m = l
    BY DEF Lists
  <2>2. CASE i \in 1..Len(c) /\ d[i] = c[i]
    <3>1. ~(j - Len(c) \in 1..Len(a) /\ d[j] = a[j - Len(c)])
      BY <1>2, <1>3, <1>9, <2>2
    <3>. QED BY <1>7, <1>9, <2>1, <2>2, <3>1
  <2>3. CASE i - Len(c) \in 1..Len(a) /\ d[i] = a[i - Len(c)]
    <3>1. ~(j \in 1..Len(c) /\ d[j] = c[j])
      BY <1>2, <1>3, <1>9, <2>3
    <3>2. i - Len(c) = j - Len(c) BY <1>7, <1>9, <2>1, <2>3, <3>1
    <3>. QED BY <1>1, <3>2
  <2>. QED BY <1>7, <2>2, <2>3
<1>10. Lists(d, S \cup T) BY <1>5, <1>8, <1>9 DEF Lists
<1>. QED BY <1>10 DEF d

\* A list of numbers up to n is not longer than n.
LEMMA ListsFit ==
  ASSUME NEW n \in Nat, NEW S, S \subseteq 1..n, NEW c, Lists(c, S)
  PROVE  Len(c) \in Nat /\ Len(c) <= n
<1>1. /\ c \in Seq(S) /\ Len(c) \in Nat /\ DOMAIN c = 1..Len(c)
      /\ \A i \in 1..Len(c) : c[i] \in S
      /\ \A i, j \in 1..Len(c) : c[i] = c[j] => i = j
  BY DEF Lists
<1> DEFINE f == [i \in 1..Len(c) |-> c[i]]
<1>2. f \in [1..Len(c) -> 1..n] /\ DOMAIN f = 1..Len(c) BY <1>1
<1>3. \A i, j \in DOMAIN f : f[i] = f[j] => i = j BY <1>1
<1> HIDE DEF f
<1>4. f \in Injection(1..Len(c), 1..n)
  BY <1>2, <1>3 DEF Injection, IsInjective
<1>5. ExistsInjection(1..Len(c), 1..n) BY <1>4 DEF ExistsInjection
<1>. QED BY <1>1, <1>5, Fun_NatInjLeq

-----------------------------------------------------------------------------
\* A cluster while it grows: each element behind the first is near an earlier
\* one.  It is done up to element j if no free point is near these.
Grown(pts, c, free) ==
  /\ Lists(c, PointsOf(c)) /\ PointsOf(c) \subseteq free /\ c # <<>>
  /\ \A m \in 2..Len(c) : \E l \in 1..(m - 1) : Adjacent(pts, c[l], c[m])

DoneUpTo(pts, c, free, j) ==
  \A l \in 1..Len(c) :
    l <= j => \A k \in free \ PointsOf(c) : ~Adjacent(pts, c[l], k)

LEMMA JoinGrows ==
  ASSUME NEW pts, Len(pts) \in Nat, NEW free, free \subseteq 1..Len(pts),
         NEW c, NEW j \in 1..Len(pts),
         Grown(pts, c, free), DoneUpTo(pts, c, free, j - 1)
  PROVE  LET d == Join(pts, c, j, free)
         IN /\ Grown(pts, d, free) /\ DoneUpTo(pts, d, free, j)
            /\ PointsOf(c) \subseteq PointsOf(d)
<1> DEFINE d == Join(pts, c, j, free)
           C == PointsOf(c)
           T == {k \in free \ C : Adjacent(pts, c[j], k)}
           a == Ascending(T, Len(pts))
<1>1. /\ c \in Seq(C) /\ Len(c) \in Nat /\ DOMAIN c = 1..Len(c)
      /\ C \subseteq free /\ Lists(c, C) /\ c # <<>>
  BY DEF Grown, Lists
<1>2. CASE j > Len(c)
  <2>1. d = c BY <1>2 DEF Join
  <2>2. DoneUpTo(pts, c, free, j)
    <3>1. \A l \in 1..Len(c) : l <= j - 1 BY <1>1, <1>2
    <3>. QED BY <3>1 DEF DoneUpTo
  <2>. QED BY <2>1, <2>2
<1>3. CASE ~(j > Len(c))
  <2>1. d = c \o a BY <1>3 DEF Join
  <2>2. j \in 1..Len(c) BY <1>1, <1>3
  <2>3. Lists(a, T)
    <3>1. T \subseteq 1..Len(pts) OBVIOUS
    <3>. HIDE DEF T
    <3>. QED BY <3>1, AscendingLists
  <2>4. C \cap T = {} OBVIOUS
  <2>5. T \subseteq free /\ \A k \in T : Adjacent(pts, c[j], k) OBVIOUS
  <2>6. \A k \in free : k \in C \/ k \in T \/ ~Adjacent(pts, c[j], k) OBVIOUS
  <2> HIDE DEF a, T, C, d
  <2>7. Lists(d, C \cup T) BY <1>1, <2>1, <2>3, <2>4, ConcatLists
  <2>8. PointsOf(d) = C \cup T BY <2>7 DEF Lists
  <2>9. a \in Seq(T) /\ Len(a) \in Nat /\ \A i \in 1..Len(a) : a[i] \in T
    BY <2>3 DEF Lists
  <2>10. /\ Len(d) = Len(c) + Len(a)
         /\ \A i \in 1..Len(c) : d[i] = c[i]
         /\ \A i \in 1..Len(a) : d[Len(c) + i] = a[i]
    <3>1. \A s \in Seq(C), t \in Seq(T) :
            /\ Len(s \o t) = Len(s) + Len(t)
            /\ \A i \in 1..Len(s) : (s \o t)[i] = s[i]
            /\ \A i \in 1..Len(t) : (s \o t)[Len(s) + i] = t[i]
      OBVIOUS
    <3>. QED BY <1>1, <2>1, <2>9, <3>1
  <2>11. d # <<>>
    <3>1. Len(c) > 0 BY <1>1, <2>2
    <3>2. Len(d) > 0 BY <2>9, <2>10, <3>1
    <3>. QED BY <3>2
  <2>12. ASSUME NEW m \in 2..Len(d)
         PROVE  \E l \in 1..(m - 1) : Adjacent(pts, d[l], d[m])
    <3>1. CASE m \in 1..Len(c)
      <4>1. PICK l \in 1..(m - 1) : Adjacent(pts, c[l], c[m])
        BY <3>1 DEF Grown
      <4>2. l \in 1..Len(c) BY <1>1, <3>1
      <4>. QED BY <2>10, <3>1, <4>1, <4>2
    <3>2. CASE m \notin 1..Len(c)
      <4>1. m - Len(c) \in 1..Len(a) /\ Len(c) + (m - Len(c)) = m
        BY <1>1, <2>9, <2>10, <3>2
      <4>2. d[m] = a[m - Len(c)] BY <2>10, <4>1
      <4>3. d[m] \in T BY <2>9, <4>1, <4>2
      <4>4. j \in 1..(m - 1) /\ d[j] = c[j] BY <1>1, <2>2, <2>10, <3>2
      <4>. QED BY <2>5, <4>3, <4>4
    <3>. QED BY <3>1, <3>2
  <2>13. Grown(pts, d, free)
    BY <1>1, <2>5, <2>7, <2>8, <2>11, <2>12 DEF Grown
  <2>14. ASSUME NEW l \in 1..Len(d), l <= j, NEW k \in free \ PointsOf(d)
         PROVE  ~Adjacent(pts, d[l], k)
    <3>1. l \in 1..Len(c) /\ d[l] = c[l] BY <1>1, <2>2, <2>10, <2>14
    <3>2. k \in free /\ k \notin C /\ k \notin T BY <2>8
    <3>3. CASE l = j BY <2>6, <3>1, <3>2, <3>3
    <3>4. CASE l # j
      <4>1. l <= j - 1 BY <2>14, <3>1, <3>4
      <4>. QED BY <3>1, <3>2, <4>1 DEF DoneUpTo, C
    <3>. QED BY <3>3, <3>4
  <2>15. DoneUpTo(pts, d, free, j) BY <2>14 DEF DoneUpTo
  <2>. QED BY <2>8, <2>13, <2>15 DEF C, d
<1>. QED BY <1>2, <1>3

\* A cluster is done when the loop has taken its turn for every index.
LEMMA GrowIsDone ==
  ASSUME NEW pts, Len(pts) \in Nat, NEW free, free \subseteq 1..Len(pts),
         NEW i \in free
  PROVE  LET c == Grow(pts, i, free)
         IN /\ Grown(pts, c, free) /\ i \in PointsOf(c)
            /\ DoneUpTo(pts, c, free, Len(c))
<1> DEFINE N == Len(pts)
           Upto(f) == f = [j \in 0..N |->
                             IF j = 0 THEN <<i>> ELSE Join(pts, f[j - 1], j, free)]
           grown == CHOOSE f : Upto(f)
<1>1. \E f : Upto(f)
  <2> DEFINE X == Seq(1..N)
             Step == [j \in 1..N |-> [c \in X |-> Join(pts, c, j, free)]]
  <2>1. ASSUME NEW j \in 1..N, NEW c \in X  PROVE Join(pts, c, j, free) \in X
    <3> DEFINE T == {k \in free \ PointsOf(c) : Adjacent(pts, c[j], k)}
               a == Ascending(T, N)
    <3>1. T \subseteq 1..N OBVIOUS
    <3>2. a \in Seq(T)
      <4>. HIDE DEF T
      <4>. QED BY <3>1, AscendingLists DEF Lists
    <3>3. a \in Seq(1..N)
      <4>. HIDE DEF T, a
      <4>. QED BY <3>1, <3>2, SeqOfMore
    <3>4. Join(pts, c, j, free) = IF j > Len(c) THEN c ELSE c \o a
      BY DEF Join
    <3>. HIDE DEF a, T
    <3>5. c \o a \in Seq(1..N) BY <3>3
    <3>. QED BY <3>4, <3>5
  <2>2. Steps(Step, N, X) BY <2>1 DEF Steps
  <2>3. <<i>> \in X OBVIOUS
  <2>4. PICK f : Follows(f, <<i>>, Step, N, X)
    <3>. HIDE DEF Step, X, N
    <3>1. N \in Nat BY DEF N
    <3>. QED BY <2>2, <2>3, <3>1, Recursion
  <2>5. /\ f \in [0..N -> X] /\ f[0] = <<i>>
        /\ \A j \in 1..N : f[j] = Step[j][f[j - 1]]
    BY <2>4 DEF Follows
  <2>6. ASSUME NEW j \in 1..N  PROVE f[j] = Join(pts, f[j - 1], j, free)
    <3>1. f[j - 1] \in X BY <2>5
    <3>. HIDE DEF X
    <3>. QED BY <2>5, <3>1
  <2>7. \A j \in 0..N : j = 0 \/ j \in 1..N OBVIOUS
  <2>. HIDE DEF X, Step, N
  <2>8. f = [j \in 0..N |-> IF j = 0 THEN <<i>> ELSE Join(pts, f[j - 1], j, free)]
    BY <2>5, <2>6, <2>7
  <2>9. Upto(f) BY <2>8 DEF N
  <2>. HIDE DEF Upto
  <2>. QED BY <2>9
<1>2. Upto(grown)
  <2>. HIDE DEF Upto
  <2>. QED BY <1>1
<1>3. Grow(pts, i, free) = grown[N] BY DEF Grow
<1>4. /\ grown[0] = <<i>>
      /\ \A j \in 1..N : grown[j] = Join(pts, grown[j - 1], j, free)
  <2>1. grown = [j \in 0..N |->
                   IF j = 0 THEN <<i>> ELSE Join(pts, grown[j - 1], j, free)]
    BY <1>2
  <2>. HIDE DEF grown
  <2>2. 0 \in 0..N OBVIOUS
  <2>3. \A j \in 1..N : j \in 0..N /\ j # 0 OBVIOUS
  <2>. QED BY <2>1, <2>2, <2>3
<1> HIDE DEF grown, Upto
<1> DEFINE G == {j \in 0..N : /\ Grown(pts, grown[j], free)
                              /\ DoneUpTo(pts, grown[j], free, j)
                              /\ i \in PointsOf(grown[j])}
<1>5. 0 \in G
  <2>1. PointsOf(<<i>>) = {i} BY DEF PointsOf
  <2>2. Lists(<<i>>, {i})
    <3>1. /\ <<i>> \in Seq({i}) /\ Len(<<i>>) = 1
          /\ \A j \in 1..1 : j = 1
      OBVIOUS
    <3>. QED BY <2>1, <3>1 DEF Lists
  <2>3. Grown(pts, <<i>>, free)
    <3>1. <<i>> # <<>> /\ Len(<<i>>) = 1 OBVIOUS
    <3>2. 2..1 = {} OBVIOUS
    <3>. QED BY <2>1, <2>2, <3>1, <3>2 DEF Grown
  <2>4. DoneUpTo(pts, <<i>>, free, 0) BY DEF DoneUpTo
  <2>. QED BY <1>4, <2>1, <2>3, <2>4
<1>6. ASSUME NEW j \in 1..N, j - 1 \in G  PROVE j \in G
  <2>1. /\ Grown(pts, grown[j], free) /\ DoneUpTo(pts, grown[j], free, j)
        /\ PointsOf(grown[j - 1]) \subseteq PointsOf(grown[j])
    BY <1>4, <1>6, JoinGrows
  <2>2. j \in 0..N /\ i \in PointsOf(grown[j - 1]) BY <1>6
  <2>. HIDE DEF N
  <2>. QED BY <2>1, <2>2
<1>7. N \in G
  <2>1. N \in Nat /\ N \in 0..N OBVIOUS
  <2>. HIDE DEF G, N
  <2>. QED BY <1>5, <1>6, <2>1, UpTo
<1> DEFINE c == grown[N]
<1>8. Grown(pts, c, free) /\ DoneUpTo(pts, c, free, N) /\ i \in PointsOf(c)
  BY <1>7
<1> HIDE DEF c
<1>9. Len(c) \in Nat /\ Len(c) <= N
  <2>1. Lists(c, PointsOf(c)) /\ PointsOf(c) \subseteq 1..N BY <1>8 DEF Grown
  <2>. QED BY <2>1, ListsFit
<1>10. DoneUpTo(pts, c, free, Len(c)) BY <1>8, <1>9 DEF DoneUpTo
<1>. QED BY <1>3, <1>8, <1>10 DEF c

-----------------------------------------------------------------------------
\* No point of S is near a point of T, or the same.
Foreign(pts, S, T) == \A k \in S, l \in T : k # l /\ ~Adjacent(pts, k, l)

\* The clusters when the first i points were taken, and the points left.
Assigned(pts, s, i) ==
  LET N == Len(pts)
      found == s.clusters
  IN /\ found \in Seq(Seq(1..N)) /\ s.free \subseteq 1..N
     /\ \A k \in 1..i : k \notin s.free
     /\ \A k \in 1..N : k \in s.free \/ \E n \in 1..Len(found) :
                                          k \in PointsOf(found[n])
     /\ \A n \in 1..Len(found) : /\ Grown(pts, found[n], 1..N)
                                 /\ Foreign(pts, PointsOf(found[n]), s.free)
     /\ \A n, m \in 1..Len(found) :
          n < m => Foreign(pts, PointsOf(found[n]), PointsOf(found[m]))

LEMMA AssignKeeps ==
  ASSUME NEW pts, Len(pts) \in Nat, NEW i \in 1..Len(pts), NEW s,
         s = [clusters |-> s.clusters, free |-> s.free],
         Assigned(pts, s, i - 1)
  PROVE  Assigned(pts, Assign(pts, s, i), i)
<1> DEFINE N == Len(pts)
           found == s.clusters
           free == s.free
           c == Grow(pts, i, free)
           t == Assign(pts, s, i)
<1>1. /\ found \in Seq(Seq(1..N)) /\ Len(found) \in Nat /\ free \subseteq 1..N
      /\ \A n \in 1..Len(found) : found[n] \in Seq(1..N)
  BY DEF Assigned
<1>2. /\ \A k \in 1..(i - 1) : k \notin free
      /\ \A k \in 1..N : k \in free \/ \E n \in 1..Len(found) :
                                         k \in PointsOf(found[n])
      /\ \A n \in 1..Len(found) : /\ Grown(pts, found[n], 1..N)
                                  /\ Foreign(pts, PointsOf(found[n]), free)
      /\ \A n, m \in 1..Len(found) :
           n < m => Foreign(pts, PointsOf(found[n]), PointsOf(found[m]))
  BY DEF Assigned
<1>3. \A k \in 1..i : k \in 1..(i - 1) \/ k = i OBVIOUS
<1>4. CASE i \notin free
  <2>1. t = s BY <1>4 DEF Assign
  <2>2. \A k \in 1..i : k \notin free BY <1>2, <1>3, <1>4
  <2>3. Assigned(pts, s, i)
    <3>. HIDE DEF found, free, N
    <3>. QED BY <1>1, <1>2, <2>2 DEF Assigned, found, free, N
  <2>. QED BY <2>1, <2>3
<1>5. CASE i \in free
  <2>1. t = [clusters |-> Append(found, c), free |-> free \ PointsOf(c)]
    BY <1>5 DEF Assign
  <2>2. /\ Grown(pts, c, free) /\ i \in PointsOf(c)
        /\ DoneUpTo(pts, c, free, Len(c))
    <3>. HIDE DEF free
    <3>. QED BY <1>1, <1>5, GrowIsDone
  <2> DEFINE new  == Append(found, c)
             left == free \ PointsOf(c)
  <2>3. t.clusters = new /\ t.free = left BY <2>1
  <2> HIDE DEF c, t, found, free, N
  <2>4. /\ Lists(c, PointsOf(c)) /\ PointsOf(c) \subseteq free
        /\ c \in Seq(PointsOf(c)) /\ Len(c) \in Nat
        /\ DOMAIN c = 1..Len(c)
    BY <2>2 DEF Grown, Lists
  <2>5. c \in Seq(1..N)
    <3>1. PointsOf(c) \subseteq 1..N BY <1>1, <2>4
    <3>. QED BY <2>4, <3>1, SeqOfMore
  <2>6. /\ new \in Seq(Seq(1..N)) /\ Len(new) = Len(found) + 1
        /\ \A n \in 1..Len(found) : new[n] = found[n]
        /\ new[Len(found) + 1] = c
        /\ \A n \in 1..Len(new) : n \in 1..Len(found) \/ n = Len(found) + 1
    <3>1. new \in Seq(Seq(1..N)) BY <1>1, <2>5
    <3>. QED BY <1>1, <2>5, <3>1
  <2> HIDE DEF new
  <2>7. \A k \in 1..i : k \notin left BY <1>2, <1>3, <2>2
  <2>8. ASSUME NEW k \in 1..N, k \notin left
        PROVE  \E n \in 1..Len(new) : k \in PointsOf(new[n])
    <3>1. Len(found) + 1 \in 1..Len(new)
          /\ \A n \in 1..Len(found) : n \in 1..Len(new)
      BY <1>1, <2>6
    <3>2. CASE k \in PointsOf(c) BY <2>6, <3>1, <3>2
    <3>3. CASE k \notin PointsOf(c)
      <4>1. PICK n \in 1..Len(found) : k \in PointsOf(found[n])
        BY <1>2, <2>8, <3>3
      <4>. QED BY <2>6, <3>1, <4>1
    <3>. QED BY <3>2, <3>3
  <2>9. Foreign(pts, PointsOf(c), left)
    <3> SUFFICES ASSUME NEW k \in PointsOf(c), NEW l \in left
                 PROVE  k # l /\ ~Adjacent(pts, k, l)
      BY DEF Foreign
    <3>1. PICK m \in 1..Len(c) : k = c[m] BY <2>4 DEF PointsOf
    <3>2. m <= Len(c) BY <2>4
    <3>3. ~Adjacent(pts, c[m], l) BY <2>2, <3>2 DEF DoneUpTo
    <3>. QED BY <3>1, <3>3
  <2>10. ASSUME NEW n \in 1..Len(new)
         PROVE  Grown(pts, new[n], 1..N) /\ Foreign(pts, PointsOf(new[n]), left)
    <3>1. CASE n \in 1..Len(found)
      <4>1. left \subseteq free OBVIOUS
      <4>2. Foreign(pts, PointsOf(found[n]), free) BY <1>2, <3>1
      <4>3. Foreign(pts, PointsOf(found[n]), left) BY <4>1, <4>2 DEF Foreign
      <4>. QED BY <1>2, <2>6, <3>1, <4>3
    <3>2. CASE n = Len(found) + 1
      <4>1. Grown(pts, c, 1..N) BY <1>1, <2>2, <2>4 DEF Grown
      <4>. QED BY <2>6, <2>9, <3>2, <4>1
    <3>. QED BY <2>6, <3>1, <3>2
  <2>11. ASSUME NEW n \in 1..Len(new), NEW m \in 1..Len(new), n < m
         PROVE  Foreign(pts, PointsOf(new[n]), PointsOf(new[m]))
    <3>1. n \in 1..Len(found) BY <1>1, <2>6, <2>11
    <3>2. CASE m \in 1..Len(found) BY <1>2, <2>6, <2>11, <3>1, <3>2
    <3>3. CASE m = Len(found) + 1
      <4>1. Foreign(pts, PointsOf(found[n]), free) BY <1>2, <3>1
      <4>2. Foreign(pts, PointsOf(found[n]), PointsOf(c))
        BY <2>4, <4>1 DEF Foreign
      <4>. QED BY <2>6, <3>1, <3>3, <4>2
    <3>. QED BY <2>6, <3>2, <3>3
  <2>12. left \subseteq 1..N BY <1>1
  <2> HIDE DEF left
  <2>. QED BY <2>3, <2>6, <2>7, <2>8, <2>10, <2>11, <2>12 DEF Assigned, N, t
<1>. QED BY <1>4, <1>5

\* The clusters, as lists of indices, when every point was taken.
Found(pts, cs) ==
  \E s : /\ Assigned(pts, s, Len(pts))
         /\ LET found == s.clusters
            IN cs = [n \in DOMAIN found |-> Selected(pts, found[n])]

LEMMA ClustersAreFound ==
  ASSUME NEW X, NEW pts \in Seq(X)
  PROVE  Found(pts, ClusterPoints(pts))
<1> DEFINE N == Len(pts)
           start == [clusters |-> <<>>, free |-> DOMAIN pts]
           Upto(f) == f = [i \in 0..N |-> IF i = 0 THEN start
                                          ELSE Assign(pts, f[i - 1], i)]
           after == CHOOSE f : Upto(f)
           State == [clusters : Seq(Seq(1..N)), free : SUBSET (1..N)]
<1>0. N \in Nat /\ DOMAIN pts = 1..N OBVIOUS
<1>1. start \in State BY <1>0
<1>2. ASSUME NEW i \in 1..N, NEW s \in State  PROVE Assign(pts, s, i) \in State
  <2> DEFINE c == Grow(pts, i, s.free)
  <2>1. s.clusters \in Seq(Seq(1..N)) /\ s.free \subseteq 1..N OBVIOUS
  <2>2. CASE i \notin s.free BY <2>2 DEF Assign
  <2>3. CASE i \in s.free
    <3>1. Grown(pts, c, s.free) BY <1>0, <2>1, <2>3, GrowIsDone
    <3>2. Assign(pts, s, i) = [clusters |-> Append(s.clusters, c),
                               free |-> s.free \ PointsOf(c)]
      BY <2>3 DEF Assign
    <3>. HIDE DEF c
    <3>3. /\ c \in Seq(PointsOf(c)) /\ PointsOf(c) \subseteq s.free
      BY <3>1 DEF Grown, Lists
    <3>4. c \in Seq(1..N)
      <4>1. PointsOf(c) \subseteq 1..N BY <2>1, <3>3
      <4>. QED BY <3>3, <4>1, SeqOfMore
    <3>5. Append(s.clusters, c) \in Seq(Seq(1..N)) BY <2>1, <3>4
    <3>6. s.free \ PointsOf(c) \in SUBSET (1..N) BY <2>1
    <3>. QED BY <3>2, <3>5, <3>6
  <2>. QED BY <2>2, <2>3
<1>3. \E f : Upto(f)
  <2> DEFINE Step == [i \in 1..N |-> [s \in State |-> Assign(pts, s, i)]]
  <2>1. Steps(Step, N, State) BY <1>2 DEF Steps
  <2>2. PICK f : Follows(f, start, Step, N, State)
    <3>. HIDE DEF Step, State, start, N
    <3>. QED BY <1>0, <1>1, <2>1, Recursion
  <2>3. /\ f \in [0..N -> State] /\ f[0] = start
        /\ \A i \in 1..N : f[i] = Step[i][f[i - 1]]
    BY <2>2 DEF Follows
  <2>4. ASSUME NEW i \in 1..N  PROVE f[i] = Assign(pts, f[i - 1], i)
    <3>0. i - 1 \in 0..N OBVIOUS
    <3>. HIDE DEF State, start, N
    <3>1. f[i - 1] \in State BY <2>3, <3>0
    <3>. QED BY <2>3, <3>1
  <2>5. \A i \in 0..N : i = 0 \/ i \in 1..N BY <1>0
  <2>. HIDE DEF State, start, Step, N
  <2>6. f = [i \in 0..N |-> IF i = 0 THEN start ELSE Assign(pts, f[i - 1], i)]
    BY <2>3, <2>4, <2>5
  <2>7. Upto(f) BY <2>6
  <2>. HIDE DEF Upto
  <2>. QED BY <2>7
<1>4. Upto(after)
  <2>. HIDE DEF Upto
  <2>. QED BY <1>3
<1>5. LET found == after[N].clusters
      IN ClusterPoints(pts) = [n \in DOMAIN found |-> Selected(pts, found[n])]
  BY DEF ClusterPoints
<1>6. /\ after[0] = start
      /\ \A i \in 1..N : after[i] = Assign(pts, after[i - 1], i)
  <2>1. after = [i \in 0..N |-> IF i = 0 THEN start
                                ELSE Assign(pts, after[i - 1], i)]
    BY <1>4
  <2>. HIDE DEF after, start, N
  <2>2. 0 \in 0..N BY <1>0
  <2>3. \A i \in 1..N : i \in 0..N /\ i # 0 BY <1>0
  <2>. QED BY <2>1, <2>2, <2>3
<1> HIDE DEF after, Upto
<1> DEFINE G == {i \in 0..N : after[i] \in State /\ Assigned(pts, after[i], i)}
<1>7. 0 \in G
  <2>1. start.clusters = <<>> /\ start.free = 1..N BY <1>0
  <2>2. <<>> \in Seq(Seq(1..N)) /\ 1..0 = {} /\ Len(<<>>) = 0 OBVIOUS
  <2>. HIDE DEF start
  <2>3. Assigned(pts, start, 0) BY <2>1, <2>2 DEF Assigned
  <2>. QED BY <1>0, <1>1, <1>6, <2>3
<1>8. ASSUME NEW i \in 1..N, i - 1 \in G  PROVE i \in G
  <2>1. after[i - 1] \in State /\ Assigned(pts, after[i - 1], i - 1) BY <1>8
  <2>2. after[i - 1] = [clusters |-> after[i - 1].clusters,
                        free |-> after[i - 1].free]
    BY <2>1
  <2>3. Assigned(pts, Assign(pts, after[i - 1], i), i)
    BY <1>0, <2>1, <2>2, AssignKeeps
  <2>4. Assign(pts, after[i - 1], i) \in State BY <1>2, <2>1
  <2>5. i \in 0..N BY <1>0
  <2>. HIDE DEF N, State
  <2>. QED BY <1>6, <2>3, <2>4, <2>5
<1>9. N \in G
  <2>1. N \in 0..N BY <1>0
  <2>. HIDE DEF G, N
  <2>. QED BY <1>0, <1>7, <1>8, <2>1, UpTo
<1>10. Assigned(pts, after[N], Len(pts)) BY <1>9
<1>. HIDE DEF N
<1>. QED BY <1>5, <1>10 DEF Found

-----------------------------------------------------------------------------
\* Distances are natural; between points they are the same both ways, and a
\* point is near itself.
LEMMA FlatSqIsNatural ==
  ASSUME NEW p, NEW q, p[1] \in Int, p[2] \in Int, q[1] \in Int, q[2] \in Int
  PROVE  FlatSq(p, q) \in Nat
<1> DEFINE x == p[1] - q[1]
           y == p[2] - q[2]
<1>1. x \in Int /\ y \in Int OBVIOUS
<1>2. FlatSq(p, q) = x * x + y * y BY DEF FlatSq
<1> HIDE DEF x, y
<1>3. x * x \in Nat /\ y * y \in Nat BY <1>1
<1>. QED BY <1>2, <1>3

LEMMA FlatSqOfPoints ==
  ASSUME NEW p \in Point3D, NEW q \in Point3D
  PROVE  /\ FlatSq(p, q) \in Nat
         /\ FlatSq(p, q) = FlatSq(q, p)
         /\ FlatSq(p, p) < ClusteringDistance * ClusteringDistance
<1>1. p[1] \in Int /\ p[2] \in Int /\ q[1] \in Int /\ q[2] \in Int
  BY DEF Point3D
<1>2. \A x, y \in Int : /\ (x - y) * (x - y) \in Nat
                        /\ (x - y) * (x - y) = (y - x) * (y - x)
                        /\ (x - x) * (x - x) = 0
  <2> TAKE x \in Int, y \in Int
  <2>1. PICK d \in Int : d = x - y OBVIOUS
  <2>2. y - x = -d /\ x - x = 0 BY <2>1
  <2>3. d * d \in Nat /\ d * d = (-d) * (-d) /\ 0 * 0 = 0 OBVIOUS
  <2>. QED BY <2>1, <2>2, <2>3
<1>3. 0 < ClusteringDistance * ClusteringDistance
  <2>1. ClusteringDistance \in Nat /\ ClusteringDistance > 0
    BY ClusteringAssumption
  <2>. QED BY <2>1
<1>4. FlatSq(p, q) \in Nat /\ FlatSq(p, q) = FlatSq(q, p)
  BY <1>1, <1>2 DEF FlatSq
<1>5. FlatSq(p, p) = 0
  <2>1. /\ (p[1] - p[1]) * (p[1] - p[1]) = 0
        /\ (p[2] - p[2]) * (p[2] - p[2]) = 0
    BY <1>1, <1>2
  <2>. QED BY <2>1 DEF FlatSq
<1>. QED BY <1>3, <1>4, <1>5

\* A list of indices, as points.
LEMMA PointsOfList ==
  ASSUME NEW pts, NEW c, NEW C, Lists(c, C), NEW d, d = Selected(pts, c)
  PROVE  /\ Len(c) \in Nat /\ DOMAIN d = 1..Len(c)
         /\ \A m \in 1..Len(c) : d[m] = pts[c[m]] /\ c[m] \in C
         /\ PointsOf(d) = {pts[k] : k \in C}
<1>1. /\ c \in Seq(C) /\ Len(c) \in Nat /\ DOMAIN c = 1..Len(c)
      /\ PointsOf(c) = C /\ \A m \in 1..Len(c) : c[m] \in C
  BY DEF Lists
<1>2. DOMAIN d = 1..Len(c) /\ \A m \in 1..Len(c) : d[m] = pts[c[m]]
  BY <1>1 DEF Selected
<1>3. PointsOf(d) = {pts[k] : k \in C} BY <1>1, <1>2 DEF PointsOf
<1>. QED BY <1>1, <1>2, <1>3

\* A cluster that has all the points equal to p has each of them once.
LEMMA CountedOnce ==
  ASSUME NEW pts, Len(pts) \in Nat, DOMAIN pts = 1..Len(pts),
         NEW c, NEW C, Lists(c, C), C \subseteq DOMAIN pts,
         NEW d, d = Selected(pts, c),
         NEW p, \A k \in DOMAIN pts : pts[k] = p => k \in C
  PROVE  Count(p, d) = Count(p, pts)
<1> DEFINE M == {m \in DOMAIN d : d[m] = p}
           P == {k \in DOMAIN pts : pts[k] = p}
           f == [m \in M |-> c[m]]
<1>1. /\ Len(c) \in Nat /\ DOMAIN d = 1..Len(c)
      /\ \A m \in 1..Len(c) : d[m] = pts[c[m]] /\ c[m] \in C
  BY PointsOfList
<1>2. /\ \A m, l \in 1..Len(c) : c[m] = c[l] => m = l
      /\ PointsOf(c) = C /\ DOMAIN c = 1..Len(c)
  BY DEF Lists
<1>3. f \in [M -> P] BY <1>1
<1>4. \A m, l \in M : f[m] = f[l] => m = l BY <1>1, <1>2
<1>5. \A k \in P : \E m \in M : f[m] = k
  <2> TAKE k \in P
  <2>1. k \in C OBVIOUS
  <2>2. PICK m \in 1..Len(c) : k = c[m] BY <1>2, <2>1 DEF PointsOf
  <2>3. m \in M BY <1>1, <2>2
  <2>. QED BY <2>2, <2>3
<1>6. IsFiniteSet(M)
  <2>1. M \in SUBSET (1..Len(c)) BY <1>1
  <2>2. IsFiniteSet(1..Len(c)) BY <1>1, FS_Interval
  <2>. HIDE DEF M
  <2>. QED BY <2>1, <2>2, FS_Subset
<1>7. Count(p, d) = Cardinality(M) /\ Count(p, pts) = Cardinality(P)
  BY DEF Count
<1> HIDE DEF M, P, f
<1>8. f \in Bijection(M, P)
  <2>1. DOMAIN f = M BY <1>3
  <2>. QED BY <1>3, <1>4, <1>5, <2>1
       DEF Bijection, Injection, Surjection, IsInjective
<1>9. ExistsBijection(M, P) BY <1>8 DEF ExistsBijection
<1>. QED BY <1>6, <1>7, <1>9, FS_Bijection

\* A cluster does not fall into two parts: where the first element of the
\* other part joined, it was near one of the part of the first.
LEMMA InOnePiece ==
  ASSUME NEW pts \in Seq(Point3D), NEW c, Grown(pts, c, DOMAIN pts),
         NEW d, d = Selected(pts, c),
         NEW S, S \subseteq PointsOf(d), S # {}, S # PointsOf(d)
  PROVE  NearSets(S, PointsOf(d) \ S)
<1> DEFINE C == PointsOf(c)
<1>1. Lists(c, C) /\ C \subseteq DOMAIN pts /\ c # <<>> BY DEF Grown
<1>2. /\ Len(c) \in Nat /\ DOMAIN d = 1..Len(c)
      /\ \A m \in 1..Len(c) : d[m] = pts[c[m]] /\ c[m] \in C
  <2>. HIDE DEF C
  <2>. QED BY <1>1, PointsOfList
<1>3. \A m \in 1..Len(c) : d[m] \in PointsOf(d) /\ d[m] \in Point3D
  <2>1. \A k \in DOMAIN pts : pts[k] \in Point3D OBVIOUS
  <2>. HIDE DEF C
  <2>. QED BY <1>1, <1>2, <2>1 DEF PointsOf
<1>4. 1 \in 1..Len(c)
  <2>1. c \in Seq(C) BY <1>1 DEF Lists
  <2>. HIDE DEF C
  <2>. QED BY <1>1, <1>2, <2>1
<1> DEFINE other == {m \in 1..Len(c) : (d[m] \in S) # (d[1] \in S)}
<1>5. other # {}
  <2>1. CASE d[1] \in S
    <3>1. PICK x \in PointsOf(d) : x \notin S OBVIOUS
    <3>2. PICK m \in 1..Len(c) : x = d[m] BY <1>2, <3>1 DEF PointsOf
    <3>. QED BY <2>1, <3>1, <3>2
  <2>2. CASE d[1] \notin S
    <3>1. PICK x \in S : x \in PointsOf(d) OBVIOUS
    <3>2. PICK m \in 1..Len(c) : x = d[m] BY <1>2, <3>1 DEF PointsOf
    <3>. QED BY <2>2, <3>2
  <2>. QED BY <2>1, <2>2
<1>6. PICK m \in other : \A l \in other : m <= l
  <2>1. other \subseteq Nat OBVIOUS
  <2>. HIDE DEF other
  <2>. QED BY <1>5, <2>1, LeastNumber
<1>7. m \in 2..Len(c)
  <2>1. m \in 1..Len(c) /\ m # 1 OBVIOUS
  <2>. QED BY <1>2, <2>1
<1>8. PICK l \in 1..(m - 1) : Adjacent(pts, c[l], c[m]) BY <1>7 DEF Grown
<1>9. l \in 1..Len(c) /\ l \notin other
  <2>1. l \in 1..Len(c) /\ ~(m <= l) BY <1>2, <1>7
  <2>. HIDE DEF other
  <2>. QED BY <1>6, <2>1
<1>10. (d[l] \in S) = (d[1] \in S) BY <1>9
<1>11. FlatSq(d[l], d[m]) < ClusteringDistance * ClusteringDistance
  BY <1>2, <1>7, <1>8, <1>9 DEF Adjacent
<1>12. FlatSq(d[l], d[m]) = FlatSq(d[m], d[l])
  BY <1>3, <1>7, <1>9, FlatSqOfPoints
<1>13. (d[m] \in S) # (d[1] \in S) OBVIOUS
<1>14. d[l] \in PointsOf(d) /\ d[m] \in PointsOf(d) BY <1>3, <1>7, <1>9
<1> HIDE DEF other
<1>15. CASE d[m] \in S
  <2>1. d[l] \in PointsOf(d) \ S BY <1>10, <1>13, <1>14, <1>15
  <2>2. FlatSq(d[m], d[l]) < ClusteringDistance * ClusteringDistance
    BY <1>11, <1>12
  <2>. QED BY <1>15, <2>1, <2>2 DEF NearSets
<1>16. CASE d[m] \notin S
  <2>1. d[l] \in S /\ d[m] \in PointsOf(d) \ S BY <1>10, <1>13, <1>14, <1>16
  <2>. QED BY <1>11, <2>1 DEF NearSets
<1>. QED BY <1>15, <1>16

\* clusterPoints finds exactly the connected groups of the points of any
\* cloud, whatever their order and their number.
THEOREM ClustersAreTheGroups ==
  ASSUME NEW pts \in Seq(Point3D)
  PROVE  IsClustering(pts, ClusterPoints(pts))
<1>1. Found(pts, ClusterPoints(pts)) BY ClustersAreFound
<1> DEFINE N == Len(pts)
           cs == ClusterPoints(pts)
<1>2. PICK s : /\ Assigned(pts, s, N)
               /\ LET found == s.clusters
                  IN cs = [n \in DOMAIN found |-> Selected(pts, found[n])]
  BY <1>1 DEF Found
<1> DEFINE found == s.clusters
           C(n) == PointsOf(found[n])
<1>3. /\ N \in Nat /\ DOMAIN pts = 1..N /\ \A k \in 1..N : pts[k] \in Point3D
  OBVIOUS
<1>4. /\ found \in Seq(Seq(1..N))
      /\ s.free \subseteq 1..N /\ \A k \in 1..N : k \notin s.free
      /\ \A k \in 1..N : k \in s.free \/ \E n \in 1..Len(found) : k \in C(n)
      /\ \A n \in 1..Len(found) : Grown(pts, found[n], 1..N)
      /\ \A n, m \in 1..Len(found) : n < m => Foreign(pts, C(n), C(m))
  BY <1>2 DEF Assigned
<1>5. Len(found) \in Nat /\ DOMAIN found = 1..Len(found) BY <1>4
<1>6. cs = [n \in DOMAIN found |-> Selected(pts, found[n])]
  BY <1>2
<1> HIDE DEF cs, found, N
<1>7. DOMAIN cs = 1..Len(found) BY <1>5, <1>6
<1>8. \A n \in 1..Len(found) : cs[n] = Selected(pts, found[n])
  BY <1>5, <1>6
<1>9. \A n \in 1..Len(found) : Lists(found[n], C(n)) /\ C(n) \subseteq 1..N
  BY <1>4 DEF Grown
<1>10. \A n \in 1..Len(found) : PointsOf(cs[n]) = {pts[k] : k \in C(n)}
  <2> TAKE n \in 1..Len(found)
  <2>. HIDE DEF C
  <2>. QED BY <1>8, <1>9, PointsOfList
<1>11. \A k \in 1..N : \E n \in 1..Len(found) : k \in C(n) BY <1>4
\* Points of two clusters are not near each other.
<1>12. ASSUME NEW n \in 1..Len(found), NEW m \in 1..Len(found), n # m,
              NEW k \in C(n), NEW l \in C(m)
       PROVE  ~(FlatSq(pts[k], pts[l]) < ClusteringDistance * ClusteringDistance)
  <2>1. k \in 1..N /\ l \in 1..N BY <1>9
  <2>2. FlatSq(pts[k], pts[l]) = FlatSq(pts[l], pts[k])
    BY <1>3, <2>1, FlatSqOfPoints
  <2>3. CASE n < m
    <3>1. Foreign(pts, C(n), C(m)) BY <1>4, <2>3
    <3>. HIDE DEF C
    <3>. QED BY <1>12, <3>1 DEF Foreign, Adjacent
  <2>4. CASE m < n
    <3>1. Foreign(pts, C(m), C(n)) BY <1>4, <2>4
    <3>. HIDE DEF C
    <3>2. ~(FlatSq(pts[l], pts[k]) < ClusteringDistance * ClusteringDistance)
      BY <1>12, <3>1 DEF Foreign, Adjacent
    <3>. QED BY <2>2, <3>2
  <2>5. n < m \/ m < n BY <1>5, <1>12
  <2>. QED BY <2>3, <2>4, <2>5
<1> HIDE DEF C
\* Equal points are near each other, and so in one cluster.
<1>13. ASSUME NEW n \in 1..Len(found), NEW k \in C(n), NEW l \in 1..N,
              pts[k] = pts[l]
       PROVE  l \in C(n)
  <2>1. PICK m \in 1..Len(found) : l \in C(m) BY <1>11
  <2>2. pts[l] \in Point3D BY <1>3
  <2>3. FlatSq(pts[l], pts[l]) < ClusteringDistance * ClusteringDistance
    BY <2>2, FlatSqOfPoints
  <2>4. n = m BY <1>12, <1>13, <2>1, <2>3
  <2>. QED BY <2>1, <2>4
<1>14. ASSUME NEW p \in PointsOf(pts)
       PROVE  \E n \in DOMAIN cs : /\ Count(p, cs[n]) = Count(p, pts)
                                   /\ \A m \in DOMAIN cs \ {n} :
                                        Count(p, cs[m]) = 0
  <2>1. PICK k \in 1..N : p = pts[k] BY <1>3 DEF PointsOf
  <2>2. PICK n \in 1..Len(found) : k \in C(n) BY <1>11
  <2>3. \A l \in DOMAIN pts : pts[l] = p => l \in C(n)
    BY <1>3, <1>13, <2>1, <2>2
  <2>4. Count(p, cs[n]) = Count(p, pts)
    <3>1. /\ Lists(found[n], C(n)) /\ C(n) \subseteq DOMAIN pts
          /\ cs[n] = Selected(pts, found[n])
          /\ Len(pts) \in Nat /\ DOMAIN pts = 1..Len(pts)
      BY <1>3, <1>8, <1>9 DEF N
    <3>. QED BY <2>3, <3>1, CountedOnce
  <2>5. ASSUME NEW m \in DOMAIN cs \ {n}  PROVE Count(p, cs[m]) = 0
    <3>1. m \in 1..Len(found) /\ m # n BY <1>7
    <3>2. p \notin PointsOf(cs[m])
      <4>0. PointsOf(cs[m]) = {pts[l] : l \in C(m)} BY <1>10, <3>1
      <4> SUFFICES ASSUME NEW l \in C(m), p = pts[l] PROVE FALSE
        BY <4>0
      <4>1. l \in 1..N BY <1>9, <3>1
      <4>2. l \in C(n) BY <1>13, <2>1, <2>2, <4>1
      <4>3. pts[l] \in Point3D BY <1>3, <4>1
      <4>4. FlatSq(pts[l], pts[l]) < ClusteringDistance * ClusteringDistance
        BY <4>3, FlatSqOfPoints
      <4>. QED BY <1>12, <3>1, <4>2, <4>4
    <3>3. {l \in DOMAIN cs[m] : cs[m][l] = p} = {} BY <3>2 DEF PointsOf
    <3>. QED BY <3>3, FS_EmptySet DEF Count
  <2>. QED BY <1>7, <2>2, <2>4, <2>5
<1>15. \A n \in DOMAIN cs : PointsOf(cs[n]) \subseteq PointsOf(pts)
  BY <1>3, <1>7, <1>9, <1>10 DEF PointsOf
<1>16. ASSUME NEW n \in DOMAIN cs, NEW m \in DOMAIN cs, n # m
       PROVE  ~NearSets(PointsOf(cs[n]), PointsOf(cs[m]))
  <2> SUFFICES ASSUME NEW p \in PointsOf(cs[n]), NEW q \in PointsOf(cs[m]),
                      FlatSq(p, q) < ClusteringDistance * ClusteringDistance
               PROVE  FALSE
    BY DEF NearSets
  <2>1. n \in 1..Len(found) /\ m \in 1..Len(found) BY <1>7
  <2>2. PICK k \in C(n) : p = pts[k] BY <1>10, <2>1
  <2>3. PICK l \in C(m) : q = pts[l] BY <1>10, <2>1
  <2>. QED BY <1>12, <1>16, <2>1, <2>2, <2>3
<1>17. ASSUME NEW n \in DOMAIN cs, NEW S \in SUBSET PointsOf(cs[n]),
              S # {}, S # PointsOf(cs[n])
       PROVE  NearSets(S, PointsOf(cs[n]) \ S)
  <2>1. n \in 1..Len(found) BY <1>7
  <2>2. Grown(pts, found[n], DOMAIN pts) BY <1>3, <1>4, <2>1
  <2>3. cs[n] = Selected(pts, found[n]) BY <1>8, <2>1
  <2>. QED BY <1>17, <2>2, <2>3, InOnePiece
<1>18. IsClustering(pts, cs)
  BY <1>14, <1>15, <1>16, <1>17 DEF IsClustering
<1>. QED BY <1>18 DEF cs

-----------------------------------------------------------------------------
\* What the tracker is given.  The candidates are points of the cloud, and
\* every cluster has points.
LEMMA CandidatesType ==
  ASSUME NEW received \in Seq(Point3D)
  PROVE  Candidates(received) \in Seq(Point3D)
<1> DEFINE S == {i \in DOMAIN received : IsCandidate(received[i])}
<1>1. S \subseteq DOMAIN received OBVIOUS
<1> HIDE DEF S
<1>2. Part(received, S) \in Seq(Point3D) BY <1>1, PartType
<1>. QED BY <1>2 DEF Candidates, S

LEMMA ClustersType ==
  ASSUME NEW pts \in Seq(Point3D)
  PROVE  ClusterPoints(pts) \in Seq(Seq(Point3D) \ {<<>>})
<1> DEFINE cs == ClusterPoints(pts)
<1>1. PICK s : /\ Assigned(pts, s, Len(pts))
               /\ LET found == s.clusters
                  IN cs = [n \in DOMAIN found |-> Selected(pts, found[n])]
  BY ClustersAreFound DEF Found
<1> DEFINE found == s.clusters
<1>2. /\ found \in Seq(Seq(1..Len(pts)))
      /\ \A n \in 1..Len(found) : Grown(pts, found[n], 1..Len(pts))
  BY <1>1 DEF Assigned
<1>3. cs = [n \in DOMAIN found |-> Selected(pts, found[n])] BY <1>1
<1> HIDE DEF cs, found
<1>4. Len(found) \in Nat /\ DOMAIN found = 1..Len(found) BY <1>2
<1>5. ASSUME NEW n \in 1..Len(found)
      PROVE  Selected(pts, found[n]) \in Seq(Point3D) \ {<<>>}
  <2> DEFINE c == found[n]
             C == PointsOf(c)
             d == Selected(pts, c)
  <2>1. Lists(c, C) /\ C \subseteq 1..Len(pts) /\ c # <<>> BY <1>2 DEF Grown
  <2>0. d = Selected(pts, c) OBVIOUS
  <2> HIDE DEF c, C, d
  <2>2. c \in Seq(C) BY <2>1 DEF Lists
  <2>3. /\ Len(c) \in Nat /\ DOMAIN d = 1..Len(c)
        /\ \A m \in 1..Len(c) : d[m] = pts[c[m]] /\ c[m] \in C
    BY <2>0, <2>1, PointsOfList
  <2>4. \A k \in 1..Len(pts) : pts[k] \in Point3D OBVIOUS
  <2>5. \A m \in 1..Len(c) : d[m] \in Point3D BY <2>1, <2>3, <2>4
  <2>6. d = [m \in 1..Len(c) |-> pts[c[m]]]
    <3>1. DOMAIN c = 1..Len(c) BY <2>2
    <3>. QED BY <2>0, <3>1 DEF Selected
  <2>7. d \in Seq(Point3D)
    <3>1. \A m \in 1..Len(c) : pts[c[m]] \in Point3D BY <2>3, <2>5
    <3>. QED BY <2>3, <2>6, <3>1
  <2>8. 1 \in DOMAIN d BY <2>1, <2>2, <2>3
  <2>9. d # <<>>
    <3>1. DOMAIN <<>> = {} OBVIOUS
    <3>. QED BY <2>8, <3>1
  <2>10. d \in Seq(Point3D) \ {<<>>} BY <2>7, <2>9
  <2>. QED BY <2>10 DEF d, c
<1>6. cs \in Seq(Seq(Point3D) \ {<<>>}) BY <1>3, <1>4, <1>5
<1>. QED BY <1>6 DEF cs

LEMMA SumType ==
  ASSUME NEW c \in Seq(Point3D), NEW axis \in {1, 2}
  PROVE  SumOf(c, axis) \in Int
<1> DEFINE N == Len(c)
           Upto(f) == f = [m \in 0..N |->
                             IF m = 0 THEN 0 ELSE f[m - 1] + c[m][axis]]
           sum == CHOOSE f : Upto(f)
<1>1. N \in Nat /\ \A m \in 1..N : c[m] \in Point3D OBVIOUS
<1>2. \A m \in 1..N : c[m][axis] \in Int BY <1>1 DEF Point3D
<1>3. \E f : Upto(f)
  <2> DEFINE Step == [m \in 1..N |-> [x \in Int |-> x + c[m][axis]]]
  <2>1. \A m \in 1..N, x \in Int : x + c[m][axis] \in Int BY <1>2
  <2>2. Steps(Step, N, Int) BY <2>1 DEF Steps
  <2>3. PICK f : Follows(f, 0, Step, N, Int)
    <3>1. 0 \in Int OBVIOUS
    <3>. HIDE DEF Step, N
    <3>. QED BY <1>1, <2>2, <3>1, Recursion
  <2>4. /\ f \in [0..N -> Int] /\ f[0] = 0
        /\ \A m \in 1..N : f[m] = Step[m][f[m - 1]]
    BY <2>3 DEF Follows
  <2>5. ASSUME NEW m \in 1..N  PROVE f[m] = f[m - 1] + c[m][axis]
    <3>1. f[m - 1] \in Int BY <2>4
    <3>. QED BY <2>4, <3>1
  <2>6. \A m \in 0..N : m = 0 \/ m \in 1..N BY <1>1
  <2>. HIDE DEF N, Step
  <2>7. f = [m \in 0..N |-> IF m = 0 THEN 0 ELSE f[m - 1] + c[m][axis]]
    BY <2>4, <2>5, <2>6
  <2>8. Upto(f) BY <2>7
  <2>. HIDE DEF Upto
  <2>. QED BY <2>8
<1>4. Upto(sum)
  <2>. HIDE DEF Upto
  <2>. QED BY <1>3
<1>5. SumOf(c, axis) = sum[N] BY DEF SumOf
<1>6. sum = [m \in 0..N |-> IF m = 0 THEN 0 ELSE sum[m - 1] + c[m][axis]]
  BY <1>4
<1> HIDE DEF sum, Upto, N
<1> DEFINE G == {m \in 0..N : sum[m] \in Int}
<1>7. 0 \in G BY <1>1, <1>6
<1>8. ASSUME NEW m \in 1..N, m - 1 \in G  PROVE m \in G
  <2>1. m \in 0..N /\ m # 0 BY <1>1
  <2>2. sum[m] = sum[m - 1] + c[m][axis] BY <1>6, <2>1
  <2>3. sum[m - 1] \in Int /\ c[m][axis] \in Int BY <1>2, <1>8
  <2>. QED BY <2>1, <2>2, <2>3
<1>9. N \in G
  <2>1. N \in 0..N BY <1>1
  <2>. HIDE DEF G
  <2>. QED BY <1>1, <1>7, <1>8, <2>1, UpTo
<1>. QED BY <1>5, <1>9

LEMMA CentreType ==
  ASSUME NEW c \in Seq(Point3D) \ {<<>>}
  PROVE  Centre(c) \in Int \X Int
<1>1. Len(c) \in Nat /\ Len(c) > 0 OBVIOUS
<1>2. SumOf(c, 1) \in Int /\ SumOf(c, 2) \in Int BY SumType
<1>3. SumOf(c, 1) \div Len(c) \in Int /\ SumOf(c, 2) \div Len(c) \in Int
  BY <1>1, <1>2
<1>. QED BY <1>3 DEF Centre

\* The point farthest from the centre exists, and its distance covers all.
LEMMA RadiusSqType ==
  ASSUME NEW c \in Seq(Point3D) \ {<<>>}
  PROVE  /\ RadiusSq(c) \in Nat
         /\ \A m \in DOMAIN c : FlatSq(c[m], Centre(c)) <= RadiusSq(c)
<1> DEFINE D == [m \in DOMAIN c |-> FlatSq(c[m], Centre(c))]
           N == Len(c)
<1>1. N \in Nat /\ N > 0 /\ DOMAIN c = 1..N /\ \A m \in 1..N : c[m] \in Point3D
  OBVIOUS
<1>2. \A m \in 1..N : FlatSq(c[m], Centre(c)) \in Nat
  <2> TAKE m \in 1..N
  <2>1. /\ c[m][1] \in Int /\ c[m][2] \in Int
        /\ Centre(c)[1] \in Int /\ Centre(c)[2] \in Int
    BY <1>1, CentreType DEF Point3D
  <2>. QED BY <2>1, FlatSqIsNatural
<1>3. \A m \in 1..N : D[m] = FlatSq(c[m], Centre(c)) /\ D[m] \in Nat
  BY <1>1, <1>2
<1> HIDE DEF D, N
<1> DEFINE G == {n \in 0..N : n = 0 \/ \E k \in 1..n : \A m \in 1..n : D[m] <= D[k]}
<1>4. 0 \in G BY <1>1
<1>5. ASSUME NEW n \in 1..N, n - 1 \in G  PROVE n \in G
  <2>0. n \in 0..N /\ n \in 1..n /\ \A m \in 1..n : m \in 1..(n - 1) \/ m = n
    BY <1>1
  <2>1. \A m \in 1..n : m \in 1..N BY <1>1
  <2>2. CASE n = 1
    <3>1. \A m \in 1..1 : m = 1 OBVIOUS
    <3>2. \A m \in 1..n : D[m] <= D[n] BY <1>3, <2>1, <2>2, <3>1
    <3>. QED BY <2>0, <3>2
  <2>3. CASE n # 1
    <3>1. n - 1 # 0 BY <2>3
    <3>2. PICK k \in 1..(n - 1) : \A m \in 1..(n - 1) : D[m] <= D[k]
      BY <1>5, <3>1
    <3>3. k \in 1..n /\ k \in 1..N /\ n \in 1..N BY <1>1
    <3>4. D[k] \in Nat /\ D[n] \in Nat /\ \A m \in 1..(n - 1) : D[m] \in Nat
      BY <1>1, <1>3, <3>3
    <3>5. CASE D[n] <= D[k]
      <4>1. \A m \in 1..n : D[m] <= D[k] BY <2>0, <3>2, <3>5
      <4>. QED BY <2>0, <3>3, <4>1
    <3>6. CASE ~(D[n] <= D[k])
      <4>1. \A m \in 1..(n - 1) : D[m] <= D[n] BY <3>2, <3>4, <3>6
      <4>2. D[n] <= D[n] BY <3>4
      <4>3. \A m \in 1..n : D[m] <= D[n] BY <2>0, <4>1, <4>2
      <4>. QED BY <2>0, <4>3
    <3>. QED BY <3>5, <3>6
  <2>. QED BY <2>2, <2>3
<1>6. N \in G
  <2>1. N \in 0..N BY <1>1
  <2>. HIDE DEF G
  <2>. QED BY <1>1, <1>4, <1>5, <2>1, UpTo
<1>7. PICK k \in 1..N : \A m \in 1..N : D[m] <= D[k] BY <1>1, <1>6
<1> DEFINE R == {FlatSq(c[m], Centre(c)) : m \in DOMAIN c}
           Covers(r) == \A m \in DOMAIN c : FlatSq(c[m], Centre(c)) <= r
<1>8. D[k] \in R /\ Covers(D[k]) BY <1>1, <1>3, <1>7
<1>9. RadiusSq(c) = CHOOSE r \in R : Covers(r) BY DEF RadiusSq
<1>10. R \subseteq Nat BY <1>1, <1>2
<1> HIDE DEF R, Covers
<1>11. RadiusSq(c) \in R /\ Covers(RadiusSq(c)) BY <1>8, <1>9
<1>. QED BY <1>10, <1>11 DEF Covers

LEMMA RootType ==
  ASSUME NEW n \in Nat
  PROVE  Root(n) \in Nat /\ (Root(n) + 1) * (Root(n) + 1) > n
<1> DEFINE above == {k \in Nat : (k + 1) * (k + 1) > n}
<1>1. n \in above
  <2>1. (n + 1) * (n + 1) = n * n + n + n + 1 /\ n * n \in Nat OBVIOUS
  <2>. QED BY <2>1
<1>2. PICK k \in above : \A m \in above : k <= m
  <2>1. above \subseteq Nat /\ above # {} BY <1>1
  <2>. HIDE DEF above
  <2>. QED BY <2>1, LeastNumber
<1>3. k \in 0..n BY <1>1, <1>2
<1>4. k * k <= n
  <2>1. CASE k = 0 BY <2>1
  <2>2. CASE k # 0
    <3>1. k - 1 \in Nat /\ ~(k <= k - 1) BY <1>3, <2>2
    <3>2. k - 1 \notin above
      <4>. HIDE DEF above
      <4>. QED BY <1>2, <3>1
    <3>3. ~(((k - 1) + 1) * ((k - 1) + 1) > n) BY <3>1, <3>2
    <3>4. (k - 1) + 1 = k /\ k * k \in Nat BY <1>3
    <3>5. ~(k * k > n) BY <3>3, <3>4
    <3>. QED BY <3>4, <3>5
  <2>. QED BY <2>1, <2>2
<1>5. \E m \in 0..n : m * m <= n /\ (m + 1) * (m + 1) > n
  <2>1. (k + 1) * (k + 1) > n BY <1>2
  <2>. QED BY <1>3, <1>4, <2>1
<1>6. Root(n) \in 0..n /\ (Root(n) + 1) * (Root(n) + 1) > n BY <1>5 DEF Root
<1>. QED BY <1>6

\* The tracker is given places, with a radius, of any cloud.
THEOREM DetectionsType ==
  ASSUME NEW received \in Seq(Point3D)
  PROVE  Detections(received) \in Seq([pos : Int \X Int, radius : Nat])
<1> DEFINE pts == Candidates(received)
           found == ClusterPoints(pts)
           Is(n) == IsPerson(found[n])
           people == Part(found, {n \in DOMAIN found : IsPerson(found[n])})
           X == Seq(Point3D) \ {<<>>}
<1>1. pts \in Seq(Point3D) BY CandidatesType
<1>2. found \in Seq(X)
  <2>. HIDE DEF pts
  <2>. QED BY <1>1, ClustersType
<1>3. people \in Seq(X)
  <2> DEFINE S == {n \in DOMAIN found : IsPerson(found[n])}
  <2>1. S \subseteq DOMAIN found OBVIOUS
  <2>. HIDE DEF S, found, X
  <2>2. Part(found, S) \in Seq(X) BY <1>2, <2>1, PartType
  <2>. QED BY <2>2 DEF S
<1>4. Detections(received) = [n \in DOMAIN people |-> Detection(people[n])]
  BY DEF Detections
<1> HIDE DEF people, found, pts
<1>5. ASSUME NEW c \in X
      PROVE  Detection(c) \in [pos : Int \X Int, radius : Nat]
  <2>1. Centre(c) \in Int \X Int BY CentreType
  <2>2. RadiusSq(c) \in Nat BY RadiusSqType
  <2>3. Root(RadiusSq(c)) \in Nat BY <2>2, RootType
  <2>4. InflationRadius \in Nat BY ClusteringAssumption
  <2>5. Root(RadiusSq(c)) + InflationRadius \in Nat BY <2>3, <2>4
  <2>. QED BY <2>1, <2>5 DEF Detection
<1> HIDE DEF X
<1>6. /\ Len(people) \in Nat /\ DOMAIN people = 1..Len(people)
      /\ \A n \in 1..Len(people) : people[n] \in X
  BY <1>3
<1>. QED BY <1>4, <1>5, <1>6

LEMMA SquaresGrow ==
  ASSUME NEW x \in Nat, NEW y \in Nat
  PROVE  y * y <= (y + x) * (y + x)
<1>1. (y + x) * (y + x) = y * y + (y * x + x * y + x * x) OBVIOUS
<1>2. y * x \in Nat /\ x * y \in Nat /\ x * x \in Nat /\ y * y \in Nat
  OBVIOUS
<1>. QED BY <1>1, <1>2

\* The circle of a detection covers all points of its cluster, so that hiding
\* an obstacle where it was just seen hides the whole of it.  (The inflation
\* makes up for the fraction of the radius that is cut off.)
THEOREM DetectionsCover ==
  ASSUME NEW c \in Seq(Point3D) \ {<<>>}, InflationRadius > 0, NEW m \in DOMAIN c
  PROVE  FlatSq(c[m], Detection(c).pos)
           <= Detection(c).radius * Detection(c).radius
<1> DEFINE n == RadiusSq(c)
           k == Root(n)
           r == k + InflationRadius
           d == FlatSq(c[m], Centre(c))
<1>1. n \in Nat /\ d <= n BY RadiusSqType
<1>2. k \in Nat /\ (k + 1) * (k + 1) > n BY <1>1, RootType
<1>3. d \in Nat
  <2>1. c[m] \in Point3D OBVIOUS
  <2>2. c[m][1] \in Int /\ c[m][2] \in Int BY <2>1 DEF Point3D
  <2>3. Centre(c)[1] \in Int /\ Centre(c)[2] \in Int BY CentreType
  <2>. QED BY <2>2, <2>3, FlatSqIsNatural
<1>4. Detection(c).pos = Centre(c) /\ Detection(c).radius = r
  BY DEF Detection
<1>5. InflationRadius \in Nat BY ClusteringAssumption
<1> HIDE DEF n, k, d
<1>6. (k + 1) * (k + 1) <= r * r
  <2>1. PICK x \in Nat : x = InflationRadius - 1 BY <1>5
  <2>2. r = (k + 1) + x BY <1>2, <1>5, <2>1
  <2>3. PICK y \in Nat : y = k + 1 BY <1>2
  <2>4. y * y <= (y + x) * (y + x) BY SquaresGrow
  <2>. QED BY <2>2, <2>3, <2>4
<1>7. r * r \in Nat /\ (k + 1) * (k + 1) \in Nat BY <1>2, <1>5
<1> HIDE DEF r
<1>8. d <= r * r BY <1>1, <1>2, <1>3, <1>6, <1>7
<1>. QED BY <1>4, <1>8 DEF d

-----------------------------------------------------------------------------
(***************************************************************************)
(* The tracker.                                                             *)
(***************************************************************************)

Places     == Int \X Int
DetectionType == [pos : Places, radius : Nat]

\* What the two counters say while a cloud is processed: an obstacle that is
\* still missing was last seen in an earlier cloud, any other in this one.
MissesAreRight ==
  /\ MissesAreCounted
  /\ ~busy => missing = {}
  /\ busy => \A id \in Ids :
       IF id \in missing
       THEN /\ obstacles[id].missed = clouds - 1 - obstacles[id].cloud
            /\ obstacles[id].missed <= 3
       ELSE obstacles[id].missed = 0 /\ obstacles[id].cloud = clouds

\* PeopleAreTracked, by obstacles that are found already.
FoundOnes ==
  Apart(centres) =>
    \A p \in centres : \E id \in Ids \ missing :
      obstacles[id].pos = p /\ obstacles[id].missed = 0

TrackInv == TypeOK /\ MissesAreRight /\ StillWorldStandsStill /\ FoundOnes

\* Squares, and distances, are natural; a place is at no distance of itself.
LEMMA SquareType ==
  ASSUME NEW x \in Int  PROVE x * x \in Nat
OBVIOUS

LEMMA FlatSqType ==
  ASSUME NEW p \in Places, NEW q \in Places
  PROVE  FlatSq(p, q) \in Nat /\ FlatSq(p, p) = 0
<1>1. PICK a \in Int, b \in Int : p = <<a, b>> BY DEF Places
<1>2. PICK c \in Int, d \in Int : q = <<c, d>> BY DEF Places
<1>3. (a - c) * (a - c) \in Nat /\ (b - d) * (b - d) \in Nat
  <2>1. a - c \in Int /\ b - d \in Int OBVIOUS
  <2>. QED BY <2>1, SquareType
<1>4. FlatSq(p, q) = (a - c) * (a - c) + (b - d) * (b - d)
  BY <1>1, <1>2 DEF FlatSq
<1>5. FlatSq(p, p) = (a - a) * (a - a) + (b - b) * (b - b)
  BY <1>1 DEF FlatSq
<1>6. (a - a) * (a - a) + (b - b) * (b - b) = 0 OBVIOUS
<1>. QED BY <1>3, <1>4, <1>5, <1>6

\* The reach of the association is positive, and so is its square.
LEMMA ReachType ==
  /\ AssociationDistance * AssociationDistance \in Nat
  /\ 0 < AssociationDistance * AssociationDistance
<1>1. AssociationDistance \in Int /\ AssociationDistance > 0
  BY TrackerAssumption
<1>. QED BY <1>1

-----------------------------------------------------------------------------
\* A smoothed speed stays within the clamp, and standing still keeps it zero.
LEMMA SmoothType ==
  ASSUME NEW d \in Int, NEW dt \in Int, dt > 0, NEW v \in Speeds
  PROVE  Smooth(d, dt, v) \in Speeds /\ Smooth(0, dt, 0) = 0
<1>1. \A w \in Int : Clamp(w) \in Speeds BY DEF Clamp, Speeds
<1>2. (1000 * d) \div dt \in Int
  <2>1. 1000 * d \in Int OBVIOUS
  <2>. QED BY <2>1
<1>3. Clamp((1000 * d) \div dt) \in Speeds BY <1>1, <1>2
<1>4. \A x \in Speeds : (6 * x + 4 * v) \div 10 \in Speeds BY DEF Speeds
<1>5. Smooth(d, dt, v) \in Speeds BY <1>3, <1>4 DEF Smooth
<1>6. (1000 * 0) \div dt = 0
  <2>1. 1000 * 0 = 0 OBVIOUS
  <2>2. 0 \div dt = 0 OBVIOUS
  <2>. QED BY <2>1, <2>2
<1>7. Clamp(0) = 0 BY DEF Clamp
<1>8. Smooth(0, dt, 0) = 0 BY <1>6, <1>7 DEF Smooth
<1>. QED BY <1>5, <1>8

LEMMA VelocityType ==
  ASSUME NEW o \in ObstacleStates, NEW pos \in Places, now \in Nat
  PROVE  /\ Velocity(o, pos) \in Speeds \X Speeds
         /\ o.vel = <<0, 0>> /\ o.pos = pos => Velocity(o, pos) = <<0, 0>>
<1> DEFINE dt == now - o.stamp
<1>1. /\ o.stamp \in Nat /\ o.vel[1] \in Speeds /\ o.vel[2] \in Speeds
      /\ pos[1] - o.pos[1] \in Int /\ pos[2] - o.pos[2] \in Int
  BY DEF ObstacleStates, Places
<1>2. dt \in Int BY <1>1
<1> HIDE DEF dt
<1>3. CASE dt > 0 /\ dt < 15
  <2>1. Velocity(o, pos) = <<Smooth(pos[1] - o.pos[1], dt, o.vel[1]),
                             Smooth(pos[2] - o.pos[2], dt, o.vel[2])>>
    BY <1>3 DEF Velocity, dt
  <2>2. /\ Smooth(pos[1] - o.pos[1], dt, o.vel[1]) \in Speeds
        /\ Smooth(pos[2] - o.pos[2], dt, o.vel[2]) \in Speeds
        /\ Smooth(0, dt, 0) = 0
    BY <1>1, <1>2, <1>3, SmoothType
  <2>3. ASSUME o.vel = <<0, 0>>, o.pos = pos
        PROVE  Velocity(o, pos) = <<0, 0>>
    <3>1. /\ o.vel[1] = 0 /\ o.vel[2] = 0
          /\ pos[1] - o.pos[1] = 0 /\ pos[2] - o.pos[2] = 0
      BY <2>3, <1>1 DEF Places
    <3>. QED BY <3>1, <2>1, <2>2
  <2>. QED BY <2>1, <2>2, <2>3
<1>4. CASE ~(dt > 0 /\ dt < 15)
  <2>1. Velocity(o, pos) = <<(8 * o.vel[1]) \div 10, (8 * o.vel[2]) \div 10>>
    BY <1>4 DEF Velocity, dt
  <2>2. \A v \in Speeds : (8 * v) \div 10 \in Speeds BY DEF Speeds
  <2>3. (8 * 0) \div 10 = 0 OBVIOUS
  <2>. QED BY <1>1, <2>1, <2>2, <2>3
<1>. QED BY <1>3, <1>4

LEMMA SpeedSqType ==
  ASSUME NEW v \in Speeds \X Speeds
  PROVE  SpeedSq(v) \in Nat /\ SpeedSq(<<0, 0>>) = 0
<1>1. v \in Places
  <2>1. Speeds \subseteq Int BY DEF Speeds
  <2>. QED BY <2>1 DEF Places
<1>2. <<0, 0>> \in Places BY DEF Places
<1>. QED BY <1>1, <1>2, FlatSqType DEF SpeedSq

LEMMA UpdatedType ==
  ASSUME NEW o \in ObstacleStates, NEW d \in DetectionType,
         now \in Nat, clouds \in Nat
  PROVE  /\ Updated(o, d) \in ObstacleStates
         /\ Updated(o, d).pos = d.pos /\ Updated(o, d).missed = 0
         /\ Updated(o, d).cloud = clouds
         /\ o.vel = <<0, 0>> /\ o.topSq = 0 /\ o.pos = d.pos =>
              Updated(o, d).vel = <<0, 0>> /\ Updated(o, d).topSq = 0
<1> DEFINE v == Velocity(o, d.pos)
<1>1. d.pos \in Places /\ d.radius \in Nat BY DEF DetectionType
<1>2. /\ v \in Speeds \X Speeds
      /\ o.vel = <<0, 0>> /\ o.pos = d.pos => v = <<0, 0>>
  BY <1>1, VelocityType
<1> HIDE DEF v
<1>3. SpeedSq(v) \in Nat /\ SpeedSq(<<0, 0>>) = 0 BY <1>2, SpeedSqType
<1>4. o.topSq \in Nat /\ o.first \in Nat /\ o.stamp \in Nat
  BY DEF ObstacleStates
<1>5. TopSpeedSq(o, v) \in Nat BY <1>3, <1>4 DEF TopSpeedSq
<1>6. o.topSq = 0 /\ v = <<0, 0>> => TopSpeedSq(o, v) = 0
  BY <1>3, <1>4 DEF TopSpeedSq
<1>7. IsDynamic(o.first, TopSpeedSq(o, v)) \in BOOLEAN BY DEF IsDynamic
<1>8. Updated(o, d) =
        [pos |-> d.pos, vel |-> v, radius |-> d.radius, stamp |-> now,
         first |-> o.first, missed |-> 0,
         dynamic |-> IsDynamic(o.first, TopSpeedSq(o, v)),
         topSq |-> TopSpeedSq(o, v), cloud |-> clouds]
  BY DEF Updated, v
<1>9. Updated(o, d) \in ObstacleStates
  BY <1>1, <1>2, <1>4, <1>5, <1>7, <1>8 DEF ObstacleStates, Places
<1>. QED BY <1>2, <1>6, <1>8, <1>9

LEMMA NewType ==
  ASSUME NEW d \in DetectionType, now \in Nat, clouds \in Nat
  PROVE  /\ New(d) \in ObstacleStates
         /\ New(d).pos = d.pos /\ New(d).vel = <<0, 0>> /\ New(d).topSq = 0
         /\ New(d).missed = 0 /\ New(d).cloud = clouds
<1>1. IsDynamic(now, 0) \in BOOLEAN BY DEF IsDynamic
<1>2. <<0, 0>> \in Speeds \X Speeds BY DEF Speeds
<1>. QED BY <1>1, <1>2 DEF New, ObstacleStates, DetectionType, Places

-----------------------------------------------------------------------------
\* A part of places that are apart is apart; nothing is within reach of a
\* place but, if all are apart, the place itself.
LEMMA ApartPart ==
  ASSUME NEW S, NEW T, S \subseteq T, Apart(T)  PROVE Apart(S)
BY DEF Apart

LEMMA WithinReach ==
  ASSUME NEW S \in SUBSET Places, Apart(S), NEW p \in S, NEW q \in S,
         FlatSq(p, q) < AssociationDistance * AssociationDistance
  PROVE  p = q
<1>1. FlatSq(p, q) \in Nat BY FlatSqType
<1>. QED BY <1>1, ReachType DEF Apart

LEMMA HeadType ==
  ASSUME TypeOK, todo # <<>>  PROVE Head(todo) \in DetectionType
<1>1. todo \in Seq(DetectionType) BY DEF TypeOK, DetectionType, Places
<1>. QED BY <1>1

\* What a match does to the obstacles.
LEMMA MatchedFacts ==
  ASSUME TypeOK, busy, todo # <<>>, NEW id \in Closest(Head(todo).pos),
         obstacles' = [obstacles EXCEPT ![id] = Updated(@, Head(todo))]
  PROVE  /\ Head(todo) \in DetectionType
         /\ id \in Ids /\ Ids' = Ids
         /\ FlatSq(obstacles[id].pos, Head(todo).pos)
              < AssociationDistance * AssociationDistance
         /\ obstacles'[id] = Updated(obstacles[id], Head(todo))
         /\ \A other \in Ids \ {id} : obstacles'[other] = obstacles[other]
<1>1. Head(todo) \in DetectionType BY HeadType
<1>. QED BY <1>1 DEF Closest, Ids

\* What a new obstacle is.
LEMMA UnmatchedFacts ==
  ASSUME TypeOK, busy, todo # <<>>, Unmatched
  PROVE  /\ Head(todo) \in DetectionType
         /\ nextId \notin Ids /\ Ids' = Ids \cup {nextId}
         /\ obstacles'[nextId] = New(Head(todo))
         /\ \A id \in Ids : obstacles'[id] = obstacles[id]
         /\ \A id \in Ids : obstacles[id].pos # Head(todo).pos
<1>1. Head(todo) \in DetectionType BY HeadType
<1>2. nextId \notin Ids BY DEF TypeOK
<1>3. /\ Ids' = Ids \cup {nextId}
      /\ obstacles'[nextId] = New(Head(todo))
      /\ \A id \in Ids : obstacles'[id] = obstacles[id]
  BY <1>2 DEF Unmatched, Ids
<1>4. ASSUME NEW id \in Ids, obstacles[id].pos = Head(todo).pos  PROVE FALSE
  <2> DEFINE q == Head(todo).pos
  <2>1. q \in Places BY <1>1 DEF DetectionType
  <2>2. PICK n \in Nat : n = 0 /\ FlatSq(obstacles[id].pos, q) = n
    BY <2>1, <1>4, FlatSqType
  <2>3. \A other \in Ids : FlatSq(obstacles[other].pos, q) \in Nat
    <3> TAKE other \in Ids
    <3>1. obstacles[other].pos \in Places
      BY DEF TypeOK, ObstacleStates, Places
    <3>. QED BY <3>1, <2>1, FlatSqType
  <2> HIDE DEF q
  <2>4. id \in Closest(q) BY <2>2, <2>3, ReachType DEF Closest
  <2>. QED BY <2>4 DEF Unmatched, q
<1>. QED BY <1>1, <1>2, <1>3, <1>4

-----------------------------------------------------------------------------
\* A cloud comes.
LEMMA CloudKeeps ==
  ASSUME TrackInv, CloudCallback  PROVE TrackInv'
<1>1. /\ obstacles' = obstacles /\ nextId' = nextId /\ seen' = seen
      /\ centres' = {} /\ missing' = Ids /\ busy' = TRUE /\ ~busy
      /\ clouds' = clouds + 1 /\ clouds < MaxClouds /\ Ids' = Ids
  BY DEF CloudCallback, trackVars, Ids
<1>2. TypeOK'
  <2>1. todo' \in Seq([pos : Int \X Int, radius : Nat])
    <3>1. \A c \in Clouds : c \in Seq(Point3D)
      BY TrackerAssumption DEF Point3D
    <3>2. \E c \in Clouds : todo' = Detections(c)
      BY DEF CloudCallback, Views
    <3>. QED BY <3>1, <3>2, DetectionsType
  <2>2. now' \in Nat BY TrackerAssumption DEF CloudCallback, TrackInv, TypeOK
  <2>3. clouds' \in 0..MaxClouds
    BY <1>1, TrackerAssumption DEF TrackInv, TypeOK
  <2>. QED BY <1>1, <2>1, <2>2, <2>3 DEF TrackInv, TypeOK
<1>3. MissesAreRight'
  <2>1. clouds \in Nat BY DEF TrackInv, TypeOK
  <2>2. \A id \in Ids : obstacles[id].cloud \in Nat
    BY DEF TrackInv, TypeOK, ObstacleStates
  <2>. QED BY <1>1, <2>1, <2>2
           DEF TrackInv, MissesAreRight, MissesAreCounted
<1>4. StillWorldStandsStill' BY <1>1 DEF TrackInv, StillWorldStandsStill
<1>5. FoundOnes' BY <1>1 DEF FoundOnes
<1>. QED BY <1>2, <1>3, <1>4, <1>5 DEF TrackInv

\* A detection is a known obstacle.
LEMMA MatchKeeps ==
  ASSUME TrackInv, NextDetection, TrackDetection, Matched  PROVE TrackInv'
<1> DEFINE d == Head(todo)
<1>1. /\ busy /\ todo # <<>> /\ todo' = Tail(todo) /\ busy' = busy
      /\ now' = now /\ clouds' = clouds /\ nextId' = nextId
      /\ centres' = centres \cup {d.pos} /\ seen' = seen \cup {d.pos}
  BY DEF NextDetection, TrackDetection, Matched
<1>2. PICK id \in Closest(d.pos) :
        /\ obstacles' = [obstacles EXCEPT ![id] = Updated(@, d)]
        /\ missing' = missing \ {id}
  BY DEF Matched
<1>3. TypeOK BY DEF TrackInv
<1>4. /\ d \in DetectionType
      /\ id \in Ids /\ Ids' = Ids
      /\ FlatSq(obstacles[id].pos, d.pos)
           < AssociationDistance * AssociationDistance
      /\ obstacles'[id] = Updated(obstacles[id], d)
      /\ \A other \in Ids \ {id} : obstacles'[other] = obstacles[other]
  BY <1>1, <1>2, <1>3, MatchedFacts
<1>5. /\ now \in Nat /\ clouds \in Nat
      /\ \A other \in Ids : /\ obstacles[other] \in ObstacleStates
                            /\ obstacles[other].pos \in Places
  <2>1. \A o \in ObstacleStates : o.pos \in Places
    BY DEF ObstacleStates, Places
  <2>. QED BY <1>3, <2>1 DEF TypeOK
<1>6. /\ obstacles'[id] \in ObstacleStates
      /\ obstacles'[id].pos = d.pos /\ obstacles'[id].missed = 0
      /\ obstacles'[id].cloud = clouds
      /\ obstacles[id].vel = <<0, 0>> /\ obstacles[id].topSq = 0
           /\ obstacles[id].pos = d.pos =>
             obstacles'[id].vel = <<0, 0>> /\ obstacles'[id].topSq = 0
  BY <1>4, <1>5, UpdatedType
<1>7. d.pos \in Places BY <1>4 DEF DetectionType
<1> HIDE DEF d
<1>8. TypeOK'
  <2>1. \A other \in Ids' : obstacles'[other] \in ObstacleStates
    BY <1>4, <1>5, <1>6
  <2>2. todo' \in Seq([pos : Int \X Int, radius : Nat])
    BY <1>1, <1>3 DEF TypeOK
  <2>3. centres' \subseteq seen' /\ seen' \subseteq Int \X Int
    BY <1>1, <1>3, <1>7 DEF TypeOK, Places
  <2>. QED BY <1>1, <1>2, <1>3, <1>4, <2>1, <2>2, <2>3 DEF TypeOK
<1>9. MissesAreRight'
  BY <1>1, <1>2, <1>4, <1>6 DEF TrackInv, MissesAreRight, MissesAreCounted
<1>10. StillWorldStandsStill'
  <2> SUFFICES ASSUME Apart(seen')
               PROVE  /\ \A i \in Ids : /\ obstacles'[i].pos \in seen'
                                        /\ obstacles'[i].vel = <<0, 0>>
                                        /\ obstacles'[i].topSq = 0
                      /\ \A i, j \in Ids :
                           obstacles'[i].pos = obstacles'[j].pos => i = j
    BY <1>4 DEF StillWorldStandsStill
  <2>1. Apart(seen) BY <1>1, ApartPart
  <2>2. /\ \A i \in Ids : /\ obstacles[i].pos \in seen
                          /\ obstacles[i].vel = <<0, 0>>
                          /\ obstacles[i].topSq = 0
        /\ \A i, j \in Ids : obstacles[i].pos = obstacles[j].pos => i = j
    BY <2>1 DEF TrackInv, StillWorldStandsStill
  <2>3. seen' \subseteq Places BY <1>1, <1>3, <1>7 DEF TypeOK, Places
  <2>4. obstacles[id].pos = d.pos
    <3>1. obstacles[id].pos \in seen' /\ d.pos \in seen' BY <1>1, <1>4, <2>2
    <3>. QED BY <1>4, <2>3, <3>1, WithinReach
  <2>. QED BY <1>1, <1>4, <1>6, <2>2, <2>4
<1>11. FoundOnes'
  <2> SUFFICES ASSUME Apart(centres'), NEW p \in centres'
               PROVE  \E i \in Ids \ missing' :
                        obstacles'[i].pos = p /\ obstacles'[i].missed = 0
    BY <1>4 DEF FoundOnes
  <2>1. CASE p = d.pos BY <2>1, <1>2, <1>4, <1>6
  <2>2. CASE p # d.pos
    <3>1. p \in centres /\ Apart(centres) BY <2>2, <1>1, ApartPart
    <3>2. PICK i \in Ids \ missing :
            obstacles[i].pos = p /\ obstacles[i].missed = 0
      BY <3>1 DEF TrackInv, FoundOnes
    <3>3. i # id
      <4>1. centres' \subseteq Places
        BY <1>1, <1>3, <1>7 DEF TypeOK, Places
      <4>2. d.pos \in centres' BY <1>1
      <4>. QED BY <4>1, <4>2, <1>4, <2>2, <3>2, WithinReach
    <3>. QED BY <1>2, <1>4, <3>2, <3>3
  <2>. QED BY <2>1, <2>2
<1>. QED BY <1>8, <1>9, <1>10, <1>11 DEF TrackInv

\* A detection is a new obstacle.
LEMMA NewKeeps ==
  ASSUME TrackInv, NextDetection, TrackDetection, Unmatched  PROVE TrackInv'
<1> DEFINE d == Head(todo)
<1>1. /\ busy /\ todo # <<>> /\ todo' = Tail(todo) /\ busy' = busy
      /\ now' = now /\ clouds' = clouds /\ nextId' = nextId + 1
      /\ missing' = missing
      /\ centres' = centres \cup {d.pos} /\ seen' = seen \cup {d.pos}
  BY DEF NextDetection, TrackDetection, Unmatched
<1>2. TypeOK BY DEF TrackInv
<1>3. /\ d \in DetectionType
      /\ nextId \notin Ids /\ Ids' = Ids \cup {nextId}
      /\ obstacles'[nextId] = New(d)
      /\ \A id \in Ids : obstacles'[id] = obstacles[id]
      /\ \A id \in Ids : obstacles[id].pos # d.pos
  BY <1>1, <1>2, UnmatchedFacts
<1>4. now \in Nat /\ clouds \in Nat BY <1>2 DEF TypeOK
<1>5. /\ obstacles'[nextId] \in ObstacleStates
      /\ obstacles'[nextId].pos = d.pos
      /\ obstacles'[nextId].vel = <<0, 0>> /\ obstacles'[nextId].topSq = 0
      /\ obstacles'[nextId].missed = 0 /\ obstacles'[nextId].cloud = clouds
  BY <1>3, <1>4, NewType
<1>6. d.pos \in Places BY <1>3 DEF DetectionType
<1>7. missing \subseteq Ids BY <1>2 DEF TypeOK
<1> HIDE DEF d
<1>8. TypeOK'
  <2>1. \A id \in Ids' : obstacles'[id] \in ObstacleStates
    BY <1>2, <1>3, <1>5 DEF TypeOK
  <2>2. todo' \in Seq([pos : Int \X Int, radius : Nat])
    BY <1>1, <1>2 DEF TypeOK
  <2>3. centres' \subseteq seen' /\ seen' \subseteq Int \X Int
    BY <1>1, <1>2, <1>6 DEF TypeOK, Places
  <2>4. nextId' \in Nat /\ Ids' \subseteq 0..(nextId' - 1)
    BY <1>1, <1>2, <1>3 DEF TypeOK
  <2>. QED BY <1>1, <1>2, <1>3, <1>7, <2>1, <2>2, <2>3, <2>4 DEF TypeOK
<1>9. MissesAreRight'
  BY <1>1, <1>3, <1>5, <1>7 DEF TrackInv, MissesAreRight, MissesAreCounted
<1>10. StillWorldStandsStill'
  <2> SUFFICES ASSUME Apart(seen')
               PROVE  /\ \A i \in Ids' : /\ obstacles'[i].pos \in seen'
                                         /\ obstacles'[i].vel = <<0, 0>>
                                         /\ obstacles'[i].topSq = 0
                      /\ \A i, j \in Ids' :
                           obstacles'[i].pos = obstacles'[j].pos => i = j
    BY DEF StillWorldStandsStill
  <2>1. Apart(seen) BY <1>1, ApartPart
  <2>2. /\ \A i \in Ids : /\ obstacles[i].pos \in seen
                          /\ obstacles[i].vel = <<0, 0>>
                          /\ obstacles[i].topSq = 0
        /\ \A i, j \in Ids : obstacles[i].pos = obstacles[j].pos => i = j
    BY <2>1 DEF TrackInv, StillWorldStandsStill
  <2>. QED BY <1>1, <1>3, <1>5, <2>2
<1>11. FoundOnes'
  <2> SUFFICES ASSUME Apart(centres'), NEW p \in centres'
               PROVE  \E i \in Ids' \ missing' :
                        obstacles'[i].pos = p /\ obstacles'[i].missed = 0
    BY DEF FoundOnes
  <2>1. CASE p = d.pos BY <2>1, <1>1, <1>3, <1>5, <1>7
  <2>2. CASE p # d.pos
    <3>1. p \in centres /\ Apart(centres) BY <2>2, <1>1, ApartPart
    <3>. QED BY <3>1, <1>1, <1>3 DEF TrackInv, FoundOnes
  <2>. QED BY <2>1, <2>2
<1>. QED BY <1>8, <1>9, <1>10, <1>11 DEF TrackInv

\* A detection is skipped.
LEMMA SkipKeeps ==
  ASSUME TrackInv, NextDetection, SkipDetection  PROVE TrackInv'
<1>1. /\ todo # <<>> /\ todo' = Tail(todo) /\ busy' = busy /\ now' = now
      /\ clouds' = clouds /\ obstacles' = obstacles /\ nextId' = nextId
      /\ missing' = missing /\ centres' = centres /\ seen' = seen
      /\ Ids' = Ids
  BY DEF NextDetection, SkipDetection, trackVars, Ids
<1>2. TypeOK' BY <1>1 DEF TrackInv, TypeOK
<1>3. MissesAreRight'
  BY <1>1 DEF TrackInv, MissesAreRight, MissesAreCounted
<1>4. StillWorldStandsStill' BY <1>1 DEF TrackInv, StillWorldStandsStill
<1>5. FoundOnes' BY <1>1 DEF TrackInv, FoundOnes
<1>. QED BY <1>2, <1>3, <1>4, <1>5 DEF TrackInv

\* The cloud is done: only an obstacle that was missed again is changed, and
\* only one that was missed for the fourth time is forgotten.
LEMMA FinishKeeps ==
  ASSUME TrackInv, FinishCloud  PROVE TrackInv'
<1> DEFINE Misses(id) == obstacles[id].missed
                           + (IF id \in missing THEN 1 ELSE 0)
<1>1. /\ busy /\ busy' = FALSE /\ missing' = {} /\ nextId' = nextId
      /\ clouds' = clouds /\ now' = now /\ centres' = centres
      /\ seen' = seen /\ todo' = todo
      /\ obstacles' = [id \in {id \in Ids : Misses(id) <= 3} |->
                         [obstacles[id] EXCEPT !.missed = Misses(id)]]
  BY DEF FinishCloud, cloudVars
<1>2. Ids' = {id \in Ids : Misses(id) <= 3} BY <1>1 DEF Ids
<1>3. \A id \in Ids : /\ obstacles[id] \in ObstacleStates
                      /\ obstacles[id].missed \in Nat /\ Misses(id) \in Nat
                      /\ obstacles[id].cloud \in Nat
  BY DEF TrackInv, TypeOK, ObstacleStates
<1>4. \A id \in Ids' : /\ obstacles'[id] \in ObstacleStates
                       /\ obstacles'[id].missed = Misses(id)
                       /\ obstacles'[id].pos = obstacles[id].pos
                       /\ obstacles'[id].vel = obstacles[id].vel
                       /\ obstacles'[id].topSq = obstacles[id].topSq
                       /\ obstacles'[id].cloud = obstacles[id].cloud
  BY <1>1, <1>2, <1>3 DEF ObstacleStates
<1>5. TypeOK' BY <1>1, <1>2, <1>4 DEF TrackInv, TypeOK
<1>6. MissesAreRight'
  <2>1. clouds \in Nat BY DEF TrackInv, TypeOK
  <2>2. \A id \in Ids' : /\ Misses(id) = clouds - obstacles[id].cloud
                         /\ Misses(id) <= 3
    BY <1>1, <1>2, <1>3, <2>1 DEF TrackInv, MissesAreRight
  <2>. QED BY <1>1, <1>4, <2>2 DEF MissesAreRight, MissesAreCounted
<1>7. StillWorldStandsStill'
  <2> SUFFICES ASSUME Apart(seen) PROVE
        /\ \A id \in Ids' : /\ obstacles'[id].pos \in seen
                            /\ obstacles'[id].vel = <<0, 0>>
                            /\ obstacles'[id].topSq = 0
        /\ \A id, other \in Ids' :
             obstacles'[id].pos = obstacles'[other].pos => id = other
    <3>1. seen' = seen BY <1>1
    <3>. QED BY <3>1 DEF StillWorldStandsStill, Apart
  <2>1. StillWorldStandsStill BY DEF TrackInv
  <2>2. /\ \A id \in Ids : /\ obstacles[id].pos \in seen
                           /\ obstacles[id].vel = <<0, 0>>
                           /\ obstacles[id].topSq = 0
        /\ \A id, other \in Ids :
             obstacles[id].pos = obstacles[other].pos => id = other
    BY <2>1 DEF StillWorldStandsStill
  <2>3. Ids' \subseteq Ids BY <1>2
  <2>4. \A id \in Ids' : /\ obstacles'[id].pos = obstacles[id].pos
                          /\ obstacles'[id].vel = obstacles[id].vel
                          /\ obstacles'[id].topSq = obstacles[id].topSq
    BY <1>4
  <2>. HIDE DEF Misses
  <2>. QED BY <2>2, <2>3, <2>4
<1>8. FoundOnes'
  <2> SUFFICES ASSUME Apart(centres), NEW p \in centres
               PROVE  \E i \in Ids' :
                        obstacles'[i].pos = p /\ obstacles'[i].missed = 0
    BY <1>1 DEF FoundOnes
  <2>1. PICK i \in Ids \ missing :
          obstacles[i].pos = p /\ obstacles[i].missed = 0
    BY DEF TrackInv, FoundOnes
  <2>2. Misses(i) = 0 BY <2>1
  <2>. QED BY <1>2, <1>4, <2>1, <2>2
<1>. QED BY <1>5, <1>6, <1>7, <1>8 DEF TrackInv

-----------------------------------------------------------------------------
LEMMA TrackInit ==
  ASSUME Init  PROVE TrackInv
<1>1. Ids = {} BY DEF Init, Ids
<1>2. TypeOK
  <2>1. todo \in Seq([pos : Int \X Int, radius : Nat]) BY DEF Init
  <2>2. clouds \in 0..MaxClouds BY TrackerAssumption DEF Init
  <2>. QED BY <1>1, <2>1, <2>2 DEF Init, TypeOK
<1>3. MissesAreRight BY <1>1 DEF Init, MissesAreRight, MissesAreCounted
<1>4. StillWorldStandsStill BY <1>1 DEF StillWorldStandsStill
<1>5. FoundOnes BY DEF Init, FoundOnes
<1>. QED BY <1>2, <1>3, <1>4, <1>5 DEF TrackInv

LEMMA TrackStep ==
  ASSUME TrackInv, [Next]_vars  PROVE TrackInv'
<1>1. CASE CloudCallback BY <1>1, CloudKeeps
<1>2. CASE NextDetection
  BY <1>2, MatchKeeps, NewKeeps, SkipKeeps DEF NextDetection, TrackDetection
<1>3. CASE FinishCloud BY <1>3, FinishKeeps
<1>4. CASE UNCHANGED vars
  <2>1. /\ todo' = todo /\ busy' = busy /\ now' = now /\ clouds' = clouds
        /\ obstacles' = obstacles /\ nextId' = nextId /\ missing' = missing
        /\ centres' = centres /\ seen' = seen /\ Ids' = Ids
    BY <1>4 DEF vars, trackVars, cloudVars, Ids
  <2>2. TypeOK' BY <2>1 DEF TrackInv, TypeOK
  <2>3. MissesAreRight'
    BY <2>1 DEF TrackInv, MissesAreRight, MissesAreCounted
  <2>4. StillWorldStandsStill' BY <2>1 DEF TrackInv, StillWorldStandsStill
  <2>5. FoundOnes' BY <2>1 DEF TrackInv, FoundOnes
  <2>. QED BY <2>2, <2>3, <2>4, <2>5 DEF TrackInv
<1>. QED BY <1>1, <1>2, <1>3, <1>4 DEF Next

LEMMA Tracking == Spec => []TrackInv
BY TrackInit, TrackStep, PTL DEF Spec

\* Types, and identities: an id in use was given out by the counter, which
\* never goes back, and speeds stay within the clamp.
THEOREM ObstacleTypes == Spec => []TypeOK
<1>1. TrackInv => TypeOK BY DEF TrackInv
<1>. QED BY <1>1, Tracking, PTL

\* missed_frames counts what it should, and an obstacle that four clouds in a
\* row did not show is forgotten, for every stream of clouds.
THEOREM ForgottenInTime == Spec => []MissesAreCounted
<1>1. TrackInv => MissesAreCounted BY DEF TrackInv, MissesAreRight
<1>. QED BY <1>1, Tracking, PTL

\* findClosestObstacle and updateObstacleState take no still world for a
\* moving one, in whatever order clusters come and whatever is missed.
THEOREM StillnessIsKept == Spec => []StillWorldStandsStill
<1>1. TrackInv => StillWorldStandsStill BY DEF TrackInv
<1>. QED BY <1>1, Tracking, PTL

\* People who are apart are tracked one by one.
THEOREM TrackedOneByOne == Spec => []PeopleAreTracked
<1>1. TrackInv => PeopleAreTracked
  BY DEF TrackInv, FoundOnes, PeopleAreTracked
<1>. QED BY <1>1, Tracking, PTL

-----------------------------------------------------------------------------
Cloud3D == Seq(Int \X Int \X Int)

\* An obstacle that is taken for dynamic was watched for a short time only,
\* or was seen to move; a point that is not published is near a dynamic one.
DynamicForAReason ==
  \A id \in Ids : obstacles[id].dynamic =>
    \/ obstacles[id].stamp - obstacles[id].first <= StaticTime
    \/ obstacles[id].topSq >= MinDynamicVelocity * MinDynamicVelocity

HiddenByDynamicOnes ==
  ~busy =>
    \A p \in PointsOf(cloud) \ filtered :
      \E id \in Ids : /\ obstacles[id].dynamic
                      /\ FlatSq(p, obstacles[id].pos)
                           <= obstacles[id].radius * obstacles[id].radius

CoverInv == cloud \in Cloud3D /\ DynamicForAReason /\ HiddenByDynamicOnes

LEMMA DistanceToPoint ==
  ASSUME NEW p \in Int \X Int \X Int, NEW q \in Places
  PROVE  FlatSq(p, q) \in Nat
<1>1. p[1] \in Int /\ p[2] \in Int /\ q[1] \in Int /\ q[2] \in Int
  BY DEF Places
<1>2. p[1] - q[1] \in Int /\ p[2] - q[2] \in Int BY <1>1
<1>3. /\ (p[1] - q[1]) * (p[1] - q[1]) \in Nat
      /\ (p[2] - q[2]) * (p[2] - q[2]) \in Nat
  BY <1>2, SquareType
<1>. QED BY <1>3 DEF FlatSq

\* What makes an obstacle dynamic when it is updated, or new.
LEMMA DynamicWhenSeen ==
  ASSUME NEW first \in Nat, NEW topSq \in Nat, now \in Nat
  PROVE  IsDynamic(first, topSq) =>
           \/ now - first <= StaticTime
           \/ topSq >= MinDynamicVelocity * MinDynamicVelocity
<1>1. StaticTime \in Nat /\ MinDynamicVelocity \in Int BY TrackerAssumption
<1>2. MinDynamicVelocity * MinDynamicVelocity \in Nat BY <1>1, SquareType
<1>. QED BY <1>1, <1>2 DEF IsDynamic

LEMMA DetectionKeepsReasons ==
  ASSUME TrackInv, DynamicForAReason, NextDetection, TrackDetection
  PROVE  DynamicForAReason'
<1>1. TypeOK /\ busy /\ todo # <<>> BY DEF TrackInv, NextDetection
<1>2. now \in Nat BY <1>1 DEF TypeOK
<1>3. CASE Matched
  <2>1. PICK id \in Closest(Head(todo).pos) :
          obstacles' = [obstacles EXCEPT ![id] = Updated(@, Head(todo))]
    BY <1>3 DEF Matched
  <2>2. /\ Head(todo) \in DetectionType /\ id \in Ids /\ Ids' = Ids
        /\ obstacles'[id] = Updated(obstacles[id], Head(todo))
        /\ \A other \in Ids \ {id} : obstacles'[other] = obstacles[other]
    BY <1>1, <2>1, MatchedFacts
  <2> DEFINE o   == obstacles[id]
             v   == Velocity(o, Head(todo).pos)
             top == TopSpeedSq(o, v)
  <2>3. o \in ObstacleStates BY <1>1, <2>2 DEF TypeOK
  <2>4. o.first \in Nat /\ o.topSq \in Nat /\ o.stamp \in Nat
    BY <2>3 DEF ObstacleStates
  <2>5. top \in Nat
    <3>1. Head(todo).pos \in Places BY <2>2 DEF DetectionType
    <3>2. v \in Speeds \X Speeds BY <1>2, <2>3, <3>1, VelocityType
    <3>3. SpeedSq(v) \in Nat BY <3>2, SpeedSqType
    <3>. QED BY <2>4, <3>3 DEF TopSpeedSq
  <2>6. /\ obstacles'[id].stamp = now /\ obstacles'[id].first = o.first
        /\ obstacles'[id].topSq = top
        /\ obstacles'[id].dynamic = IsDynamic(o.first, top)
    BY <2>2 DEF Updated
  <2> HIDE DEF o, v, top
  <2>7. obstacles'[id].dynamic =>
          \/ obstacles'[id].stamp - obstacles'[id].first <= StaticTime
          \/ obstacles'[id].topSq >= MinDynamicVelocity * MinDynamicVelocity
    BY <1>2, <2>4, <2>5, <2>6, DynamicWhenSeen
  <2>. QED BY <2>2, <2>7 DEF DynamicForAReason
<1>4. CASE Unmatched
  <2>1. /\ Ids' = Ids \cup {nextId} /\ nextId \notin Ids
        /\ obstacles'[nextId] = New(Head(todo))
        /\ \A id \in Ids : obstacles'[id] = obstacles[id]
    BY <1>1, <1>4, UnmatchedFacts
  <2>2. /\ obstacles'[nextId].stamp = now /\ obstacles'[nextId].first = now
        /\ obstacles'[nextId].topSq = 0
        /\ obstacles'[nextId].dynamic = IsDynamic(now, 0)
    BY <2>1 DEF New
  <2>3. obstacles'[nextId].dynamic =>
          \/ obstacles'[nextId].stamp - obstacles'[nextId].first <= StaticTime
          \/ obstacles'[nextId].topSq
               >= MinDynamicVelocity * MinDynamicVelocity
    BY <1>2, <2>2, DynamicWhenSeen
  <2>. QED BY <2>1, <2>3 DEF DynamicForAReason
<1>. QED BY <1>3, <1>4 DEF TrackDetection

\* Only what is near an obstacle that is dynamic, and stays, is left out.
LEMMA FinishHides ==
  ASSUME TrackInv, CoverInv, FinishCloud
  PROVE  DynamicForAReason' /\ HiddenByDynamicOnes'
<1> DEFINE Misses(id) == obstacles[id].missed
                           + (IF id \in missing THEN 1 ELSE 0)
<1>1. /\ busy' = FALSE /\ cloud' = cloud
      /\ obstacles' = [id \in {id \in Ids : Misses(id) <= 3} |->
                         [obstacles[id] EXCEPT !.missed = Misses(id)]]
  BY DEF FinishCloud, cloudVars
<1>2. PICK hide \in SUBSET {id \in DOMAIN obstacles' : obstacles'[id].dynamic} :
        filtered' = Filter(hide)
  BY DEF FinishCloud
<1>3. Ids' = {id \in Ids : Misses(id) <= 3} BY <1>1 DEF Ids
<1>4. \A id \in Ids : obstacles[id] \in ObstacleStates
  BY DEF TrackInv, TypeOK
<1>5. \A id \in Ids' : /\ obstacles'[id].pos = obstacles[id].pos
                       /\ obstacles'[id].radius = obstacles[id].radius
                       /\ obstacles'[id].stamp = obstacles[id].stamp
                       /\ obstacles'[id].first = obstacles[id].first
                       /\ obstacles'[id].topSq = obstacles[id].topSq
                       /\ obstacles'[id].dynamic = obstacles[id].dynamic
  BY <1>1, <1>3, <1>4 DEF ObstacleStates
<1>6. DynamicForAReason'
  <2>1. Ids' \subseteq Ids BY <1>3
  <2>. HIDE DEF Misses
  <2>. QED BY <1>5, <2>1 DEF CoverInv, DynamicForAReason
<1>7. ASSUME NEW p \in PointsOf(cloud), p \notin filtered'
      PROVE  \E id \in Ids' : /\ obstacles'[id].dynamic
                              /\ FlatSq(p, obstacles'[id].pos)
                                <= obstacles'[id].radius * obstacles'[id].radius
  <2>1. PICK id \in hide :
          ~(FlatSq(p, obstacles'[id].pos)
              > obstacles'[id].radius * obstacles'[id].radius)
    BY <1>2, <1>7 DEF Filter
  <2>2. id \in Ids' /\ obstacles'[id].dynamic BY <1>2 DEF Ids
  <2>3. obstacles'[id].pos \in Places /\ obstacles'[id].radius \in Nat
    BY <1>3, <1>4, <1>5, <2>2 DEF ObstacleStates, Places
  <2>4. p \in Int \X Int \X Int
    BY DEF PointsOf, CoverInv, Cloud3D
  <2>5. FlatSq(p, obstacles'[id].pos) \in Nat
    BY <2>3, <2>4, DistanceToPoint
  <2>6. obstacles'[id].radius * obstacles'[id].radius \in Nat
    BY <2>3, SquareType
  <2>. QED BY <2>1, <2>2, <2>5, <2>6
<1>8. HiddenByDynamicOnes'
  <2>1. PointsOf(cloud)' = PointsOf(cloud) BY <1>1 DEF PointsOf
  <2>. QED BY <1>7, <2>1 DEF HiddenByDynamicOnes
<1>. QED BY <1>6, <1>8

LEMMA CoverInit ==
  ASSUME Init  PROVE CoverInv
<1>1. Ids = {} BY DEF Init, Ids
<1>2. PointsOf(cloud) = {} BY DEF Init, PointsOf
<1>3. cloud \in Cloud3D BY DEF Init, Cloud3D
<1>. QED BY <1>1, <1>2, <1>3
         DEF CoverInv, DynamicForAReason, HiddenByDynamicOnes

LEMMA CoverStep ==
  ASSUME TrackInv, CoverInv, [Next]_vars  PROVE CoverInv'
<1>1. CASE CloudCallback
  <2>1. busy' = TRUE /\ obstacles' = obstacles /\ Ids' = Ids
    BY <1>1 DEF CloudCallback, trackVars, Ids
  <2>2. cloud' \in Clouds BY <1>1 DEF CloudCallback, Views
  <2>3. cloud' \in Cloud3D BY <2>2, TrackerAssumption DEF Cloud3D
  <2>. QED BY <2>1, <2>3 DEF CoverInv, DynamicForAReason, HiddenByDynamicOnes
<1>2. CASE NextDetection
  <2>1. busy /\ busy' = busy /\ cloud' = cloud BY <1>2 DEF NextDetection
  <2>2. CASE TrackDetection
    BY <1>2, <2>1, <2>2, DetectionKeepsReasons
       DEF CoverInv, HiddenByDynamicOnes
  <2>3. CASE SkipDetection
    <3>1. obstacles' = obstacles /\ Ids' = Ids
      BY <2>3 DEF SkipDetection, trackVars, Ids
    <3>. QED BY <2>1, <3>1 DEF CoverInv, DynamicForAReason, HiddenByDynamicOnes
  <2>. QED BY <1>2, <2>2, <2>3 DEF NextDetection
<1>3. CASE FinishCloud
  <2>1. cloud' = cloud BY <1>3 DEF FinishCloud, cloudVars
  <2>. QED BY <1>3, <2>1, FinishHides DEF CoverInv
<1>4. CASE UNCHANGED vars
  <2>1. /\ obstacles' = obstacles /\ busy' = busy /\ cloud' = cloud
        /\ filtered' = filtered /\ Ids' = Ids
        /\ PointsOf(cloud)' = PointsOf(cloud)
    BY <1>4 DEF vars, trackVars, cloudVars, Ids, PointsOf
  <2>. QED BY <2>1 DEF CoverInv, DynamicForAReason, HiddenByDynamicOnes
<1>. QED BY <1>1, <1>2, <1>3, <1>4 DEF Next

\* In a still world nothing was seen to move: what hides a point is an
\* obstacle that is too new to be known for static.
LEMMA HiddenByNewOnes ==
  ASSUME TrackInv, CoverInv  PROVE StillPointsStay
<1> SUFFICES ASSUME ~busy, Apart(seen), NEW p \in PointsOf(cloud) \ filtered
             PROVE  \E id \in Ids :
                      /\ obstacles[id].stamp - obstacles[id].first <= StaticTime
                      /\ FlatSq(p, obstacles[id].pos)
                           <= obstacles[id].radius * obstacles[id].radius
  BY DEF StillPointsStay
<1>1. PICK id \in Ids : /\ obstacles[id].dynamic
                        /\ FlatSq(p, obstacles[id].pos)
                             <= obstacles[id].radius * obstacles[id].radius
  BY DEF CoverInv, HiddenByDynamicOnes
<1>2. obstacles[id].topSq = 0 BY DEF TrackInv, StillWorldStandsStill
<1>3. 0 < MinDynamicVelocity * MinDynamicVelocity
  <2>1. MinDynamicVelocity \in Nat /\ MinDynamicVelocity > 0
    BY TrackerAssumption
  <2>. QED BY <2>1
<1>4. MinDynamicVelocity * MinDynamicVelocity \in Nat
  BY TrackerAssumption, SquareType
<1>5. obstacles[id].stamp - obstacles[id].first <= StaticTime
  BY <1>1, <1>2, <1>3, <1>4 DEF CoverInv, DynamicForAReason
<1>. QED BY <1>1, <1>5

\* publishFilteredCloud takes out of a still world only the points near an
\* obstacle that was not yet watched for static_observation_time, for every
\* stream of clouds and whichever transforms fail.
THEOREM StillPointsArePublished == Spec => []StillPointsStay
<1>1. Spec => []CoverInv
  <2>1. TrackInv /\ CoverInv /\ [Next]_vars => CoverInv' BY CoverStep
  <2>. QED BY <2>1, CoverInit, Tracking, PTL DEF Spec
<1>2. TrackInv /\ CoverInv => StillPointsStay BY HiddenByNewOnes
<1>. QED BY <1>1, <1>2, Tracking, PTL

-----------------------------------------------------------------------------
\* clusterPoints finds exactly the connected groups of points in every cloud
\* the sensor may send and in every part of one.
THEOREM ClusteringFindsGroups == Spec => []ClusteringIsRight
<1>1. ClusteringIsRight
  <2>1. ASSUME NEW c \in Clouds, NEW K \in SUBSET DOMAIN c
        PROVE  LET pts == Candidates(Part(c, K))
               IN IsClustering(pts, ClusterPoints(pts))
    <3>1. c \in Seq(Point3D) BY TrackerAssumption DEF Point3D
    <3>2. Part(c, K) \in Seq(Point3D) BY <3>1, PartType
    <3>3. Candidates(Part(c, K)) \in Seq(Point3D) BY <3>2, CandidatesType
    <3>. QED BY <3>3, ClustersAreTheGroups
  <2>. QED BY <2>1 DEF ClusteringIsRight
<1>. QED BY <1>1, PTL
=============================================================================
