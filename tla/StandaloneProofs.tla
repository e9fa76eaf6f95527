-------------------------- MODULE StandaloneProofs --------------------------
(***************************************************************************)
(* Theorems about StandaloneManager.  StandaloneInv is inductive: the      *)
(* lists, the goals sent and the order of their answers, the flags, and    *)
(* what Nav2 may be doing with goals that were answered.  The proof goes   *)
(* group of variables by group of variables.                               *)
(***************************************************************************)
EXTENDS StandaloneManager, NavProofs

ListsOK ==
  /\ goalPoints \in Seq(Spots) /\ rawGoals \in Seq(Spots)
  /\ GoalsKeepOrder

GoalsOK ==
  /\ NavTypeOK
  /\ handle \in Nat
  /\ Tracks(client, handle)
  /\ AnsweredInOrder(client)

FlagsOK ==
  /\ missionActive \in BOOLEAN /\ rtbMode \in BOOLEAN /\ unsent \in BOOLEAN
  /\ cmds \in 0..MaxCommands
  /\ ActiveMeansOut

\* Nav2 takes requests in order and drives one goal, the latest it accepted.
ServedInOrder ==
  \A g, h \in Goals :
    h < g => /\ server[h] = "requested" => server[g] = "requested"
             /\ server[g] \in {"executing"} \cup Ended => server[h] # "executing"

\* What the client has an answer for was served, and only such goals are
\* cancelled.
AnswersAreServed ==
  /\ \A g \in Goals : client[g] # "sent" => server[g] # "requested"
  /\ \A g \in cancels : client[g] # "sent"

ServedOK ==
  /\ ServedInOrder /\ AnswersAreServed
  /\ lost \subseteq Goals
  /\ MissionsAreTracked

StandaloneInv == ListsOK /\ GoalsOK /\ FlagsOK /\ ServedOK

-----------------------------------------------------------------------------
\* The lists.

LEMMA WaysBackType ==
  ASSUME goalPoints \in Seq(Spots), NEW near, NEW lethal,
         NEW way \in WaysBack(near, lethal)
  PROVE  way \in Seq(Spots)
<1> DEFINE Usable(p) == p \notin near /\ IsPoseCollisionFree(lethal, p)
           K == {i \in DOMAIN goalPoints : Usable(goalPoints[i])}
           home == IF Usable(Home) THEN <<Home>> ELSE <<>>
<1>1. PICK back \in ReturnPath(goalPoints, K) : way = back \o home
  BY DEF WaysBack
<1>2. back \in Seq(Spots)
  <2>1. K \in SUBSET DOMAIN goalPoints OBVIOUS
  <2> HIDE DEF K
  <2>. QED BY <1>1, <2>1, ReturnPathType
<1>3. home \in Seq(Spots)
  <2>1. <<Home>> \in Seq(Spots) BY DEF Spots
  <2>2. <<>> \in Seq(Spots) OBVIOUS
  <2>. QED BY <2>1, <2>2
<1> HIDE DEF home
<1>. QED BY <1>1, <1>2, <1>3

\* goals are among the points, in their order.
KeepOrder(goals, points) ==
  \E f \in [DOMAIN goals -> DOMAIN points] :
    /\ \A i, j \in DOMAIN goals : i < j => f[i] < f[j]
    /\ \A i \in DOMAIN goals : goals[i] = points[f[i]]

\* A goal that is new for both is the last of both.
LEMMA AppendKeepsOrder ==
  ASSUME NEW goals \in Seq(Spots), NEW points \in Seq(Spots), NEW p \in Spots,
         KeepOrder(goals, points)
  PROVE  KeepOrder(Append(goals, p), Append(points, p))
<1> DEFINE m == Len(goals)
           n == Len(points)
           more == Append(goals, p)
           most == Append(points, p)
<1>1. PICK f \in [DOMAIN goals -> DOMAIN points] :
        /\ \A i, j \in DOMAIN goals : i < j => f[i] < f[j]
        /\ \A i \in DOMAIN goals : goals[i] = points[f[i]]
  BY DEF KeepOrder
<1>2. /\ DOMAIN goals = 1..m /\ DOMAIN points = 1..n
      /\ m \in Nat /\ n \in Nat
      /\ DOMAIN more = 1..(m + 1) /\ DOMAIN most = 1..(n + 1)
      /\ more[m + 1] = p /\ most[n + 1] = p
      /\ \A i \in 1..m : more[i] = goals[i]
      /\ \A i \in 1..n : most[i] = points[i]
  OBVIOUS
<1> HIDE DEF m, n, more, most
<1> DEFINE h == [i \in 1..(m + 1) |-> IF i = m + 1 THEN n + 1 ELSE f[i]]
<1>3. \A i \in 1..m : h[i] = f[i] /\ f[i] \in 1..n
  BY <1>2
<1>4. h[m + 1] = n + 1 BY <1>2
<1>5. h \in [1..(m + 1) -> 1..(n + 1)] BY <1>2, <1>3, <1>4
<1>6. \A i, j \in 1..(m + 1) : i < j => h[i] < h[j]
  <2> SUFFICES ASSUME NEW i \in 1..(m + 1), NEW j \in 1..(m + 1), i < j
               PROVE  h[i] < h[j]
    OBVIOUS
  <2>1. i \in 1..m BY <1>2
  <2>2. CASE j = m + 1 BY <1>2, <1>3, <1>4, <2>1, <2>2
  <2>3. CASE j \in 1..m BY <1>1, <1>2, <1>3, <2>1, <2>3
  <2>. QED BY <1>2, <2>2, <2>3
<1>7. \A i \in 1..(m + 1) : more[i] = most[h[i]]
  <2> SUFFICES ASSUME NEW i \in 1..(m + 1) PROVE more[i] = most[h[i]] OBVIOUS
  <2>1. CASE i = m + 1 BY <1>2, <1>4, <2>1
  <2>2. CASE i \in 1..m BY <1>1, <1>2, <1>3, <2>2
  <2>. QED BY <1>2, <2>1, <2>2
<1> HIDE DEF h
<1>8. KeepOrder(more, most) BY <1>2, <1>5, <1>6, <1>7 DEF KeepOrder
<1>. QED BY <1>8 DEF more, most

\* Taking a goal out closes the gap.
LEMMA WithoutKeepsOrder ==
  ASSUME NEW goals \in Seq(Spots), NEW points \in Seq(Spots),
         KeepOrder(goals, points), NEW k \in DOMAIN goals
  PROVE  /\ Without(goals, k) \in Seq(Spots)
         /\ KeepOrder(Without(goals, k), points)
<1> DEFINE m == Len(goals) - 1
           less == Without(goals, k)
           Old(i) == IF i < k THEN i ELSE i + 1
<1>1. PICK f \in [DOMAIN goals -> DOMAIN points] :
        /\ \A i, j \in DOMAIN goals : i < j => f[i] < f[j]
        /\ \A i \in DOMAIN goals : goals[i] = points[f[i]]
  BY DEF KeepOrder
<1>2. /\ DOMAIN goals = 1..(m + 1) /\ m \in Nat /\ k \in 1..(m + 1)
  OBVIOUS
<1>3. less = [i \in 1..m |-> goals[Old(i)]] BY DEF Without
<1> HIDE DEF m, less
<1>4. \A i \in 1..m : Old(i) \in 1..(m + 1) BY <1>2
<1>5. \A i, j \in 1..m : i < j => Old(i) < Old(j) BY <1>2
<1>6. less \in Seq(Spots)
  <2>1. \A i \in 1..m : goals[Old(i)] \in Spots BY <1>2, <1>4
  <2> HIDE DEF Old
  <2>. QED BY <1>2, <1>3, <2>1
<1>7. DOMAIN less = 1..m BY <1>3
<1> HIDE DEF Old
<1> DEFINE h == [i \in 1..m |-> f[Old(i)]]
<1>8. h \in [1..m -> DOMAIN points] BY <1>2, <1>4
<1>9. \A i, j \in 1..m : i < j => h[i] < h[j] BY <1>1, <1>2, <1>4, <1>5
<1>10. \A i \in 1..m : less[i] = points[h[i]] BY <1>1, <1>2, <1>3, <1>4
<1> HIDE DEF h
<1>11. KeepOrder(less, points) BY <1>7, <1>8, <1>9, <1>10 DEF KeepOrder
<1>. QED BY <1>6, <1>11 DEF less

LEMMA ListsKept == ListsOK /\ Next => ListsOK'
<1> SUFFICES ASSUME ListsOK, Next PROVE ListsOK' OBVIOUS
<1>0. /\ goalPoints \in Seq(Spots) /\ rawGoals \in Seq(Spots)
      /\ KeepOrder(rawGoals, goalPoints)
  BY DEF ListsOK, GoalsKeepOrder, KeepOrder
<1>q. ASSUME goalPoints' \in Seq(Spots), rawGoals' \in Seq(Spots),
             KeepOrder(rawGoals', goalPoints')
      PROVE  ListsOK'
  BY <1>q DEF ListsOK, GoalsKeepOrder, KeepOrder
<1>1. CASE GoalCb
  <2>1. PICK p \in Poses : /\ goalPoints' = Append(goalPoints, p)
                           /\ rawGoals' = Append(rawGoals, p)
    BY <1>1 DEF GoalCb
  <2>2. p \in Spots BY DEF Spots
  <2>. QED BY <1>0, <1>q, <2>1, <2>2, AppendKeepsOrder
<1>2. CASE RtbCb
  <2>1. PICK near \in Near, lethal \in Costmaps :
          \E way \in WaysBack(near, lethal) :
            goalPoints' = way /\ rawGoals' = way
    BY <1>2 DEF RtbCb
  <2>2. PICK way \in WaysBack(near, lethal) :
          goalPoints' = way /\ rawGoals' = way
    BY <2>1
  <2>3. way \in Seq(Spots) BY <1>0, <2>2, WaysBackType
  <2>4. KeepOrder(way, way)
    <3> DEFINE f == [i \in DOMAIN way |-> i]
    <3>1. f \in [DOMAIN way -> DOMAIN way] OBVIOUS
    <3>2. \A i \in DOMAIN way : f[i] = i OBVIOUS
    <3> HIDE DEF f
    <3>. QED BY <3>1, <3>2 DEF KeepOrder
  <2>. QED BY <1>q, <2>2, <2>3, <2>4
<1>3. ASSUME NEW g \in Goals, Feedback(g) PROVE ListsOK'
  <2>1. PICK i \in DOMAIN rawGoals : rawGoals' = Without(rawGoals, i)
    BY <1>3 DEF Feedback
  <2>2. goalPoints' = goalPoints BY <1>3 DEF Feedback
  <2>. QED BY <1>0, <1>q, <2>1, <2>2, WithoutKeepsOrder
<1>4. CASE UNCHANGED <<goalPoints, rawGoals>>
  BY <1>0, <1>4, <1>q
<1>5. CASE StartCb \/ StopCb \/ RtbNoPose \/ ServerStep
  BY <1>4, <1>5 DEF StartCb, StopCb, RtbNoPose, ServerStep
<1>6. ASSUME NEW g \in Goals, Answer(g) PROVE ListsOK'
  BY <1>4, <1>6 DEF Answer, GoalRefused, GoalAccepted, Result
<1>. QED BY <1>1, <1>2, <1>3, <1>5, <1>6 DEF Next, Operator

-----------------------------------------------------------------------------
\* What a step does to the goals: a callback keeps or cancels the current one
\* and sends another or none, or it gets an answer, or Nav2 moves.
Held == UNCHANGED <<handle, cancels>> \/ CancelCurrent

SendsNone == Held /\ UNCHANGED <<client, server, lost>>
SendsOne  == Held /\ AsyncSendGoal /\ lost' = lost

LEMMA StepKinds ==
  ASSUME Next
  PROVE  \/ SendsNone \/ SendsOne
         \/ \E g \in Goals : Answer(g)
         \/ ServerStep
<1>1. ASSUME NEW end, NEW active, NEW rtb, Start(end, active, rtb)
      PROVE  AsyncSendGoal \/ UNCHANGED <<client, server>>
  BY <1>1 DEF Start
<1>2. CASE GoalCb
  BY <1>2 DEF GoalCb, SendsNone, Held, navVars
<1>3. CASE StartCb
  <2>1. AsyncSendGoal \/ UNCHANGED <<client, server>> BY <1>1, <1>3 DEF StartCb
  <2>2. UNCHANGED <<handle, lost, cancels>> BY <1>3 DEF StartCb
  <2>. QED BY <2>1, <2>2 DEF SendsNone, SendsOne, Held
<1>4. CASE StopCb \/ RtbNoPose
  BY <1>4 DEF StopCb, RtbNoPose, SendsNone, Held
<1>5. CASE RtbCb
  <2>1. AsyncSendGoal \/ UNCHANGED <<client, server>> BY <1>1, <1>5 DEF RtbCb
  <2>2. CancelCurrent /\ lost' = lost BY <1>5 DEF RtbCb
  <2>. QED BY <2>1, <2>2 DEF SendsNone, SendsOne, Held
<1>6. ASSUME NEW g \in Goals, Feedback(g) PROVE SendsNone
  BY <1>6 DEF Feedback, SendsNone, Held, navVars
<1>. QED BY <1>2, <1>3, <1>4, <1>5, <1>6 DEF Next, Operator

\* A callback that holds or cancels the current goal asks to cancel no other.
LEMMA HeldGoals ==
  ASSUME GoalsOK, Held
  PROVE  /\ handle' \in {handle, NoGoal}
         /\ cancels' \subseteq Goals
         /\ \A g \in cancels' : g \in cancels \/ client[g] = "accepted"
         /\ \A g \in Goals : g = handle => g = handle' \/ g \in cancels'
         /\ cancels \subseteq cancels'
<1>1. cancels \subseteq Goals BY DEF GoalsOK, NavTypeOK
<1>2. CASE UNCHANGED <<handle, cancels>> BY <1>1, <1>2
<1>3. CASE CancelCurrent /\ handle = NoGoal
  <2>1. UNCHANGED <<handle, cancels>> BY <1>3 DEF CancelCurrent
  <2>. QED BY <1>1, <2>1
<1>4. CASE CancelCurrent /\ handle # NoGoal
  <2>1. cancels' = cancels \cup {handle} /\ handle' = NoGoal
    BY <1>4 DEF CancelCurrent, AsyncCancelGoal
  <2>2. handle \in Goals /\ client[handle] = "accepted"
    BY <1>4 DEF GoalsOK, Tracks, Goals
  <2>. QED BY <1>1, <2>1, <2>2
<1>. QED BY <1>2, <1>3, <1>4 DEF Held

\* What the answers change in the goals sent.
LEMMA AnswerMoves ==
  ASSUME GoalsOK, NEW g \in Goals, Answer(g)
  PROVE  /\ UNCHANGED <<server, cancels>>
         /\ \/ /\ GoalRefused(g) /\ NextResponse(g)
               /\ client' = [client EXCEPT ![g] = "refused"]
               /\ handle' = handle /\ lost' = lost
            \/ /\ GoalAccepted(g) /\ NextResponse(g)
               /\ client' = [client EXCEPT ![g] = "accepted"]
               /\ handle' = g /\ lost' = lost /\ server[g] # "refused"
            \/ /\ Result(g) /\ client[g] = "accepted"
               /\ client' = [client EXCEPT ![g] = "done"]
               /\ handle' = NoGoal
               /\ lost' = (lost \cup {handle}) \ {g, NoGoal}
BY DEF Answer, GoalRefused, GoalAccepted, Result

LEMMA GoalsKept == GoalsOK /\ Next => GoalsOK'
<1> SUFFICES ASSUME GoalsOK, Next PROVE GoalsOK' OBVIOUS
<1>0. /\ client \in Seq(ClientStates) /\ handle \in Nat
      /\ Tracks(client, handle) /\ AnsweredInOrder(client)
      /\ DOMAIN client = 1..Len(client)
  BY DEF GoalsOK, NavTypeOK
<1>1. CASE SendsNone
  <2>1. /\ client' = client /\ server' = server
        /\ handle' \in {handle, NoGoal} /\ cancels' \subseteq Goals
    BY <1>1, HeldGoals DEF SendsNone
  <2>2. NavTypeOK' BY <2>1 DEF GoalsOK, NavTypeOK, Goals
  <2>3. Tracks(client', handle') /\ handle' \in Nat
    BY <1>0, <2>1 DEF Tracks, NoGoal
  <2>. QED BY <1>0, <2>1, <2>2, <2>3 DEF GoalsOK
<1>2. CASE SendsOne
  <2>1. AsyncSendGoal /\ handle' \in {handle, NoGoal} /\ cancels' \subseteq Goals
    BY <1>2, HeldGoals DEF SendsOne
  <2>2. NavTypeOK' BY <2>1, SendKeepsNav DEF GoalsOK
  <2>3. client' = Append(client, "sent") BY <2>1 DEF AsyncSendGoal
  <2>4. Tracks(client', handle) /\ AnsweredInOrder(client')
    BY <1>0, <2>3, SendTracks
  <2>5. Tracks(client', handle') /\ handle' \in Nat
    BY <1>0, <2>1, <2>4 DEF Tracks, NoGoal
  <2>. QED BY <2>2, <2>4, <2>5 DEF GoalsOK
<1>3. ASSUME NEW g \in Goals, Answer(g) PROVE GoalsOK'
  <2>0. UNCHANGED <<server, cancels>> BY <1>3, AnswerMoves
  <2>n. ASSUME NextResponse(g)
        PROVE  /\ client[g] = "sent"
               /\ \A k \in DOMAIN client : k < g => client[k] # "sent"
    BY <2>n DEF NextResponse, Goals
  <2>1. CASE GoalRefused(g)
    <3>1. /\ client' = [client EXCEPT ![g] = "refused"] /\ handle' = handle
          /\ NextResponse(g)
      BY <2>1 DEF GoalRefused
    <3>2. NavTypeOK'
      BY <2>0, <3>1, ClientMoveKeepsNav DEF GoalsOK, ClientStates
    <3>3. Tracks(client', handle') /\ AnsweredInOrder(client')
      BY <1>0, <2>n, <3>1, AnswerTracks DEF Goals
    <3>. QED BY <1>0, <3>1, <3>2, <3>3 DEF GoalsOK
  <2>2. CASE GoalAccepted(g)
    <3>1. /\ client' = [client EXCEPT ![g] = "accepted"] /\ handle' = g
          /\ NextResponse(g)
      BY <2>2 DEF GoalAccepted
    <3>2. NavTypeOK'
      BY <2>0, <3>1, ClientMoveKeepsNav DEF GoalsOK, ClientStates
    <3>3. Tracks(client', handle') /\ AnsweredInOrder(client')
      BY <1>0, <2>n, <3>1, AnswerTracks DEF Goals
    <3>4. g \in Nat BY <1>0 DEF Goals
    <3>. QED BY <3>1, <3>2, <3>3, <3>4 DEF GoalsOK
  <2>3. CASE Result(g)
    <3>1. /\ client' = [client EXCEPT ![g] = "done"] /\ handle' = NoGoal
          /\ client[g] = "accepted"
      BY <2>3 DEF Result
    <3>2. NavTypeOK'
      BY <2>0, <3>1, ClientMoveKeepsNav DEF GoalsOK, ClientStates
    <3>3. AnsweredInOrder(client') BY <1>0, <3>1, EndKeepsOrder DEF Goals
    <3>4. Tracks(client', handle') /\ handle' \in Nat
      BY <3>1 DEF Tracks, NoGoal
    <3>. QED BY <3>2, <3>3, <3>4 DEF GoalsOK
  <2>. QED BY <1>3, <2>1, <2>2, <2>3 DEF Answer
<1>4. CASE ServerStep
  <2>1. ServerNext /\ handle' = handle BY <1>4 DEF ServerStep
  <2>2. NavTypeOK' /\ client' = client
    BY <2>1, ServerKeepsNav DEF GoalsOK
  <2>. QED BY <2>1, <2>2 DEF GoalsOK
<1>. QED BY <1>1, <1>2, <1>3, <1>4, StepKinds

-----------------------------------------------------------------------------
\* Nav2 takes the first request, or ends the goal it executes.
LEMMA ServerMoves ==
  ASSUME NavTypeOK, ServerNext
  PROVE  /\ DOMAIN server' = DOMAIN server /\ DOMAIN server = Goals
         /\ cancels' \subseteq cancels
         /\ \A k \in Goals :
              /\ server'[k] \in {"requested", "executing"} =>
                   server[k] \in {"requested", "executing"}
              /\ server'[k] = "requested" => server[k] = "requested"
              /\ k \in cancels /\ k \notin cancels' => server'[k] # "executing"
<1> PICK g \in Goals : ServerRefuses(g) \/ ServerAccepts(g)
                       \/ ServerCancels(g) \/ ServerEnds(g)
  BY DEF ServerNext
<1>0. /\ DOMAIN server = Goals /\ server \in Seq(ServerStates)
  BY DEF NavTypeOK, Goals
<1>1. CASE ServerRefuses(g) BY <1>0, <1>1 DEF ServerRefuses, FirstRequest
<1>2. CASE ServerAccepts(g) BY <1>0, <1>2 DEF ServerAccepts, FirstRequest
<1>3. CASE ServerCancels(g)
  <2>1. cancels' = cancels \ {g} BY <1>3 DEF ServerCancels
  <2>2. CASE server[g] = "executing"
    <3>1. server' = [server EXCEPT ![g] = "canceled"]
      BY <1>3, <2>2 DEF ServerCancels
    <3>. QED BY <1>0, <2>1, <3>1
  <2>3. CASE server[g] # "executing"
    <3>1. server' = server BY <1>3, <2>3 DEF ServerCancels
    <3>. QED BY <1>0, <2>1, <2>3, <3>1
  <2>. QED BY <2>2, <2>3
<1>4. CASE ServerEnds(g)
  <2>1. PICK how \in {"succeeded", "aborted"} :
          server' = [server EXCEPT ![g] = how]
    BY <1>4 DEF ServerEnds
  <2>2. cancels' = cancels BY <1>4 DEF ServerEnds
  <2>. QED BY <1>0, <2>1, <2>2
<1>. QED BY <1>1, <1>2, <1>3, <1>4

\* It goes on driving one goal, the latest it accepted.
LEMMA ServerInOrder ==
  ASSUME NavTypeOK, ServerNext, ServedInOrder
  PROVE  ServedInOrder'
<1> PICK g \in Goals : ServerRefuses(g) \/ ServerAccepts(g)
                       \/ ServerCancels(g) \/ ServerEnds(g)
  BY DEF ServerNext
<1>0. /\ DOMAIN server = Goals /\ server \in Seq(ServerStates)
      /\ Goals = 1..Len(client) /\ Len(client) \in Nat
      /\ Goals' = Goals
  BY DEF NavTypeOK, Goals, ServerNext
<1>a. \A k, h \in Goals :
        h < k => /\ server[h] = "requested" => server[k] = "requested"
                 /\ server[k] \in {"executing"} \cup Ended =>
                      server[h] # "executing"
  BY DEF ServedInOrder
<1> USE DEF Ended
<1>1. CASE ServerRefuses(g)
  <2>1. /\ server' = [server EXCEPT ![g] = "refused"]
        /\ \A h \in Goals : h < g => server[h] # "requested"
    BY <1>1 DEF ServerRefuses, FirstRequest
  <2>. QED BY <1>0, <1>a, <2>1 DEF ServedInOrder
<1>2. CASE ServerAccepts(g)
  <2>1. /\ server[g] = "requested"
        /\ \A h \in Goals : h < g => server[h] # "requested"
        /\ server' = [h \in Goals |->
                        IF h = g THEN "executing"
                        ELSE IF server[h] = "executing" THEN "aborted"
                        ELSE server[h]]
    BY <1>2 DEF ServerAccepts, FirstRequest
  <2>2. \A h \in Goals : /\ h < g => server'[h] \notin {"requested", "executing"}
                         /\ h > g => server'[h] = "requested"
    <3> SUFFICES ASSUME NEW h \in Goals
                 PROVE  /\ h < g => server'[h] \notin {"requested", "executing"}
                        /\ h > g => server'[h] = "requested"
      OBVIOUS
    <3>1. CASE h < g BY <1>0, <2>1, <3>1
    <3>2. CASE h > g
      <4>1. server[h] = "requested" BY <1>0, <1>a, <2>1, <3>2
      <4>. QED BY <1>0, <2>1, <3>2, <4>1
    <3>. QED BY <3>1, <3>2
  <2>3. server'[g] = "executing" BY <2>1
  <2> SUFFICES ASSUME NEW k \in Goals, NEW h \in Goals, h < k
               PROVE  /\ server'[h] = "requested" => server'[k] = "requested"
                      /\ server'[k] \in {"executing"} \cup Ended =>
                           server'[h] # "executing"
    BY <1>0 DEF ServedInOrder
  <2>. QED BY <1>0, <2>2, <2>3
<1>3. CASE ServerCancels(g)
  <2>1. CASE server[g] = "executing"
    <3>1. server' = [server EXCEPT ![g] = "canceled"]
      BY <1>3, <2>1 DEF ServerCancels
    <3>. QED BY <1>0, <1>a, <2>1, <3>1 DEF ServedInOrder
  <2>2. CASE server[g] # "executing"
    <3>1. server' = server BY <1>3, <2>2 DEF ServerCancels
    <3>. QED BY <1>0, <1>a, <3>1 DEF ServedInOrder
  <2>. QED BY <2>1, <2>2
<1>4. CASE ServerEnds(g)
  <2>1. PICK how \in {"succeeded", "aborted"} :
          server' = [server EXCEPT ![g] = how]
    BY <1>4 DEF ServerEnds
  <2>2. server[g] = "executing" BY <1>4 DEF ServerEnds
  <2>. QED BY <1>0, <1>a, <2>1, <2>2 DEF ServedInOrder
<1>. QED BY <1>1, <1>2, <1>3, <1>4

\* A goal that is sent is requested last and answered by nobody.
LEMMA SendServed ==
  ASSUME GoalsOK, ServedOK, SendsOne
  PROVE  ServedOK'
<1>0. /\ client \in Seq(ClientStates) /\ server \in Seq(ServerStates)
      /\ Len(server) = Len(client) /\ cancels \subseteq Goals
      /\ Goals = 1..Len(client) /\ Len(client) \in Nat
  BY DEF GoalsOK, NavTypeOK, Goals
<1>1. /\ client' = Append(client, "sent") /\ server' = Append(server, "requested")
      /\ lost' = lost
  BY DEF SendsOne, AsyncSendGoal
<1> DEFINE n == Len(client) + 1
<1>2. /\ Goals' = 1..n /\ client'[n] = "sent" /\ server'[n] = "requested"
      /\ \A k \in Goals : client'[k] = client[k] /\ server'[k] = server[k]
  BY <1>0, <1>1 DEF Goals
<1>3. /\ \A g \in cancels' : g \in cancels \/ client[g] = "accepted"
      /\ \A g \in Goals : g = handle => g = handle' \/ g \in cancels'
      /\ cancels \subseteq cancels' /\ cancels' \subseteq Goals
  BY HeldGoals DEF SendsOne
<1>4. \A k \in 1..n : k \in Goals \/ k = n BY <1>0
<1>5. \A k \in Goals : k < n /\ k \in 1..n BY <1>0
<1> HIDE DEF n
<1>6. ServedInOrder'
  <2> SUFFICES ASSUME NEW g \in Goals', NEW h \in Goals', h < g
               PROVE  /\ server'[h] = "requested" => server'[g] = "requested"
                      /\ server'[g] \in {"executing"} \cup Ended =>
                           server'[h] # "executing"
    BY DEF ServedInOrder
  <2>1. CASE g = n BY <1>2, <2>1 DEF Ended
  <2>2. CASE g \in Goals
    <3>1. h \in Goals BY <1>0, <1>2, <1>4, <1>5, <2>2
    <3>. QED BY <1>2, <2>2, <3>1 DEF ServedOK, ServedInOrder
  <2>. QED BY <1>2, <1>4, <2>1, <2>2
<1>7. AnswersAreServed'
  <2>1. \A g \in Goals' : client'[g] # "sent" => server'[g] # "requested"
    BY <1>2, <1>4 DEF ServedOK, AnswersAreServed
  <2>2. \A g \in cancels' : client'[g] # "sent"
    BY <1>2, <1>3 DEF ServedOK, AnswersAreServed
  <2>. QED BY <2>1, <2>2 DEF AnswersAreServed
<1>8. lost' \subseteq Goals' BY <1>1, <1>2, <1>5 DEF ServedOK
<1>9. MissionsAreTracked'
  <2> SUFFICES ASSUME NEW g \in Goals', Stray(g)'
               PROVE  g = handle' \/ client'[g] = "sent" \/ g \in lost'
    BY DEF MissionsAreTracked
  <2>1. CASE g = n BY <1>2, <2>1
  <2>2. CASE g \in Goals
    <3>1. Stray(g) BY <1>2, <1>3, <2>2 DEF Stray, Outstanding
    <3>2. g \notin cancels' BY DEF Stray
    <3>. QED BY <1>1, <1>2, <1>3, <2>2, <3>1, <3>2
             DEF ServedOK, MissionsAreTracked
  <2>. QED BY <1>2, <1>4, <2>1, <2>2
<1>. QED BY <1>6, <1>7, <1>8, <1>9 DEF ServedOK
\* An accepted goal has replaced the one whose handle was kept; a result drops
\* the handle, and notes whose.
LEMMA AnswerServed ==
  ASSUME GoalsOK, ServedOK, NEW g \in Goals, Answer(g)
  PROVE  ServedOK'
<1>0. /\ client \in Seq(ClientStates) /\ server \in Seq(ServerStates)
      /\ DOMAIN server = Goals /\ cancels \subseteq Goals
      /\ Goals = 1..Len(client) /\ Len(client) \in Nat
      /\ Tracks(client, handle) /\ AnsweredInOrder(client)
  BY DEF GoalsOK, NavTypeOK, Goals
<1>1. UNCHANGED <<server, cancels>> BY AnswerMoves
<1>s. /\ ServedInOrder /\ AnswersAreServed /\ lost \subseteq Goals
      /\ MissionsAreTracked
  BY DEF ServedOK
<1>2. \E s \in {"refused", "accepted", "done"} :
        client' = [client EXCEPT ![g] = s]
  BY AnswerMoves
<1>3. /\ Goals' = Goals
      /\ client'[g] # "sent"
      /\ \A k \in Goals : k # g => client'[k] = client[k]
  BY <1>0, <1>2 DEF Goals
<1>4. server[g] # "requested"
  <2>1. CASE client[g] = "accepted" BY <1>s, <2>1 DEF AnswersAreServed
  <2>2. CASE NextResponse(g) BY <2>2 DEF NextResponse
  <2>. QED BY <2>1, <2>2, AnswerMoves
<1>5. ServedInOrder' BY <1>1, <1>3, <1>s DEF ServedInOrder
<1>6. AnswersAreServed' BY <1>0, <1>1, <1>3, <1>4, <1>s DEF AnswersAreServed
<1>7. lost' \subseteq Goals'
  <2>1. handle \in Goals \/ handle = NoGoal BY <1>0 DEF Tracks, Goals
  <2>. QED BY <1>3, <1>s, <2>1, AnswerMoves
<1>8. MissionsAreTracked'
  <2> SUFFICES ASSUME NEW k \in Goals, Stray(k)'
               PROVE  k = handle' \/ client'[k] = "sent" \/ k \in lost'
    BY <1>3 DEF MissionsAreTracked
  <2>1. /\ client'[k] \in {"sent", "accepted"}
        /\ server[k] \in {"requested", "executing"} /\ k \notin cancels
    BY <1>1 DEF Stray, Outstanding
  <2>2. k # g => k = handle \/ client'[k] = "sent" \/ k \in lost
    BY <1>3, <1>s, <2>1 DEF MissionsAreTracked, Stray, Outstanding
  <2>3. CASE GoalRefused(g)
    <3>1. client' = [client EXCEPT ![g] = "refused"] /\ handle' = handle
          /\ lost' = lost
      BY <2>3 DEF GoalRefused
    <3>2. k # g BY <1>0, <2>1, <3>1
    <3>. QED BY <2>2, <3>1, <3>2
  <2>4. CASE GoalAccepted(g)
    <3>1. /\ handle' = g /\ lost' = lost /\ client[g] = "sent"
          /\ server[g] # "refused"
      BY <2>4 DEF GoalAccepted, NextResponse
    <3>2. ASSUME k # g, k = handle PROVE FALSE
      <4>1. client[k] = "accepted" /\ k \in DOMAIN client
        BY <1>0, <3>2 DEF Tracks, Goals, NoGoal
      <4>2. k < g
        BY <1>0, <3>1, <3>2, <4>1 DEF AnsweredInOrder, Goals
      <4>3. server[g] \in {"executing"} \cup Ended
        BY <1>0, <1>4, <3>1 DEF ServerStates, Ended
      <4>4. server[k] # "executing" BY <1>s, <4>2, <4>3 DEF ServedInOrder
      <4>5. server[k] # "requested" BY <1>s, <4>1 DEF AnswersAreServed
      <4>. QED BY <2>1, <4>4, <4>5
    <3>. QED BY <2>2, <3>1, <3>2
  <2>5. CASE Result(g)
    <3>1. /\ client' = [client EXCEPT ![g] = "done"]
          /\ lost' = (lost \cup {handle}) \ {g, NoGoal}
      BY <2>5 DEF Result
    <3>2. k # g BY <1>0, <2>1, <3>1
    <3>3. k # NoGoal BY <1>0 DEF NoGoal
    <3>. QED BY <2>2, <3>1, <3>2, <3>3
  <2>. QED BY <2>3, <2>4, <2>5 DEF Answer
<1>. QED BY <1>5, <1>6, <1>7, <1>8 DEF ServedOK

LEMMA ServedKept == GoalsOK /\ ServedOK /\ Next => ServedOK'
<1> SUFFICES ASSUME GoalsOK, ServedOK, Next PROVE ServedOK' OBVIOUS
<1>s. /\ ServedInOrder /\ AnswersAreServed /\ lost \subseteq Goals
      /\ MissionsAreTracked
  BY DEF ServedOK
<1>1. CASE SendsNone
  <2>1. UNCHANGED <<client, server, lost>> /\ Goals' = Goals
    BY <1>1 DEF SendsNone, Goals
  <2>2. /\ \A g \in cancels' : g \in cancels \/ client[g] = "accepted"
        /\ \A g \in Goals : g = handle => g = handle' \/ g \in cancels'
        /\ cancels \subseteq cancels'
    BY <1>1, HeldGoals DEF SendsNone
  <2>3. ServedInOrder' BY <1>s, <2>1 DEF ServedInOrder
  <2>4. AnswersAreServed' BY <1>s, <2>1, <2>2 DEF AnswersAreServed
  <2>5. MissionsAreTracked'
    BY <1>s, <2>1, <2>2 DEF MissionsAreTracked, Stray, Outstanding
  <2>. QED BY <1>s, <2>1, <2>3, <2>4, <2>5 DEF ServedOK
<1>2. CASE SendsOne BY <1>2, SendServed
<1>3. ASSUME NEW g \in Goals, Answer(g) PROVE ServedOK'
  BY <1>3, AnswerServed
<1>4. CASE ServerStep
  <2>1. ServerNext /\ UNCHANGED <<client, handle, lost>>
    BY <1>4 DEF ServerStep, ServerNext
  <2>2. NavTypeOK BY DEF GoalsOK
  <2>3. Goals' = Goals BY <2>1 DEF Goals
  <2>4. ServedInOrder' BY <1>s, <2>1, <2>2, ServerInOrder
  <2>5. AnswersAreServed'
    BY <1>s, <2>1, <2>2, <2>3, ServerMoves DEF AnswersAreServed
  <2>6. MissionsAreTracked'
    <3> SUFFICES ASSUME NEW k \in Goals, Stray(k)'
                 PROVE  k = handle \/ client[k] = "sent" \/ k \in lost
      BY <2>1, <2>3 DEF MissionsAreTracked
    <3>1. /\ Outstanding(k) /\ k \notin cancels'
          /\ server'[k] \in {"requested", "executing"}
      BY <2>1, <2>3 DEF Stray, Outstanding
    <3>2. server[k] \in {"requested", "executing"}
      BY <2>1, <2>2, <3>1, ServerMoves
    <3>3. CASE k \notin cancels
      BY <1>s, <3>1, <3>2, <3>3 DEF Stray, MissionsAreTracked
    <3>4. CASE k \in cancels
      <4>1. server'[k] = "requested" BY <2>1, <2>2, <3>1, <3>4, ServerMoves
      <4>2. server[k] = "requested" BY <2>1, <2>2, <4>1, ServerMoves
      <4>. QED BY <1>s, <3>4, <4>2 DEF AnswersAreServed
    <3>. QED BY <3>3, <3>4
  <2>. QED BY <1>s, <2>1, <2>3, <2>4, <2>5, <2>6 DEF ServedOK
<1>. QED BY <1>1, <1>2, <1>3, <1>4, StepKinds

-----------------------------------------------------------------------------
\* The flags.

LEMMA StartFlags ==
  ASSUME GoalsOK, FlagsOK, NEW end,
         NEW active \in {missionActive, FALSE}, NEW rtb \in BOOLEAN,
         Start(end, active, rtb)
  PROVE  /\ missionActive' \in BOOLEAN /\ rtbMode' \in BOOLEAN
         /\ unsent' \in BOOLEAN
         /\ ActiveMeansOut'
<1>1. /\ rtbMode' = (end # "empty" /\ rtb)
      /\ missionActive' = (end \in {"sent", "unsent"} \/ active)
      /\ unsent' = (end = "unsent" \/ (end # "sent" /\ unsent))
  BY DEF Start
<1>2. missionActive \in BOOLEAN /\ unsent \in BOOLEAN /\ ActiveMeansOut
  BY DEF FlagsOK
<1>3. missionActive' \in BOOLEAN /\ rtbMode' \in BOOLEAN /\ unsent' \in BOOLEAN
  BY <1>1
<1>4. CASE end = "sent"
  <2>1. client' = Append(client, "sent") /\ client \in Seq(ClientStates)
    BY <1>4 DEF Start, AsyncSendGoal, GoalsOK, NavTypeOK
  <2>2. Outstanding(Newest)' BY <2>1 DEF Outstanding, Newest, Goals
  <2>. QED BY <1>3, <2>2 DEF ActiveMeansOut
<1>5. CASE end = "unsent"
  <2>1. unsent' = TRUE BY <1>1, <1>5
  <2>. QED BY <1>3, <2>1 DEF ActiveMeansOut
<1>6. CASE end \notin {"sent", "unsent"}
  <2>1. client' = client BY <1>6 DEF Start
  <2>2. unsent' <=> unsent BY <1>1, <1>2, <1>6
  <2>3. missionActive' => missionActive BY <1>1, <1>2, <1>6
  <2>. QED BY <1>2, <1>3, <2>1, <2>2, <2>3
           DEF ActiveMeansOut, Outstanding, Newest, Goals
<1>. QED BY <1>4, <1>5, <1>6

LEMMA FlagsKept == GoalsOK /\ FlagsOK /\ Next => FlagsOK'
<1> SUFFICES ASSUME GoalsOK, FlagsOK, Next PROVE FlagsOK' OBVIOUS
<1>0. /\ missionActive \in BOOLEAN /\ rtbMode \in BOOLEAN /\ unsent \in BOOLEAN
      /\ cmds \in 0..MaxCommands
      /\ ActiveMeansOut
  BY DEF FlagsOK
<1>c. Command => cmds' \in 0..MaxCommands
  BY <1>0, StandaloneAssumption DEF Command
<1>u. ASSUME UNCHANGED <<missionVars, client>>, cmds' \in 0..MaxCommands
      PROVE  FlagsOK'
  BY <1>0, <1>u DEF FlagsOK, missionVars, ActiveMeansOut, Outstanding, Newest,
     Goals
<1>i. ASSUME missionActive' = FALSE, rtbMode' \in BOOLEAN, unsent' = unsent,
             cmds' \in 0..MaxCommands
      PROVE  FlagsOK'
  BY <1>0, <1>i DEF FlagsOK, ActiveMeansOut
<1>1. CASE GoalCb
  BY <1>0, <1>1, <1>u DEF GoalCb, navVars
<1>2. CASE StartCb
  <2>1. Command BY <1>2 DEF StartCb
  <2>2. PICK end : Start(end, missionActive, rtbMode) BY <1>2 DEF StartCb
  <2>. QED BY <1>0, <1>c, <2>1, <2>2, StartFlags DEF FlagsOK
<1>3. CASE StopCb
  BY <1>3, <1>c, <1>i DEF StopCb
<1>4. CASE RtbNoPose
  BY <1>4, <1>c, <1>u DEF RtbNoPose
<1>5. CASE RtbCb
  <2>1. Command BY <1>5 DEF RtbCb
  <2>2. PICK end : Start(end, FALSE, TRUE) BY <1>5 DEF RtbCb
  <2>. QED BY <1>c, <2>1, <2>2, StartFlags DEF FlagsOK
<1>6. ASSUME NEW g \in Goals, Feedback(g) PROVE FlagsOK'
  BY <1>0, <1>6, <1>u DEF Feedback, navVars
<1>7. ASSUME NEW g \in Goals, Answer(g) PROVE FlagsOK'
  <2>1. CASE GoalRefused(g)
    <3>1. /\ missionActive' = FALSE /\ rtbMode' = rtbMode /\ unsent' = unsent
          /\ cmds' = cmds
      BY <2>1 DEF GoalRefused
    <3>2. rtbMode' \in BOOLEAN BY <1>0, <3>1
    <3>. QED BY <1>0, <1>i, <3>1, <3>2
  <2>2. CASE GoalAccepted(g)
    <3>1. /\ UNCHANGED missionVars /\ cmds' = cmds
          /\ client' = [client EXCEPT ![g] = "accepted"]
      BY <2>2 DEF GoalAccepted
    <3>2. client \in Seq(ClientStates) BY DEF GoalsOK, NavTypeOK
    <3>3. Newest' = Newest /\ Goals' = Goals
      BY <3>1, <3>2 DEF Newest, Goals
    <3>4. Outstanding(Newest) => Outstanding(Newest)'
      BY <3>1, <3>2, <3>3 DEF Outstanding, Goals
    <3>. QED BY <1>0, <3>1, <3>4 DEF FlagsOK, missionVars, ActiveMeansOut
  <2>3. CASE Result(g)
    BY <1>0, <1>i, <2>3 DEF Result
  <2>. QED BY <1>7, <2>1, <2>2, <2>3 DEF Answer
<1>8. CASE ServerStep
  <2>1. UNCHANGED <<missionVars, client>> /\ cmds' = cmds
    BY <1>8 DEF ServerStep, ServerNext
  <2>. QED BY <1>0, <1>u, <2>1
<1>. QED BY <1>1, <1>2, <1>3, <1>4, <1>5, <1>6, <1>7, <1>8 DEF Next, Operator

-----------------------------------------------------------------------------
\* The invariant is inductive, for any poses, costmaps and bounds.
LEMMA InitInv == Init => StandaloneInv
<1> SUFFICES ASSUME Init PROVE StandaloneInv OBVIOUS
<1>1. ListsOK
  <2>1. goalPoints = <<>> /\ rawGoals = <<>> BY DEF Init
  <2>2. KeepOrder(<<>>, <<>>)
    <3> DEFINE f == [i \in {} |-> i]
    <3>1. f \in [DOMAIN <<>> -> DOMAIN <<>>] /\ DOMAIN <<>> = {} OBVIOUS
    <3>. QED BY <3>1 DEF KeepOrder
  <2>3. KeepOrder(rawGoals, goalPoints) BY <2>1, <2>2
  <2>4. GoalsKeepOrder BY <2>3 DEF GoalsKeepOrder, KeepOrder
  <2>5. goalPoints \in Seq(Spots) /\ rawGoals \in Seq(Spots) BY <2>1
  <2>. QED BY <2>4, <2>5 DEF ListsOK
<1>2. client = <<>> /\ server = <<>> /\ cancels = {} /\ handle = NoGoal
  BY DEF Init, NavInit
<1>3. GoalsOK
  BY <1>2 DEF GoalsOK, NavTypeOK, Goals, Tracks, AnsweredInOrder, NoGoal
<1>4. FlagsOK
  <2>1. missionActive = FALSE /\ rtbMode = FALSE /\ unsent = FALSE /\ cmds = 0
    BY DEF Init
  <2>2. ActiveMeansOut BY <2>1 DEF ActiveMeansOut
  <2>3. cmds \in 0..MaxCommands BY <2>1, StandaloneAssumption
  <2>4. missionActive \in BOOLEAN /\ rtbMode \in BOOLEAN /\ unsent \in BOOLEAN
    BY <2>1
  <2>. QED BY <2>2, <2>3, <2>4 DEF FlagsOK
<1>5. ServedOK
  <2>1. lost = {} BY DEF Init
  <2>2. Goals = {} BY <1>2 DEF Goals
  <2>. QED BY <1>2, <2>1, <2>2 DEF ServedOK, ServedInOrder, AnswersAreServed,
                                  MissionsAreTracked
<1>. QED BY <1>1, <1>3, <1>4, <1>5 DEF StandaloneInv

LEMMA StepInv == StandaloneInv /\ [Next]_vars => StandaloneInv'
<1> SUFFICES ASSUME StandaloneInv, [Next]_vars PROVE StandaloneInv' OBVIOUS
<1>1. CASE Next
  BY <1>1, ListsKept, GoalsKept, FlagsKept, ServedKept DEF StandaloneInv
<1>2. CASE UNCHANGED vars
  <2>1. ListsOK' BY <1>2 DEF vars, StandaloneInv, ListsOK, GoalsKeepOrder
  <2>2. GoalsOK'
    BY <1>2 DEF vars, navVars, StandaloneInv, GoalsOK, NavTypeOK, Goals
  <2>3. FlagsOK' BY <1>2 DEF vars, navVars, missionVars, StandaloneInv, FlagsOK,
                       ActiveMeansOut, Outstanding, Newest, Goals
  <2>4. ServedOK'
    BY <1>2 DEF vars, navVars, StandaloneInv, ServedOK, ServedInOrder,
       AnswersAreServed, MissionsAreTracked, Stray, Outstanding, Goals
  <2>. QED BY <2>1, <2>2, <2>3, <2>4 DEF StandaloneInv
<1>. QED BY <1>1, <1>2

LEMMA InvHolds == Spec => []StandaloneInv
<1>. QED BY InitInv, StepInv, PTL DEF Spec

\* Every variable of the stand-alone manager keeps its type.
THEOREM StandaloneTypes == Spec => []TypeOK
<1>1. StandaloneInv => TypeOK
  BY DEF StandaloneInv, ListsOK, GoalsOK, FlagsOK, ServedOK, TypeOK
<1>. QED BY <1>1, InvHolds, PTL

\* The goals still to reach stay in the order the operator, or the return,
\* gave them, however many there are and whichever feedback takes them out.
THEOREM GoalsStayInOrder == Spec => []GoalsKeepOrder
<1>1. StandaloneInv => GoalsKeepOrder BY DEF StandaloneInv, ListsOK
<1>. QED BY <1>1, InvHolds, PTL

\* A cancel request names a goal the client library knows, and the newest.
THEOREM HandleStaysRight == Spec => []HandleIsRight
<1>1. StandaloneInv => HandleIsRight
  BY DEF StandaloneInv, GoalsOK, Tracks, HandleIsRight, Live, Goals
<1>. QED BY <1>1, InvHolds, PTL

\* mission_active_ is right but for a mission no action server took.
THEOREM ActiveIsOut == Spec => []ActiveMeansOut
<1>1. StandaloneInv => ActiveMeansOut BY DEF StandaloneInv, FlagsOK
<1>. QED BY <1>1, InvHolds, PTL

\* Only the late result of a mission that was replaced makes the manager lose
\* the handle of one that runs.
THEOREM Tracked == Spec => []MissionsAreTracked
<1>1. StandaloneInv => MissionsAreTracked BY DEF StandaloneInv, ServedOK
<1>. QED BY <1>1, InvHolds, PTL
=============================================================================
