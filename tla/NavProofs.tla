----------------------------- MODULE NavProofs -----------------------------
(***************************************************************************)
(* Lemmas about NavAction that the proofs of the waypoint managers share:  *)
(* what sending, answering and ending a goal does to the types, and to     *)
(* the handle h a manager keeps of the goals it has sent (c is client); and *)
(* what kind of thing a way back is.                                       *)
(***************************************************************************)
EXTENDS NavAction, ReturnPaths, FiniteSetTheorems, TLAPS

\* Sending a goal adds one at the end, for the client and for the server.
LEMMA SendKeepsNav ==
  ASSUME NavTypeOK, AsyncSendGoal, cancels' \subseteq Goals
  PROVE  /\ NavTypeOK'
         /\ Goals \subseteq Goals'
<1> USE DEF NavTypeOK, AsyncSendGoal, Goals, ClientStates, ServerStates
<1>1. /\ client' \in Seq(ClientStates)
      /\ Len(client') = Len(client) + 1
      /\ DOMAIN client' = 1..(Len(client) + 1)
      /\ DOMAIN client = 1..Len(client)
  OBVIOUS
<1>2. /\ server' \in Seq(ServerStates)
      /\ Len(server') = Len(server) + 1
  OBVIOUS
<1>. QED BY <1>1, <1>2

\* A change of one goal's client state keeps the types.
LEMMA ClientMoveKeepsNav ==
  ASSUME NavTypeOK, NEW g \in Goals, NEW s \in ClientStates,
         client' = [client EXCEPT ![g] = s], UNCHANGED <<server, cancels>>
  PROVE  /\ NavTypeOK'
         /\ Goals' = Goals
<1> USE DEF NavTypeOK, Goals
<1>1. /\ client' \in Seq(ClientStates)
      /\ Len(client') = Len(client)
      /\ DOMAIN client' = DOMAIN client
  OBVIOUS
<1>. QED BY <1>1

\* The server changes its own states and takes cancel requests.
LEMMA ServerKeepsNav ==
  ASSUME NavTypeOK, ServerNext
  PROVE  /\ NavTypeOK'
         /\ client' = client
<1> USE DEF NavTypeOK, Goals
<1>0. client' = client BY DEF ServerNext
<1> PICK g \in Goals : ServerRefuses(g) \/ ServerAccepts(g)
                       \/ ServerCancels(g) \/ ServerEnds(g)
  BY DEF ServerNext
<1>1. /\ server \in Seq(ServerStates) /\ Len(server) = Len(client)
      /\ DOMAIN server = DOMAIN client /\ DOMAIN client = 1..Len(client)
      /\ Len(client) \in Nat
  OBVIOUS
<1>2. /\ server' \in Seq(ServerStates) /\ Len(server') = Len(server)
      /\ cancels' \subseteq cancels
  <2>1. CASE ServerRefuses(g)
    BY <1>1, <2>1 DEF ServerRefuses, ServerStates
  <2>2. CASE ServerAccepts(g)
    <3>1. \A h \in 1..Len(client) : server[h] \in ServerStates BY <1>1
    <3>2. server' = [h \in 1..Len(client) |->
                      IF h = g THEN "executing"
                      ELSE IF server[h] = "executing" THEN "aborted"
                      ELSE server[h]]
          /\ cancels' = cancels
      BY <1>1, <2>2 DEF ServerAccepts
    <3>3. server' \in [1..Len(client) -> ServerStates]
      BY <3>1, <3>2 DEF ServerStates
    <3>. QED BY <1>1, <3>2, <3>3
  <2>3. CASE ServerCancels(g)
    <3>1. cancels' \subseteq cancels BY <2>3 DEF ServerCancels
    <3>2. CASE server[g] = "executing"
      <4>1. server' = [server EXCEPT ![g] = "canceled"]
        BY <2>3, <3>2 DEF ServerCancels
      <4>. QED BY <1>1, <3>1, <4>1 DEF ServerStates
    <3>3. CASE server[g] # "executing"
      BY <1>1, <2>3, <3>1, <3>3 DEF ServerCancels
    <3>. QED BY <3>2, <3>3
  <2>4. CASE ServerEnds(g)
    <3>1. PICK how \in {"succeeded", "aborted"} :
            server' = [server EXCEPT ![g] = how]
      BY <2>4 DEF ServerEnds
    <3>2. how \in ServerStates BY DEF ServerStates
    <3>3. cancels' = cancels BY <2>4 DEF ServerEnds
    <3>. QED BY <1>1, <3>1, <3>2, <3>3
  <2>. QED BY <2>1, <2>2, <2>3, <2>4
<1>. QED BY <1>0, <1>2

-----------------------------------------------------------------------------
\* The handle h can be cancelled, and every later goal is unanswered or
\* refused.
Tracks(c, h) ==
  h # NoGoal =>
    /\ h \in DOMAIN c
    /\ c[h] = "accepted"
    /\ \A g \in DOMAIN c : g > h => c[g] \in {"sent", "refused"}

\* The answers have come for the goals sent first, and for no others.
AnsweredInOrder(c) ==
  \A g, h \in DOMAIN c : g < h /\ c[g] = "sent" => c[h] = "sent"

\* A new goal is later than the tracked one and unanswered.
LEMMA SendTracks ==
  ASSUME NEW c \in Seq(ClientStates), NEW h, Tracks(c, h), AnsweredInOrder(c)
  PROVE  /\ Tracks(Append(c, "sent"), h)
         /\ AnsweredInOrder(Append(c, "sent"))
<1> DEFINE d == Append(c, "sent")
<1>1. /\ DOMAIN d = 1..(Len(c) + 1) /\ DOMAIN c = 1..Len(c)
      /\ d[Len(c) + 1] = "sent"
      /\ \A g \in DOMAIN c : d[g] = c[g]
      /\ Len(c) \in Nat
  OBVIOUS
<1> HIDE DEF d
<1>2. Tracks(d, h) BY <1>1 DEF Tracks
<1>3. AnsweredInOrder(d) BY <1>1 DEF AnsweredInOrder
<1>. QED BY <1>2, <1>3 DEF d

\* The answer to the first unanswered goal: accepted, it is the tracked one.
LEMMA AnswerTracks ==
  ASSUME NEW c \in Seq(ClientStates), NEW h \in Nat,
         Tracks(c, h), AnsweredInOrder(c),
         NEW g \in DOMAIN c, c[g] = "sent",
         \A k \in DOMAIN c : k < g => c[k] # "sent"
  PROVE  /\ Tracks([c EXCEPT ![g] = "refused"], h)
         /\ Tracks([c EXCEPT ![g] = "accepted"], g)
         /\ AnsweredInOrder([c EXCEPT ![g] = "refused"])
         /\ AnsweredInOrder([c EXCEPT ![g] = "accepted"])
<1>1. DOMAIN c = 1..Len(c) OBVIOUS
<1>2. \A k \in DOMAIN c : k > g => c[k] = "sent"
  BY <1>1 DEF AnsweredInOrder
<1>3. Tracks([c EXCEPT ![g] = "refused"], h) BY <1>1 DEF Tracks
<1>4. Tracks([c EXCEPT ![g] = "accepted"], g) BY <1>1, <1>2 DEF Tracks
<1>5. AnsweredInOrder([c EXCEPT ![g] = "refused"])
  BY <1>1 DEF AnsweredInOrder
<1>6. AnsweredInOrder([c EXCEPT ![g] = "accepted"])
  BY <1>1 DEF AnsweredInOrder
<1>. QED BY <1>3, <1>4, <1>5, <1>6

\* The end of an accepted goal does not disturb the order of the answers.
LEMMA EndKeepsOrder ==
  ASSUME NEW c \in Seq(ClientStates), AnsweredInOrder(c),
         NEW g \in DOMAIN c, c[g] = "accepted"
  PROVE  AnsweredInOrder([c EXCEPT ![g] = "done"])
BY DEF AnsweredInOrder

-----------------------------------------------------------------------------
\* A way back through some of the goals is a sequence of what they are.
LEMMA ReturnPathType ==
  ASSUME NEW S, NEW goals \in Seq(S), NEW K \in SUBSET DOMAIN goals,
         NEW back \in ReturnPath(goals, K)
  PROVE  back \in Seq(S)
<1>1. K \subseteq 1..Len(goals) OBVIOUS
<1>2. IsFiniteSet(K)
  <2>1. IsFiniteSet(1..Len(goals)) BY FS_Interval
  <2>. QED BY <1>1, <2>1, FS_Subset
<1>3. Cardinality(K) \in Nat BY <1>2, FS_CardinalityType
<1>4. PICK e \in Backwards(K) : back = [i \in DOMAIN e |-> goals[e[i]]]
  BY DEF ReturnPath
<1>5. e \in [1..Cardinality(K) -> K] BY <1>4 DEF Backwards
<1>6. \A i \in 1..Cardinality(K) : goals[e[i]] \in S
  <2> TAKE i \in 1..Cardinality(K)
  <2>1. e[i] \in 1..Len(goals) BY <1>1, <1>5
  <2>. QED BY <2>1
<1>. QED BY <1>3, <1>4, <1>5, <1>6

\* A way back visits goals from the last to the first.
LEMMA ReturnPathReverses ==
  ASSUME NEW goals, NEW K \in SUBSET DOMAIN goals,
         NEW back \in ReturnPath(goals, K)
  PROVE  \E f \in [DOMAIN back -> DOMAIN goals] :
           /\ \A i, j \in DOMAIN back : i < j => f[i] > f[j]
           /\ \A i \in DOMAIN back : back[i] = goals[f[i]]
<1>1. PICK e \in Backwards(K) : back = [i \in DOMAIN e |-> goals[e[i]]]
  BY DEF ReturnPath
<1>2. /\ e \in [1..Cardinality(K) -> K]
      /\ \A i, j \in 1..Cardinality(K) : i < j => e[i] > e[j]
  BY <1>1 DEF Backwards
<1>3. DOMAIN back = 1..Cardinality(K) BY <1>1, <1>2
<1>4. e \in [DOMAIN back -> DOMAIN goals] BY <1>2, <1>3
<1>5. \A i \in DOMAIN back : back[i] = goals[e[i]] BY <1>1
<1>. QED BY <1>2, <1>3, <1>4, <1>5
=============================================================================
