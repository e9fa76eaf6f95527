----------------------------- MODULE NavAction -----------------------------
(***************************************************************************)
(* The navigate_through_poses action, seen from the waypoint manager of    *)
(* telemetry_handler_wp_manager.cpp.  The client library and the Nav2      *)
(* server are not part of the repository; they are modelled from the way   *)
(* the manager uses them (sendPathToNav2).                                 *)
(*                                                                         *)
(* Goals are numbered in the order in which they are sent.  client[g] says *)
(* how far the manager's callbacks got with goal g: "sent" until the goal  *)
(* response callback ran, then "accepted" until the result callback ran    *)
(* ("done"), or "refused" for good.  server[g] says what Nav2 did with it. *)
(* A cancel request is an element of cancels until the server sees it.     *)
(***************************************************************************)
EXTENDS Naturals, Sequences

VARIABLES client, server, cancels

navVars == <<client, server, cancels>>

NoGoal == 0     \* a null goal handle

Goals  == DOMAIN client
Newest == Len(client)

ClientStates == {"sent", "accepted", "refused", "done"}
ServerStates == {"requested", "refused", "executing",
                 "succeeded", "aborted", "canceled"}
Ended        == {"succeeded", "aborted", "canceled"}

NavTypeOK ==
  /\ client \in Seq(ClientStates)
  /\ server \in Seq(ServerStates)
  /\ Len(server) = Len(client)
  /\ cancels \subseteq Goals

NavInit == client = <<>> /\ server = <<>> /\ cancels = {}

\* Goals whose handle the client library still knows: async_cancel_goal
\* throws for any other handle.
Live(g) == g \in Goals /\ client[g] = "accepted"

\* Goals some callback is still to come for.
Outstanding(g) == g \in Goals /\ client[g] \in {"sent", "accepted"}

-----------------------------------------------------------------------------
\* Client calls, used inside the manager's callbacks.

AsyncSendGoal ==
  /\ client' = Append(client, "sent")
  /\ server' = Append(server, "requested")

AsyncCancelGoal(g) == cancels' = cancels \cup {g}

-----------------------------------------------------------------------------
\* The server takes goal requests in the order they were sent.
FirstRequest(g) ==
  /\ server[g] = "requested"
  /\ \A h \in Goals : h < g => server[h] # "requested"

\* Nav2 is not active, or does not like the poses.
ServerRefuses(g) ==
  /\ FirstRequest(g)
  /\ server' = [server EXCEPT ![g] = "refused"]
  /\ UNCHANGED cancels

\* A goal that is accepted preempts the one that executes.
ServerAccepts(g) ==
  /\ FirstRequest(g)
  /\ server' = [h \in Goals |->
                  IF h = g THEN "executing"
                  ELSE IF server[h] = "executing" THEN "aborted"
                  ELSE server[h]]
  /\ UNCHANGED cancels

\* A cancel request for a goal that has ended changes nothing.
ServerCancels(g) ==
  /\ g \in cancels
  /\ cancels' = cancels \ {g}
  /\ server' = IF server[g] = "executing"
               THEN [server EXCEPT ![g] = "canceled"]
               ELSE server

ServerEnds(g) ==
  /\ server[g] = "executing"
  /\ \E how \in {"succeeded", "aborted"} :
       server' = [server EXCEPT ![g] = how]
  /\ UNCHANGED cancels

ServerNext ==
  /\ \E g \in Goals :
       \/ ServerRefuses(g)
       \/ ServerAccepts(g)
       \/ ServerCancels(g)
       \/ ServerEnds(g)
  /\ UNCHANGED client
=============================================================================
