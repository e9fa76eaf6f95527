------------------------------ MODULE MCRetry ------------------------------
(* A small world for the retry manager: two poses, home, and a costmap in  *)
(* which one of them is blocked.                                           *)
EXTENDS RetryManager, TLC

MC_Costmaps == {{}, {CHOOSE p \in Poses : TRUE}}
=============================================================================
