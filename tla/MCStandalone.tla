---------------------------- MODULE MCStandalone ----------------------------
(* A small world for the stand-alone manager: two poses, home, and a       *)
(* costmap in which one of them is blocked.                                *)
EXTENDS StandaloneManager, TLC

MC_Costmaps == {{}, {CHOOSE p \in Poses : TRUE}}
=============================================================================
