----------------------------- MODULE MCMission -----------------------------
(***************************************************************************)
(* Small worlds for the mission modules.  Two GPS positions, whose         *)
(* difference gives map points on either side of the origin.               *)
(***************************************************************************)
EXTENDS PatientOperator

MC_Fixes      == {<<10, 20>>}
MC_TwoFixes   == {<<10, 20>>, <<11, 22>>}
MC_OneWaypoint == {<<11, 20>>}
MC_TwoWaypoints == {<<11, 20>>, <<11, 23>>}
MC_NoCostmap  == {}
MC_Costmaps   == {{}, {<<0, 100>>}}
=============================================================================
