-------------------------- MODULE MCLeaderServices --------------------------
(***************************************************************************)
(* The instance of LeaderServices that TLC checks: two nodes compete, the  *)
(* services of one are followed; LeaderServices.cfg gives the constants.   *)
(***************************************************************************)
EXTENDS LeaderServices
=============================================================================
