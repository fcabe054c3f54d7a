------------------------------ MODULE MCBudget ------------------------------
(***************************************************************************)
(* Instances of Budget: two requests of different cost, the second one     *)
(* able to overdraw what the first leaves.                                 *)
(***************************************************************************)
EXTENDS Budget, TLC

CONSTANTS r1, r2

MCCost == r1 :> 1 @@ r2 :> 3
=============================================================================
