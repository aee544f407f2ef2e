---------------------------- MODULE MC_Overtaking ----------------------------
(***************************************************************************)
(* A small instance of the deficit round robin with its history.           *)
(***************************************************************************)
EXTENDS Overtaking, TLC

\* Issuer 1 has twice the bandwidth of the others.
ThreeQuanta == 0 :> 2 @@ 1 :> 4 @@ 2 :> 2
=============================================================================
