--------------------------- MODULE MC_TipManager ---------------------------
(***************************************************************************)
(* Small instances of TipManager.                                          *)
(***************************************************************************)
EXTENDS TipManager, TLC

Symmetry == Permutations(Color)
=============================================================================
