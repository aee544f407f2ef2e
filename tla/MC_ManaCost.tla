----------------------------- MODULE MC_ManaCost -----------------------------
(* Two nodes, the cost changes every second slot.                            *)
EXTENDS ManaCost, TLC

OneEach == [n \in Node |-> 1]
Symmetry == Permutations(Node)

=============================================================================
