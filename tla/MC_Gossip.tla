------------------------------- MODULE MC_Gossip -------------------------------
(***************************************************************************)
(* Three peers and two messages, the second on top of the first: a path    *)
(* that loses packets, a path and a triangle that lose none, and a path    *)
(* at whose end an adversary is connected to everybody, itself included.   *)
(***************************************************************************)
EXTENDS Gossip

Path == <<{2}, {1, 3}, {2}>>
Triangle == <<{2, 3}, {1, 3}, {1, 2}>>
Known == <<{2}, {1, 3}, {1, 2, 3}>>

MCParents == <<{}, {1}>>

Nets == {[neighbors |-> Path, lossless |-> {}],
         [neighbors |-> Path, lossless |-> 1..3],
         [neighbors |-> Triangle, lossless |-> 1..3],
         [neighbors |-> Known, lossless |-> {3}]}

MCUniverse ==
    {[neighbors |-> k.neighbors, lossless |-> k.lossless, parents |-> MCParents,
      issuer |-> i, heavy |-> IF k.lossless = 1..3 THEN {1, 2} ELSE {2}] :
        k \in Nets, i \in {<<1, 1>>, <<1, 2>>, <<3, 1>>}}

=============================================================================
