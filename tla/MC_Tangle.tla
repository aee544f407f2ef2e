----------------------------- MODULE MC_Tangle ------------------------------
(***************************************************************************)
(* Small instances of Tangle.                                              *)
(***************************************************************************)
EXTENDS Tangle, TLC

\* All the ways for message m to reference the earlier messages, each of them
\* strongly, weakly or not at all.  A message whose tip set was empty has
\* Genesis as its only strong parent (TipSet.StrongTips).
References(m) ==
    {[strong |-> IF s = {} THEN {Genesis} ELSE s, weak |-> w] :
        s \in SUBSET (1 .. m - 1), w \in SUBSET (1 .. m - 1)}

\* No message is both a strong and a weak parent of the same child.
Disjoint(r) == r.strong \cap r.weak = {}

\* Every DAG over the messages 1 .. k, with payloads from P.
RECURSIVE AllDags(_, _)
AllDags(k, P) ==
    IF k = 0 THEN {<<>>}
    ELSE {Append(u, [strong |-> r.strong, weak |-> r.weak, payload |-> p]) :
            u \in AllDags(k - 1, P),
            r \in {x \in References(k) : Disjoint(x)},
            p \in P}

ThreeMessages == 1 .. 3

\* Every shape and every colouring over three messages.
Colorings == AllDags(3, Colors)

Symmetry == Permutations(Node) \cup Permutations(Color)
=============================================================================
