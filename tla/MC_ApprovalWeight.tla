-------------------------- MODULE MC_ApprovalWeight --------------------------
(***************************************************************************)
(* Small instances of ApprovalWeight.                                      *)
(***************************************************************************)
EXTENDS ApprovalWeight, TLC

\* The ways for message m to reference the earlier messages, strongly or, from
\* W, weakly; without any strong parent it has Genesis as one.
References(m, W) ==
    {[strong |-> IF s = {} THEN {Genesis} ELSE s, weak |-> w] :
        s \in SUBSET (1 .. m - 1), w \in SUBSET ((1 .. m - 1) \cap W)}

Disjoint(r) == r.strong \cap r.weak = {}

NotOlder(u, k) ==
    \A q \in (u[k].strong \cup u[k].weak) \ {Genesis} : u[q].time <= u[k].time

\* Every DAG over the messages 1 .. k, with issuers from P, kinds from V, times
\* from T that do not decrease along the references, and weak parents from W.
\* Message 1 is issued at the genesis time.
RECURSIVE AllDags(_, _, _, _, _)
AllDags(k, P, V, T, W) ==
    IF k = 1
    THEN {<<[strong |-> {Genesis}, weak |-> {}, issuer |-> p,
             validation |-> v, time |-> 0]>> : p \in P, v \in V}
    ELSE LET links == {r \in References(k, W) : Disjoint(r)}
         IN  {u \in {Append(b, [strong |-> r.strong, weak |-> r.weak, issuer |-> p,
                                validation |-> v, time |-> t]) :
                        b \in AllDags(k - 1, P, V, T, W), r \in links,
                        p \in P, v \in V, t \in T} :
                NotOlder(u, k)}

ThreeMessages == 1 .. 3
TwoPeers == 1 .. 2
HeavyFirst == <<2, 1>>

\* Every shape of three messages of two peers, of both kinds, at three moments.
AllKinds == AllDags(3, TwoPeers, BOOLEAN, {0, 1, 2}, ThreeMessages)
=============================================================================
