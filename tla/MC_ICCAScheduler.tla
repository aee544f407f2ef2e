-------------------------- MODULE MC_ICCAScheduler --------------------------
(***************************************************************************)
(* Small instances of ICCAScheduler.                                       *)
(***************************************************************************)
EXTENDS ICCAScheduler, Sequences, TLC

\* Issuer 1 has twice the bandwidth of issuer 0.
TwoQuanta == 0 :> 2 @@ 1 :> 4

\* Issuer 2 has half of the bandwidth of all.
ThreeQuanta == 0 :> 2 @@ 1 :> 2 @@ 2 :> 4

\* The ways for message m to reference the earlier messages, strongly or, from
\* W, weakly; without any strong parent it has Genesis as one.
References(m, W) ==
    {[strong |-> IF s = {} THEN {Genesis} ELSE s, weak |-> w] :
        s \in SUBSET (1 .. m - 1), w \in SUBSET ((1 .. m - 1) \cap W)}

Disjoint(r) == r.strong \cap r.weak = {}

\* Message 3 is the first one of the next second.
Nano == <<1, 2, 0, 1>>

Kind(v, ok) == [validation |-> v, valid |-> ok]
Plain == Kind(FALSE, TRUE)
Validation == Kind(TRUE, TRUE)
Invalid == Kind(FALSE, FALSE)

\* Every DAG over the messages 1 .. k of both issuers with kinds from K and
\* weak parents from W.
RECURSIVE AllDags(_, _, _)
AllDags(k, K, W) ==
    IF k = 0 THEN {<<>>}
    ELSE LET before == AllDags(k - 1, K, W)
             links == {r \in References(k, W) : Disjoint(r)}
         IN  {Append(u, [strong |-> r.strong, weak |-> r.weak, issuer |-> i,
                         validation |-> t.validation, valid |-> t.valid,
                         nano |-> Nano[k]]) :
                u \in before, r \in links, i \in Issuer, t \in K}

ThreeMessages == 1 .. 3
FourMessages == 1 .. 4

\* Every shape of three messages of every kind.
AllKinds == AllDags(3, {Plain, Validation, Invalid}, ThreeMessages)

\* Every shape of three valid messages.
AllValid == AllDags(3, {Plain, Validation}, ThreeMessages)

\* Four regular messages, linked strongly, the first one of issuer 0.
PlainDags == {u \in AllDags(4, {Plain}, {}) : u[1].issuer = 0}
=============================================================================
