----------------------------- MODULE MC_Opinion -----------------------------
(***************************************************************************)
(* Small instances of OpinionManager.  Peers and messages are numbers.     *)
(* Nothing reads the identifier of a message here, so the messages are     *)
(* listed issuer by issuer, each issuer's in the order it numbered them.   *)
(***************************************************************************)
EXTENDS OpinionManager, Sequences, TLC

\* The k-th message is numbered after the earlier ones of its issuer.
SeqOf(by, k) == Cardinality({j \in 1 .. k : by[j] = by[k]})

FourMessages == 1 .. 4

\* Four messages of three peers, some of which change their minds; the last
\* message may have a third colour or none.
Issuers == {<<1, 1, 2, 3>>, <<1, 2, 2, 3>>}
FourVotes ==
    {[k \in 1 .. 4 |-> [issuer |-> by[k], seq |-> SeqOf(by, k), color |-> of[k]]] :
        by \in Issuers, of \in {f \in [1 .. 4 -> Colors] : \A k \in 1 .. 3 : f[k] \in {1, 2}}}

ThreePeers == 1 .. 3
BlueRedGreen == {1, 2, 3}

\* One peer weighs as much as the two others together.
OneHeavy == <<2, 1, 1>>

Setting(h, a) == [honest |-> h, absolute |-> a]

\* Two honest nodes, or an honest node and an adversary with the other threshold.
HonestOrNot == {Setting({1, 2}, TRUE), Setting({1}, FALSE)}

AdversaryAlone == {Setting({}, TRUE)}
=============================================================================
