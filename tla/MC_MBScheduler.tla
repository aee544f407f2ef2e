--------------------------- MODULE MC_MBScheduler ----------------------------
(* Four messages of two issuers, the node is issuer 0.                       *)
EXTENDS MBScheduler

TwoIssuers == {0, 1}
FourMessages == 1 .. 4
Earning == [i \in TwoIssuers |-> IF i = 0 THEN 6 ELSE 1]

M(strong, weak, issuer, b, nano) ==
    [strong |-> strong, weak |-> weak, issuer |-> issuer, burn |-> b, nano |-> nano]

\* Message 1 has two or three children, one of them a weak one.
MCUniverse ==
    {<<M({Genesis}, {}, i, 1, 0), M({1}, {}, j, b, 0), M({1}, w, 1, 0, 1), M(s, {1}, k, 1, 0)>> :
        i \in {0, 1}, j \in {0, 1}, b \in {0, 1}, w \in {{}, {2}}, s \in {{Genesis}, {3}}, k \in {0, 1}}

AllPolicies == {"NoBurn", "Anxious", "Greedy1", "Greedy10"}

=============================================================================
