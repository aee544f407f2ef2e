----------------------------- MODULE Overtaking -----------------------------
(***************************************************************************)
(* DeficitRoundRobin with a history of who has been passed over: the bound *)
(* on how long the ICCA+ scheduler lets the message of an issuer wait.     *)
(***************************************************************************)
EXTENDS DeficitRoundRobin, FiniteSetsExt

VARIABLE overtaken   \* services of others while an issuer has been waiting

historyVars == <<ringVars, overtaken>>

-----------------------------------------------------------------------------
\* What others can send before a waiting issuer: each of them the messages its
\* deficit may be worth when the wait starts, and its share of the rounds and
\* laps of the ring that fill the deficit of the waiting one, with the lap that
\* is running at the start and the one that fills it more than it needs.
Share(i) == [j \in Issuer |->
    (MaxDeficit + ((Work + 2 * Quantum[i]) * Quantum[j]) \div Quantum[i]) \div Work]

Patience(i) == MapThenSumSet(LAMBDA j : Share(i)[j], Issuer \ {i})

\* bound: the history does not count beyond the first service too many.
OneMore(i) == IF overtaken[i] > Patience(i) THEN overtaken[i] ELSE overtaken[i] + 1

HistoryInit == RingInit /\ overtaken = [i \in Issuer |-> 0]

HistoryNext ==
    \/ /\ Arrive
       /\ UNCHANGED overtaken
    \/ \E s \in Issuer :
          /\ Serve(s)
          /\ overtaken' = [i \in Issuer |->
                IF i = s \/ i \notin Backlogged THEN 0 ELSE OneMore(i)]
    \/ \E i \in Issuer :
          /\ Drop(i)
          /\ overtaken' = [overtaken EXCEPT ![i] = IF backlog[i] = 1 THEN 0 ELSE @]

HistorySpec == HistoryInit /\ [][HistoryNext]_historyVars

FairHistorySpec == HistorySpec /\ Fairness

-----------------------------------------------------------------------------
(* Properties *)

\* No issuer with a message in its queue is overtaken more often than that,
\* however much the others send.
BoundedOvertaking == \A i \in Issuer : overtaken[i] <= Patience(i)

=============================================================================
