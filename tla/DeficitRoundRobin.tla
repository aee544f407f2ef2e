------------------------- MODULE DeficitRoundRobin -------------------------
(***************************************************************************)
(* What the ICCA+ scheduler of a node promises about whose message goes    *)
(* next: a deficit round robin over the queues of the issuers.  Only the   *)
(* lengths of the queues appear here; messages arrive without end and      *)
(* buffer management may drop some.  ICCAScheduler implements this.        *)
(*                                                                         *)
(* The code counts deficits and quanta as fractions of the work of one     *)
(* message.  Here they are whole numbers of a smaller unit, and what a     *)
(* division leaves over is lost, as the code loses what a float64 cannot   *)
(* hold; the instances take quanta for which every division is exact.      *)
(***************************************************************************)
EXTENDS Integers, FiniteSets

CONSTANTS
    NodesCount,
    Quantum,      \* what a round adds to the deficit of each issuer
    Work,         \* what sending one message costs
    MaxDeficit,
    MaxBacklog    \* bound: the longest queue considered

Issuer == 0 .. NodesCount - 1

ASSUME NodesCountAssumption == NodesCount \in Nat \ {0}
ASSUME QuantumAssumption == Quantum \in [Issuer -> Nat \ {0}]
ASSUME WorkAssumption == Work \in Nat \ {0}
\* The default of MaxDeficit is the work of two messages.
ASSUME MaxDeficitAssumption == MaxDeficit \in Nat /\ MaxDeficit >= Work
ASSUME MaxBacklogAssumption == MaxBacklog \in Nat

VARIABLES
    backlog,     \* the length of every issuer queue
    deficits,
    roundRobin   \* the issuer the ring points to

ringVars == <<backlog, deficits, roundRobin>>

-----------------------------------------------------------------------------
(* selectIssuer and ScheduleMessage in closed form *)

\* How far the ring has to turn to reach issuer i.
RingDistance(i) == (i - roundRobin) % NodesCount

\* What issuer i lacks to send a message; it takes Need / Quantum rounds.
Need(i) == IF deficits[i] >= Work THEN 0 ELSE Work - deficits[i]

\* i has to wait for fewer rounds than j.
Sooner(i, j) == Need(i) * Quantum[j] < Need(j) * Quantum[i]

Backlogged == {i \in Issuer : backlog[i] > 0}

\* (Variants named ..._X are wrong on purpose; the runs must tell them apart.)
FirstOnRing_X(s) ==
    /\ s \in Backlogged
    /\ \A j \in Backlogged \ {s} : RingDistance(s) < RingDistance(j)

\* Of the issuers with a backlog, s is the first one on the ring with the
\* least rounds to wait.
IsNext(s) ==
    /\ s \in Backlogged
    /\ \A j \in Backlogged \ {s} :
          \/ Sooner(s, j)
          \/ ~Sooner(j, s) /\ RingDistance(s) < RingDistance(j)

Capped(x) == IF x > MaxDeficit THEN MaxDeficit ELSE x

DeficitsLent_X(s) ==
    [i \in Issuer |->
        Capped(deficits[i] + (IF RingDistance(i) < RingDistance(s)
                              THEN Quantum[i] ELSE 0))
        - (IF i = s THEN Work ELSE 0)]

\* Everybody gains the rounds s had to wait for, those the ring passes on its
\* way to s one round more, and s pays for its message.
DeficitsAfter(s) ==
    [i \in Issuer |->
        Capped(deficits[i] + (Need(s) * Quantum[i]) \div Quantum[s]
                           + (IF RingDistance(i) < RingDistance(s)
                              THEN Quantum[i] ELSE 0))
        - (IF i = s THEN Work ELSE 0)]

-----------------------------------------------------------------------------
RingInit ==
    /\ backlog = [i \in Issuer |-> 0]
    /\ deficits = [i \in Issuer |-> 0]
    /\ roundRobin = 0

\* Any number of messages may become ready while `sent` of them leave.
Arrivals(sent) ==
    /\ backlog' \in [Issuer -> 0 .. MaxBacklog]
    /\ \A i \in Issuer : backlog'[i] >= backlog[i] - sent[i]

Nothing == [i \in Issuer |-> 0]
OneOf(s) == [i \in Issuer |-> IF i = s THEN 1 ELSE 0]

Arrive ==
    /\ Arrivals(Nothing)
    /\ UNCHANGED <<deficits, roundRobin>>

\* A message that is sent may make others ready.
Serve(s) ==
    /\ IsNext(s)
    /\ Arrivals(OneOf(s))
    /\ deficits' = DeficitsAfter(s)
    /\ roundRobin' = s

\* Buffer management takes a message from a queue.
Drop(i) ==
    /\ backlog[i] > 0
    /\ backlog' = [backlog EXCEPT ![i] = @ - 1]
    /\ UNCHANGED <<deficits, roundRobin>>

RingNext == Arrive \/ \E i \in Issuer : Serve(i) \/ Drop(i)

RingSpec == RingInit /\ [][RingNext]_ringVars

\* processMessages calls ScheduleMessage at every tick of the scheduler.
Fairness == WF_ringVars(\E i \in Issuer : Serve(i))

FairSpec == RingSpec /\ Fairness

-----------------------------------------------------------------------------
(* Properties *)

\* The shape of the state.
RingTypeOK ==
    /\ backlog \in [Issuer -> Nat]
    /\ deficits \in [Issuer -> Int]
    /\ roundRobin \in Issuer

\* A deficit neither exceeds MaxDeficit, however long an issuer is idle, nor
\* becomes negative, however often it sends: nobody sends on credit.
DeficitsInRange == \A i \in Issuer : deficits[i] \in 0 .. MaxDeficit

\* An issuer whose queue never runs empty is served again and again.
NobodyStarves ==
    \A i \in Issuer : <>[](backlog[i] > 0) => []<><<Serve(i)>>_ringVars

=============================================================================
