----------------------------- MODULE ICCAProofs -----------------------------
(***************************************************************************)
(* For every set of messages, every DAG over them, all quanta, any buffer  *)
(* size and both settings of ConfEligible: the ICCA+ scheduler loses no    *)
(* message, passes on no regular message twice or before its parents are   *)
(* eligible, leaves no ready message behind in nonReadyMap, serves the     *)
(* issuers as DeficitRoundRobin promises, and drops only what exceeds an   *)
(* issuer's share of the buffer.                                           *)
(***************************************************************************)
EXTENDS ICCAScheduler, InductionLemmas

\* A message becomes solid after its parents.
SolidClosed == \A m \in solid : Parents(m) \subseteq solid

\* Contents never change.
OneOfTheDags == issued \in Universe

IInv ==
    /\ TypeOK
    /\ OneOfTheDags
    /\ SolidClosed
    /\ NoneLost
    /\ PassedOnOnce
    /\ ParentsComeFirst
    /\ NothingStuck

-----------------------------------------------------------------------------
LEMMA SkipsNat == \A m : Skips(m) \in Nat
  BY DEF Skips

\* Deficits stay integers, whoever is served.
LEMMA DeficitsInt ==
    ASSUME TypeOK, NEW s \in Issuer
    PROVE  DeficitsAfter(s) \in [Issuer -> Int]
<1> USE QuantumAssumption, WorkAssumption, MaxDeficitAssumption DEF TypeOK
<1>1. \A x, y \in Int : Plus(x, y) \in Int
  BY DEF Plus
<1>2. Need(s) \in Int
  BY DEF Need
<1>3. \A a, b \in Int, q \in Nat \ {0} : (a * b) \div q \in Int
  BY Z3
<1> DEFINE rounds == [i \in Issuer |->
                         Plus(deficits[i], (Need(s) * Quantum[i]) \div Quantum[s])]
           lap == [i \in Issuer |->
                      IF i \in Passed(s) THEN Plus(rounds[i], Quantum[i]) ELSE rounds[i]]
<1>4. rounds \in [Issuer -> Int]
  <2> SUFFICES ASSUME NEW i \in Issuer
               PROVE  Plus(deficits[i], (Need(s) * Quantum[i]) \div Quantum[s]) \in Int
    OBVIOUS
  <2>1. (Need(s) * Quantum[i]) \div Quantum[s] \in Int
    BY <1>2, <1>3
  <2> QED
    BY <1>1, <2>1
<1> HIDE DEF rounds
<1>5. lap \in [Issuer -> Int]
  BY <1>1, <1>4
<1> HIDE DEF lap
<1>6. DeficitsAfter(s) = [lap EXCEPT ![s] = Plus(lap[s], -Work)]
  BY <1>5 DEF DeficitsAfter, lap, rounds
<1> QED
  BY <1>1, <1>5, <1>6


-----------------------------------------------------------------------------
LEMMA InitIInv == Init => IInv
<1> SUFFICES ASSUME Init PROVE IInv
  OBVIOUS
<1>1. issued \in [Message -> Content]
  BY UniverseAssumption DEF Init
<1>2. TypeOK
  <2>1. 0 \in Issuer
    BY NodesCountAssumption DEF Issuer
  <2>2. deficits \in [Issuer -> Int] /\ gossiped \in [Message -> Nat]
    BY DEF Init
  <2> QED
    BY <1>1, <2>1, <2>2 DEF Init, TypeOK
<1>3. SolidClosed /\ OneOfTheDags /\ NoneLost /\ PassedOnOnce
  BY DEF Init, OneOfTheDags, SolidClosed, NoneLost, Booked, PassedOnOnce, Regular
<1>4. ParentsComeFirst /\ NothingStuck
  BY DEF Init, ParentsComeFirst, NothingStuck
<1> QED
  BY <1>2, <1>3, <1>4 DEF IInv

LEMMA InvalidKeeps ==
    ASSUME IInv, NEW m \in Message, BecomeInvalid(m)
    PROVE  IInv'
<1> USE DEF IInv, BecomeInvalid, Arrives
<1>1. TypeOK' /\ OneOfTheDags'
  BY DEF TypeOK, OneOfTheDags
<1>2. SolidClosed'
  BY DEF SolidClosed, Parents, Strong, Weak
<1>3. NoneLost'
  BY DEF NoneLost, Booked
<1>4. PassedOnOnce'
  BY DEF PassedOnOnce, Regular, Skips
<1>5. Eligible' = Eligible
  BY DEF Eligible
<1>6. ParentsComeFirst'
  BY <1>5 DEF ParentsComeFirst, Parents, Strong, Weak, Regular, Skips
<1>7. NothingStuck'
  BY <1>5 DEF NothingStuck, IsReady, Parents, Strong, Weak, TypeOK
<1> QED
  BY <1>1, <1>2, <1>3, <1>4, <1>6, <1>7

LEMMA EnqueueKeeps ==
    ASSUME IInv, NEW m \in Message, EnqueueMessage(m)
    PROVE  IInv'
<1> USE DEF IInv, EnqueueMessage, Arrives
<1>0. /\ m \notin solid /\ m \notin ready /\ m \notin nonReady
      /\ m \notin scheduled /\ m \notin dropped
      /\ \A k : Skips(k)' = Skips(k) /\ Parents(k)' = Parents(k)
  BY DEF TypeOK, Skips, Parents, Strong, Weak
<1>1. TypeOK' /\ OneOfTheDags'
  BY <1>0, SkipsNat DEF TypeOK, OneOfTheDags
<1>2. SolidClosed'
  BY <1>0 DEF SolidClosed
<1>3. NoneLost'
  BY DEF NoneLost, Booked
<1>4. PassedOnOnce'
  <2> SUFFICES ASSUME NEW k \in Regular
               PROVE  gossiped'[k] = IF k \in scheduled' \ (ready' \cup nonReady' \cup dropped')
                                     THEN 1 ELSE 0
    BY <1>0 DEF PassedOnOnce, Regular
  <2>1. CASE k = m
    BY <1>0, <2>1 DEF PassedOnOnce, Regular, TypeOK
  <2>2. CASE k # m
    BY <2>2 DEF PassedOnOnce, Regular, TypeOK
  <2> QED
    BY <2>1, <2>2
<1>5. Eligible \subseteq Eligible' /\ Eligible' \subseteq Eligible \cup {m}
  BY DEF Eligible
<1>6. ParentsComeFirst'
  BY <1>0, <1>5 DEF ParentsComeFirst, Regular
<1>7. NothingStuck'
  <2> SUFFICES ASSUME NEW c \in nonReady'
               PROVE  ~(Parents(c) \subseteq Eligible')
    BY <1>0 DEF NothingStuck, IsReady
  <2>1. CASE c = m
    <3>1. ~(Parents(m) \subseteq Eligible) /\ m \notin Parents(m)
      BY <1>0, <2>1
    <3> QED
      BY <1>5, <2>1, <3>1
  <2>2. CASE c # m
    <3>1. c \in nonReady /\ c \in solid
      BY <2>2 DEF TypeOK
    <3>2. ~(Parents(c) \subseteq Eligible) /\ m \notin Parents(c)
      BY <1>0, <3>1 DEF NothingStuck, IsReady, SolidClosed
    <3> QED
      BY <1>5, <3>2
  <2> QED
    BY <2>1, <2>2
<1> QED
  BY <1>1, <1>2, <1>3, <1>4, <1>6, <1>7

LEMMA DropKeeps ==
    ASSUME IInv, NEW m \in Message, DropHead(m)
    PROVE  IInv'
<1> USE DEF IInv, DropHead, IsHead
<1>1. TypeOK' /\ OneOfTheDags'
  BY DEF TypeOK, OneOfTheDags
<1>2. SolidClosed' /\ NoneLost'
  BY DEF SolidClosed, NoneLost, Booked, Parents, Strong, Weak
<1>3. PassedOnOnce'
  BY DEF PassedOnOnce, Regular, Skips, TypeOK
<1>4. Eligible' = Eligible
  BY DEF Eligible
<1>5. ParentsComeFirst'
  BY <1>4 DEF ParentsComeFirst, Parents, Strong, Weak, Regular, Skips
<1>6. NothingStuck'
  BY <1>4 DEF NothingStuck, IsReady, Parents, Strong, Weak
<1> QED
  BY <1>1, <1>2, <1>3, <1>5, <1>6

\* Scheduling m or confirming it makes it eligible: the children promoted are
\* ready, those that stay behind are not.
LEMMA PromotionExact ==
    ASSUME TypeOK, NothingStuck, NEW m,
           NEW up, up = Promoted(m, Eligible \cup {m})
    PROVE  /\ \A c \in up : Parents(c) \subseteq Eligible \cup {m}
           /\ \A c \in nonReady \ up : ~(Parents(c) \subseteq Eligible \cup {m})
           /\ up \subseteq nonReady
  BY DEF Promoted, IsReady, NothingStuck, TypeOK

LEMMA ScheduleKeeps ==
    ASSUME IInv, NEW m \in Message, ScheduleMessage(m)
    PROVE  IInv'
<1> USE DEF IInv, ScheduleMessage, IsHead
<1> DEFINE up == Promoted(m, Eligible \cup {m})
<1>0. /\ up \subseteq nonReady
      /\ \A c \in up : Parents(c) \subseteq Eligible \cup {m}
      /\ \A c \in nonReady \ up : ~(Parents(c) \subseteq Eligible \cup {m})
      /\ ready' = (ready \ {m}) \cup up /\ nonReady' = nonReady \ up
      /\ m \in ready /\ m \in solid /\ m \notin nonReady /\ m \notin dropped
      /\ \A k : Skips(k)' = Skips(k) /\ Parents(k)' = Parents(k)
  BY PromotionExact DEF TypeOK, Skips, Parents, Strong, Weak
<1> HIDE DEF up
<1>1. TypeOK' /\ OneOfTheDags'
  <2>1. issued[m].issuer \in Issuer
    BY DEF TypeOK, Content
  <2>2. deficits' \in [Issuer -> Int]
    BY <2>1, DeficitsInt
  <2>3. gossiped' \in [Message -> Nat]
    BY DEF TypeOK
  <2>4. /\ solid' \in SUBSET Message /\ confirmed' \in SUBSET solid'
        /\ scheduled' \in SUBSET solid' /\ nonReady' \in SUBSET solid'
        /\ issued' \in [Message -> Content] /\ trimming' \in BOOLEAN
    BY <1>0 DEF TypeOK
  <2>5. /\ ready' \in SUBSET (solid' \ nonReady')
        /\ dropped' \in SUBSET (solid' \ (ready' \cup nonReady'))
    BY <1>0 DEF TypeOK
  <2> QED
    BY <2>1, <2>2, <2>3, <2>4, <2>5 DEF TypeOK, OneOfTheDags
<1>2. SolidClosed'
  BY <1>0 DEF SolidClosed
<1>3. NoneLost'
  BY <1>0 DEF NoneLost, Booked
<1>4. PassedOnOnce'
  <2> SUFFICES ASSUME NEW k \in Regular
               PROVE  gossiped'[k] = IF k \in scheduled' \ (ready' \cup nonReady' \cup dropped')
                                     THEN 1 ELSE 0
    BY <1>0 DEF PassedOnOnce, Regular
  <2>1. k \in Message /\ gossiped \in [Message -> Nat]
    BY DEF Regular, TypeOK
  <2>2. CASE k = m
    <3>1. gossiped[k] = 0
      BY <1>0, <2>2 DEF PassedOnOnce
    <3>2. k \in scheduled' /\ k \notin ready' \cup nonReady' \cup dropped'
      BY <1>0, <2>2
    <3> QED
      BY <2>1, <2>2, <3>1, <3>2
  <2>3. CASE k # m
    <3>1. gossiped'[k] = gossiped[k]
      BY <2>1, <2>3
    <3>2. k \in scheduled' \ (ready' \cup nonReady' \cup dropped')
             <=> k \in scheduled \ (ready \cup nonReady \cup dropped)
      BY <1>0, <2>3
    <3> QED
      BY <3>1, <3>2 DEF PassedOnOnce
  <2> QED
    BY <2>2, <2>3
<1>5. Eligible' = Eligible \cup {m}
  BY DEF Eligible
<1>6. ParentsComeFirst'
  BY <1>0, <1>5 DEF ParentsComeFirst, Regular
<1>7. NothingStuck'
  BY <1>0, <1>5 DEF NothingStuck, IsReady
<1> QED
  BY <1>1, <1>2, <1>3, <1>4, <1>6, <1>7

LEMMA ConfirmKeeps ==
    ASSUME IInv, NEW m \in Message, Confirm(m)
    PROVE  IInv'
<1> USE DEF IInv, Confirm
<1> DEFINE up == IF ConfEligible THEN Promoted(m, Eligible \cup {m}) ELSE {}
<1>1. /\ up \subseteq nonReady
      /\ ready' = ready \cup up /\ nonReady' = nonReady \ up
      /\ \A k : Skips(k)' = Skips(k) /\ Parents(k)' = Parents(k)
  BY DEF Promoted, Skips, Parents, Strong, Weak
<1>2. /\ \A c \in up : Parents(c) \subseteq Eligible'
      /\ \A c \in nonReady \ up : ~(Parents(c) \subseteq Eligible')
      /\ Eligible \subseteq Eligible'
  <2>1. CASE ConfEligible
    <3>1. Eligible' = Eligible \cup {m}
      BY <2>1 DEF Eligible
    <3> QED
      BY <2>1, <3>1, PromotionExact
  <2>2. CASE ~ConfEligible
    <3>1. Eligible' = Eligible
      BY <2>2 DEF Eligible
    <3> QED
      BY <2>2, <3>1 DEF NothingStuck, IsReady, TypeOK
  <2> QED
    BY <2>1, <2>2
<1> HIDE DEF up
<1>3. TypeOK' /\ OneOfTheDags'
  BY <1>1 DEF TypeOK, OneOfTheDags
<1>4. SolidClosed' /\ NoneLost'
  BY <1>1 DEF SolidClosed, NoneLost, Booked
<1>5. PassedOnOnce'
  BY <1>1 DEF PassedOnOnce, Regular
<1>6. ParentsComeFirst'
  BY <1>1, <1>2 DEF ParentsComeFirst, Regular
<1>7. NothingStuck'
  BY <1>1, <1>2 DEF NothingStuck, IsReady
<1> QED
  BY <1>3, <1>4, <1>5, <1>6, <1>7

\* Steps that touch none of what the invariant speaks of but `trimming`.
LEMMA TrimmedKeeps ==
    ASSUME IInv, BufferTrimmed \/ UNCHANGED vars
    PROVE  IInv'
<1> USE DEF IInv, BufferTrimmed, vars
<1>1. TypeOK' /\ OneOfTheDags'
  BY DEF TypeOK, OneOfTheDags
<1>2. SolidClosed' /\ NoneLost' /\ PassedOnOnce'
  BY DEF SolidClosed, NoneLost, Booked, PassedOnOnce, Regular, Skips, Parents,
         Strong, Weak
<1>3. Eligible' = Eligible
  BY DEF Eligible
<1>4. ParentsComeFirst' /\ NothingStuck'
  BY <1>3 DEF ParentsComeFirst, NothingStuck, IsReady, Parents, Strong, Weak,
              Regular, Skips
<1> QED
  BY <1>1, <1>2, <1>4

LEMMA StepIInv == IInv /\ [Next]_vars => IInv'
  BY InvalidKeeps, EnqueueKeeps, DropKeeps, ScheduleKeeps, ConfirmKeeps,
     TrimmedKeeps DEF Next

LEMMA Invariance == Spec => []IInv
  BY InitIInv, StepIInv, PTL DEF Spec

-----------------------------------------------------------------------------
\* The scheduler's state keeps its shape: in particular the queues,
\* nonReadyMap and what was dropped never share a message.
THEOREM TypeCorrect == Spec => []TypeOK
<1>1. IInv => TypeOK
  BY DEF IInv
<1> QED
  BY <1>1, Invariance, PTL

\* Every booked message is passed on, queued, waiting or dropped.
THEOREM NothingIsLost == Spec => []NoneLost
<1>1. IInv => NoneLost
  BY DEF IInv
<1> QED
  BY <1>1, Invariance, PTL

\* No regular message is gossiped twice by the scheduler of a node.
THEOREM GossipOnce == Spec => []PassedOnOnce
<1>1. IInv => PassedOnOnce
  BY DEF IInv
<1> QED
  BY <1>1, Invariance, PTL

\* Regular messages are queued and passed on after their parents.
THEOREM GossipInOrder == Spec => []ParentsComeFirst
<1>1. IInv => ParentsComeFirst
  BY DEF IInv
<1> QED
  BY <1>1, Invariance, PTL

\* nonReadyMap holds no message whose parents are all eligible.
THEOREM PromotionComplete == Spec => []NothingStuck
<1>1. IInv => NothingStuck
  BY DEF IInv
<1> QED
  BY <1>1, Invariance, PTL

-----------------------------------------------------------------------------
\* Among some messages there is one that was created before all the others.
LEMMA EarliestMessage ==
    ASSUME NEW T \in SUBSET Message, T # {}
    PROVE  \E x \in T : \A y \in T : ~(y < x)
<1>1. IsWellFoundedOn(OpToRel(<, Nat), Nat)
  BY NatLessThanWellFounded
<1>2. T \subseteq Nat
  BY MessageAssumption
<1>3. PICK x \in T : \A y \in T : ~(<<y, x>> \in OpToRel(<, Nat))
  BY <1>1, <1>2, WFMin
<1> QED
  BY <1>2, <1>3 DEF OpToRel

\* A chain of waiting messages ends at one that is queued, dropped or invalid.
LEMMA ChainsEnd == IInv => WaitsForAQueue
<1> SUFFICES ASSUME IInv,
                    NEW m \in nonReady, NEW S \in SUBSET Message,
                    m \in S, \A k \in S : Parents(k) \subseteq S
             PROVE  \E p \in S \ Eligible : p \in ready \cup dropped \/ ~issued[p].valid
  BY DEF WaitsForAQueue
<1> USE DEF IInv
<1> DEFINE T == {k \in S \cap solid : k \notin Eligible}
<1>1. m \in solid /\ ~(Parents(m) \subseteq Eligible)
  BY DEF TypeOK, NothingStuck, IsReady
<1>2. T # {}
  BY <1>1 DEF SolidClosed
<1>3. PICK x \in T : \A y \in T : ~(y < x)
  BY <1>2, EarliestMessage
<1>4. \A p \in Parents(x) : p < x
  BY <1>3, UniverseAssumption DEF OneOfTheDags, Parents, Strong, Weak
<1>5. Parents(x) \subseteq Eligible
  BY <1>3, <1>4 DEF SolidClosed
<1>6. x \notin nonReady
  BY <1>3, <1>5 DEF NothingStuck, IsReady
<1>7. x \notin scheduled
  BY <1>3 DEF Eligible
<1> QED
  BY <1>3, <1>6, <1>7 DEF NoneLost, Booked

\* A message waits only for queued, dropped or invalid messages of its past
\* cone, never for one that is itself forgotten.
THEOREM WaitingExplained == Spec => []WaitsForAQueue
  BY ChainsEnd, Invariance, PTL

-----------------------------------------------------------------------------
(* A service keeps the deficits in their range *)

\* Both modules count the rounds an issuer has to wait for in the same way.
LEMMA SameNeed ==
    DRR!Issuer = Issuer /\ \A i : DRR!Need(i) = Need(i)
  BY DEF DRR!Issuer, Issuer, DRR!Need, Need

\* What the selected issuer lacks is filled up before it pays, and nothing but
\* the payment ever lowers a deficit.
LEMMA ServeKeepsRange ==
    ASSUME DRR!DeficitsInRange, NEW s \in Issuer
    PROVE  \A i \in Issuer : DRR!DeficitsAfter(s)[i] \in 0 .. MaxDeficit
<1> TAKE i \in Issuer
<1> USE QuantumAssumption, WorkAssumption, MaxDeficitAssumption
<1> DEFINE rounds == (Need(s) * Quantum[i]) \div Quantum[s]
           lap == IF DRR!RingDistance(i) < DRR!RingDistance(s) THEN Quantum[i] ELSE 0
<1>1. /\ deficits[i] \in 0 .. MaxDeficit /\ deficits[s] \in 0 .. MaxDeficit
      /\ Quantum[i] \in Nat \ {0} /\ Quantum[s] \in Nat \ {0}
  BY SameNeed DEF DRR!DeficitsInRange
<1>2. Need(s) \in Nat /\ deficits[s] + Need(s) >= Work
  BY <1>1 DEF Need
<1>3. rounds \in Nat
  BY <1>1, <1>2, TimesNat, DivNat
<1>4. lap \in Nat
  BY <1>1
<1>5. i = s => rounds = Need(s)
  BY <1>1, <1>2, DivExact
<1>6. DRR!DeficitsAfter(s)[i] =
          DRR!Capped(deficits[i] + rounds + lap) - (IF i = s THEN Work ELSE 0)
  BY SameNeed DEF DRR!DeficitsAfter
<1> HIDE DEF rounds, lap
<1>7. CASE i = s
  BY <1>1, <1>2, <1>3, <1>4, <1>5, <1>6, <1>7 DEF DRR!Capped
<1>8. CASE i # s
  BY <1>1, <1>3, <1>4, <1>6, <1>8 DEF DRR!Capped
<1> QED
  BY <1>7, <1>8

-----------------------------------------------------------------------------
(* The deficits of the scheduler *)

InRange == \A i \in Issuer : deficits[i] \in 0 .. MaxDeficit

\* incrementDeficit, called up to three times for an issuer, adds up to the
\* single step of the round robin: the cap never cuts off what is then paid.
LEMMA SameDeficits ==
    ASSUME InRange, roundRobin \in Issuer, NEW s \in Issuer
    PROVE  DeficitsAfter(s) = DRR!DeficitsAfter(s)
<1> USE QuantumAssumption, WorkAssumption, MaxDeficitAssumption
<1> DEFINE gain(i) == (Need(s) * Quantum[i]) \div Quantum[s]
           rounds == [i \in Issuer |-> Plus(deficits[i], gain(i))]
           lap == [i \in Issuer |->
                      IF i \in Passed(s) THEN Plus(rounds[i], Quantum[i]) ELSE rounds[i]]
           extra(i) == IF DRR!RingDistance(i) < DRR!RingDistance(s) THEN Quantum[i] ELSE 0
<1>1. Need(s) \in Nat
  BY DEF Need, InRange
<1>2. \A i \in Issuer : gain(i) \in Nat
  BY <1>1, TimesNat, DivNat
<1>3. \A i \in Issuer : i \in Passed(s) <=> DRR!RingDistance(i) < DRR!RingDistance(s)
  BY DEF Passed, DRR!RingDistance
<1>4. s \notin Passed(s)
  <2>1. (s - roundRobin) % NodesCount \in Int
    BY NodesCountAssumption DEF Issuer
  <2> QED
    BY <2>1 DEF Passed
<1>5. DeficitsAfter(s) = [lap EXCEPT ![s] = Plus(lap[s], -Work)]
  BY DEF DeficitsAfter
<1>6. DRR!DeficitsAfter(s) =
         [i \in Issuer |-> DRR!Capped(deficits[i] + gain(i) + extra(i))
                           - (IF i = s THEN Work ELSE 0)]
  BY SameNeed DEF DRR!DeficitsAfter
<1>7. ASSUME NEW i \in Issuer
      PROVE  (IF i = s THEN Plus(lap[i], -Work) ELSE lap[i])
             = DRR!Capped(deficits[i] + gain(i) + extra(i)) - (IF i = s THEN Work ELSE 0)
  <2>1. /\ deficits[i] \in 0 .. MaxDeficit /\ Quantum[i] \in Nat /\ gain(i) \in Nat
        /\ rounds[i] = Plus(deficits[i], gain(i))
    BY <1>2 DEF InRange
  <2>2. /\ lap[i] = IF i \in Passed(s) THEN Plus(rounds[i], Quantum[i]) ELSE rounds[i]
        /\ extra(i) = IF i \in Passed(s) THEN Quantum[i] ELSE 0
    BY <1>3
  <2> HIDE DEF gain, rounds, lap, extra
  <2>3. CASE i \in Passed(s)
    <3>1. i # s
      BY <1>4, <2>3
    <3> QED
      BY <2>1, <2>2, <2>3, <3>1 DEF Plus, DRR!Capped
  <2>4. CASE i \notin Passed(s)
    BY <2>1, <2>2, <2>4 DEF Plus, DRR!Capped
  <2> QED
    BY <2>3, <2>4
<1>8. [lap EXCEPT ![s] = Plus(lap[s], -Work)]
         = [i \in Issuer |-> IF i = s THEN Plus(lap[i], -Work) ELSE lap[i]]
  OBVIOUS
<1> HIDE DEF gain, lap, extra
<1> QED
  BY <1>5, <1>6, <1>7, <1>8

LEMMA StepInRange == IInv /\ InRange /\ [Next]_vars => InRange'
<1> SUFFICES ASSUME IInv, InRange, [Next]_vars PROVE InRange'
  OBVIOUS
<1>1. ASSUME NEW m \in Message, ScheduleMessage(m) PROVE InRange'
  <2>1. issued[m].issuer \in Issuer /\ roundRobin \in Issuer
    BY DEF IInv, TypeOK, Content
  <2>2. deficits' = DRR!DeficitsAfter(issued[m].issuer)
    BY <1>1, <2>1, SameDeficits DEF ScheduleMessage
  <2>3. DRR!DeficitsInRange
    BY SameNeed DEF InRange, DRR!DeficitsInRange
  <2> QED
    BY <2>1, <2>2, <2>3, ServeKeepsRange DEF InRange
<1>2. CASE UNCHANGED deficits
  BY <1>2 DEF InRange
<1> QED
  BY <1>1, <1>2 DEF Next, BecomeInvalid, EnqueueMessage, DropHead, Confirm, BufferTrimmed, vars

LEMMA InRangeInvariance == Spec => [](IInv /\ InRange)
<1>1. Init => IInv /\ InRange
  BY InitIInv, MaxDeficitAssumption DEF Init, InRange
<1> QED
  BY <1>1, StepIInv, StepInRange, PTL DEF Spec

\* The scheduler itself never lets an issuer send on credit or hoard deficit.
THEOREM DeficitsBounded == Spec => []InRange
  BY InRangeInvariance, PTL

-----------------------------------------------------------------------------
(* Whom selectIssuer selects *)

\* The ring passes every issuer once.
LEMMA RingOnce ==
    ASSUME roundRobin \in Issuer
    PROVE  /\ \A k \in 0 .. NodesCount - 1 :
                 OnRing(k) \in Issuer /\ DRR!RingDistance(OnRing(k)) = k
           /\ \A i \in Issuer :
                 DRR!RingDistance(i) \in 0 .. NodesCount - 1 /\ OnRing(DRR!RingDistance(i)) = i
<1> USE NodesCountAssumption DEF Issuer
<1>1. ASSUME NEW k \in 0 .. NodesCount - 1
      PROVE  OnRing(k) \in Issuer /\ DRR!RingDistance(OnRing(k)) = k
  <2>1. OnRing(k) = IF roundRobin + k < NodesCount THEN roundRobin + k
                    ELSE roundRobin + k - NodesCount
    <3> DEFINE x == roundRobin + k
    <3>1. x \in Int /\ 0 <= x /\ x < NodesCount + NodesCount
      OBVIOUS
    <3>2. OnRing(k) = x % NodesCount
      BY DEF OnRing
    <3> HIDE DEF x
    <3>3. x % NodesCount = IF x < NodesCount THEN x ELSE x - NodesCount
      <4>1. 0 <= x + NodesCount /\ ~(x < 0)
        BY <3>1
      <4> HIDE DEF Issuer
      <4>2. x % NodesCount = IF x < 0 THEN x + NodesCount
                             ELSE IF x < NodesCount THEN x ELSE x - NodesCount
        BY <3>1, <4>1, OneTurn
      <4> QED
        BY <4>1, <4>2
    <3> QED
      BY <3>2, <3>3 DEF x
  <2>2. OnRing(k) \in Issuer
    BY <2>1
  <2>3. DRR!RingDistance(OnRing(k)) =
            IF OnRing(k) - roundRobin < 0 THEN OnRing(k) - roundRobin + NodesCount
            ELSE OnRing(k) - roundRobin
    BY <2>2, OneTurn DEF DRR!RingDistance
  <2> QED
    BY <2>1, <2>2, <2>3
<1>2. ASSUME NEW i \in Issuer
      PROVE  DRR!RingDistance(i) \in 0 .. NodesCount - 1 /\ OnRing(DRR!RingDistance(i)) = i
  <2>1. DRR!RingDistance(i) = IF i - roundRobin < 0 THEN i - roundRobin + NodesCount
                               ELSE i - roundRobin
    <3> DEFINE x == i - roundRobin
    <3>1. x \in Int /\ 0 <= x + NodesCount /\ x < NodesCount
      OBVIOUS
    <3>2. DRR!RingDistance(i) = x % NodesCount
      BY DEF DRR!RingDistance
    <3> HIDE DEF x
    <3>3. x % NodesCount = IF x < 0 THEN x + NodesCount ELSE x
      <4>1. x < NodesCount + NodesCount
        BY <3>1
      <4> HIDE DEF Issuer
      <4> QED
        BY <3>1, <4>1, OneTurn
    <3> QED
      BY <3>2, <3>3 DEF x
  <2>2. DRR!RingDistance(i) \in 0 .. NodesCount - 1
    BY <2>1
  <2>3. OnRing(DRR!RingDistance(i)) =
            IF roundRobin + DRR!RingDistance(i) < NodesCount
            THEN roundRobin + DRR!RingDistance(i)
            ELSE roundRobin + DRR!RingDistance(i) - NodesCount
    BY <2>2, OneTurn DEF OnRing
  <2> QED
    BY <2>1, <2>2, <2>3
<1> QED
  BY <1>1, <1>2

\* Fractions, compared by products, are ordered.
LEMMA FractionOrder ==
    ASSUME NEW a \in Nat, NEW b \in Nat, NEW c \in Nat,
           NEW p \in Nat \ {0}, NEW q \in Nat \ {0}, NEW r \in Nat \ {0},
           a * q < b * p, ~(c * q < b * r)
    PROVE  a * r < c * p
<1>1. a * q + 1 <= b * p /\ b * r <= c * q
  BY TimesNat
<1>2. \A x, y, z \in Nat : x <= y => x * z <= y * z
  BY Z3
<1>3. /\ (a * q + 1) * r <= (b * p) * r
      /\ (b * r) * p <= (c * q) * p
  BY <1>1, <1>2, TimesNat
<1>4. \A x, y, z \in Nat : (x * y) * z = (x * z) * y /\ (x * y + 1) * z = (x * z) * y + z
  BY Z3
<1>5. (a * r) * q + r <= (b * p) * r /\ (b * r) * p <= (c * p) * q /\ (b * p) * r = (b * r) * p
  BY <1>3, <1>4
<1> DEFINE s == a * r
           t == c * p
<1>6. s \in Nat /\ t \in Nat /\ s * q \in Nat /\ t * q \in Nat
  BY TimesNat
<1>7. s * q + r <= t * q
  <2>1. (b * p) * r \in Nat
    BY TimesNat
  <2> QED
    BY <1>5, <1>6, <2>1
<1>8. \A x, y, z \in Nat : y <= x => y * z <= x * z
  BY Z3
<1> HIDE DEF s, t
<1>9. ~(t <= s)
  <2>1. t <= s => t * q <= s * q
    BY <1>6, <1>8
  <2> QED
    BY <1>6, <1>7, <2>1
<1>10. s < t
  BY <1>6, <1>9
<1> QED
  BY <1>10 DEF s, t

LEMMA RoundsOrder ==
    ASSUME deficits \in [Issuer -> Int], NEW i \in Issuer, NEW j \in Issuer, NEW k \in Issuer,
           InRange, RoundsLess(i, j), ~RoundsLess(k, j)
    PROVE  RoundsLess(i, k)
<1>1. Need(i) \in Nat /\ Need(j) \in Nat /\ Need(k) \in Nat
  BY WorkAssumption, MaxDeficitAssumption DEF Need, InRange
<1>2. Quantum[i] \in Nat \ {0} /\ Quantum[j] \in Nat \ {0} /\ Quantum[k] \in Nat \ {0}
  BY QuantumAssumption
<1>3. Need(i) * Quantum[j] < Need(j) * Quantum[i] /\ ~(Need(k) * Quantum[j] < Need(j) * Quantum[k])
  BY DEF RoundsLess
<1> QED
  BY <1>1, <1>2, <1>3, FractionOrder DEF RoundsLess

\* The best issuer that selectIssuer has seen after k issuers: the recursive
\* function of SelectIssuer, and that there is one.
IsBest(best) ==
    best = [k \in 0 .. NodesCount |->
               IF k = 0 THEN -1
               ELSE LET i == OnRing(k - 1)
                    IN  IF IssuerQueueLen(i) > 0 /\ (best[k - 1] = -1 \/ RoundsLess(i, best[k - 1]))
                        THEN i ELSE best[k - 1]]

LEMMA BestExists ==
    ASSUME roundRobin \in Issuer
    PROVE  \E best \in [0 .. NodesCount -> Issuer \cup {-1}] :
              IsBest(best) /\ SelectIssuer = best[NodesCount]
<1> DEFINE V == Issuer \cup {-1}
           next(k, b) == IF IssuerQueueLen(OnRing(k - 1)) > 0 /\ (b = -1 \/ RoundsLess(OnRing(k - 1), b))
                         THEN OnRing(k - 1) ELSE b
           h == [k \in 1 .. NodesCount |-> [b \in V |-> next(k, b)]]
<1>0. NodesCount \in Nat
  BY NodesCountAssumption
<1>1. \A k \in 1 .. NodesCount : OnRing(k - 1) \in Issuer
  <2> SUFFICES ASSUME NEW k \in 1 .. NodesCount PROVE OnRing(k - 1) \in Issuer
    OBVIOUS
  <2>1. k - 1 \in 0 .. NodesCount - 1
    BY <1>0
  <2> QED
    BY <2>1, RingOnce
<1>2. h \in [1 .. NodesCount -> [V -> V]]
  BY <1>1
<1>3. \A k \in 1 .. NodesCount, b \in V : h[k][b] = next(k, b)
  OBVIOUS
<1> DEFINE none == -1
<1>4. none \in V
  OBVIOUS
<1> HIDE DEF V, h, next, none
<1>5. PICK g \in [0 .. NodesCount -> V] : Stepwise(g, none, h, NodesCount)
  BY <1>0, <1>2, <1>4, NumberRecursion
<1>6. \A k \in 1 .. NodesCount : g[k] = next(k, g[k - 1])
  <2> SUFFICES ASSUME NEW k \in 1 .. NodesCount PROVE g[k] = next(k, g[k - 1])
    OBVIOUS
  <2>1. g[k - 1] \in V
    BY <1>0
  <2> QED
    BY <1>3, <1>5, <2>1 DEF Stepwise
<1>7. g = [k \in 0 .. NodesCount |-> IF k = 0 THEN -1 ELSE next(k, g[k - 1])]
  <2>1. g[0] = -1
    BY <1>5 DEF Stepwise, none
  <2>2. \A k \in 0 .. NodesCount : k = 0 \/ k \in 1 .. NodesCount
    BY <1>0
  <2> QED
    BY <1>6, <2>1, <2>2
<1>8. IsBest(g)
  BY <1>7 DEF IsBest, next
<1> DEFINE best == CHOOSE b : IsBest(b)
<1>9. IsBest(best)
  BY <1>8
<1>10. SelectIssuer = best[NodesCount]
  BY DEF SelectIssuer, IsBest
<1> HIDE DEF best
<1>11. best = g
  <2> DEFINE G == {k \in 0 .. NodesCount : best[k] = g[k]}
  <2>1. 0 \in G
    BY <1>0, <1>8, <1>9 DEF IsBest
  <2>2. ASSUME NEW n \in 0 .. NodesCount, n \in G, n < NodesCount PROVE n + 1 \in G
    <3>1. n + 1 \in 0 .. NodesCount /\ n + 1 # 0 /\ (n + 1) - 1 = n /\ best[n] = g[n]
      BY <1>0, <2>2
    <3>2. best[n + 1] = next(n + 1, best[n])
      BY <1>9, <3>1 DEF IsBest, next
    <3>3. g[n + 1] = next(n + 1, g[n])
      BY <1>7, <3>1
    <3> QED
      BY <3>1, <3>2, <3>3
  <2> HIDE DEF G
  <2>4. 0 .. NodesCount \subseteq G
    BY <1>0, <2>1, <2>2, NumberInduction
  <2>5. \A k \in 0 .. NodesCount : best[k] = g[k]
    BY <2>4 DEF G
  <2>6. best = [k \in 0 .. NodesCount |-> best[k]] /\ g = [k \in 0 .. NodesCount |-> g[k]]
    <3>1. \A b : IsBest(b) => b = [k \in 0 .. NodesCount |-> b[k]]
      BY DEF IsBest
    <3> QED
      BY <1>8, <1>9, <3>1
  <2> QED
    BY <2>5, <2>6
<1> QED
  BY <1>8, <1>10, <1>11 DEF V

\* Of the first k issuers on the ring, the one at b has a message and comes
\* before all others that have one.
Waiting(j) == IssuerQueueLen(OnRing(j)) > 0
Before(b, j) ==
    \/ RoundsLess(OnRing(b), OnRing(j))
    \/ ~RoundsLess(OnRing(j), OnRing(b)) /\ b < j
FrontOf(b, k) == Waiting(b) /\ \A j \in 0 .. k - 1 : Waiting(j) /\ j # b => Before(b, j)

\* What one turn of the ring has seen.
LEMMA TurnFindsFront ==
    ASSUME deficits \in [Issuer -> Int], roundRobin \in Issuer, InRange,
           NEW best \in [0 .. NodesCount -> Issuer \cup {-1}], IsBest(best)
    PROVE  \A k \in 0 .. NodesCount :
              \/ best[k] = -1 /\ \A j \in 0 .. k - 1 : ~Waiting(j)
              \/ \E b \in 0 .. k - 1 : best[k] = OnRing(b) /\ FrontOf(b, k)
<1> DEFINE Seen(k) == \/ best[k] = -1 /\ \A j \in 0 .. k - 1 : ~Waiting(j)
                      \/ \E b \in 0 .. k - 1 : best[k] = OnRing(b) /\ FrontOf(b, k)
           G == {k \in 0 .. NodesCount : Seen(k)}
<1>0. NodesCount \in Nat
  BY NodesCountAssumption
<1>1. best[0] = -1
  BY <1>0 DEF IsBest
<1>2. 0 \in G
  BY <1>0, <1>1
<1>3. ASSUME NEW n \in 0 .. NodesCount, n \in G, n < NodesCount PROVE n + 1 \in G
  <2> DEFINE i == OnRing(n)
  <2>1. /\ n + 1 \in 0 .. NodesCount /\ n + 1 # 0 /\ (n + 1) - 1 = n /\ n \in 0 .. NodesCount - 1
        /\ \A j \in 0 .. n : j \in 0 .. NodesCount - 1 /\ (j = n \/ j \in 0 .. n - 1)
    BY <1>0, <1>3
  <2>2. best[n + 1] = IF Waiting(n) /\ (best[n] = -1 \/ RoundsLess(i, best[n])) THEN i ELSE best[n]
    BY <2>1 DEF IsBest, Waiting
  <2>3. \A j \in 0 .. n : OnRing(j) \in Issuer
    BY <2>1, RingOnce
  <2>4. i # -1
    BY <2>1, <2>3 DEF Issuer
  <2>5. Seen(n)
    BY <1>3
  <2>6. ASSUME best[n] = -1, \A j \in 0 .. n - 1 : ~Waiting(j) PROVE Seen(n + 1)
    <3>1. CASE Waiting(n)
      <4>1. best[n + 1] = OnRing(n) /\ n \in 0 .. (n + 1) - 1
        BY <2>1, <2>2, <2>6, <3>1
      <4>2. FrontOf(n, n + 1)
        BY <2>1, <2>6, <3>1 DEF FrontOf
      <4> QED
        BY <4>1, <4>2
    <3>2. CASE ~Waiting(n)
      BY <2>1, <2>2, <2>6, <3>2
    <3> QED
      BY <3>1, <3>2
  <2>7. ASSUME NEW b \in 0 .. n - 1, best[n] = OnRing(b), FrontOf(b, n) PROVE Seen(n + 1)
    <3>0. b \in 0 .. n /\ b < n /\ OnRing(b) \in Issuer /\ OnRing(b) # -1 /\ i \in Issuer
      BY <2>1, <2>3 DEF Issuer
    <3>1. CASE Waiting(n) /\ RoundsLess(i, best[n])
      <4>1. best[n + 1] = OnRing(n) /\ n \in 0 .. (n + 1) - 1
        BY <2>1, <2>2, <3>1
      <4>2. ASSUME NEW j \in 0 .. n, Waiting(j), j # n PROVE Before(n, j)
        <5>1. j = b \/ ~RoundsLess(OnRing(j), OnRing(b))
          <6>1. CASE j # b
            <7>1. Before(b, j)
              BY <2>1, <2>7, <4>2, <6>1 DEF FrontOf
            <7>2. ~RoundsLess(OnRing(j), OnRing(b)) \/ RoundsLess(OnRing(b), OnRing(j))
              BY <7>1 DEF Before
            <7>3. \A k \in Issuer : Need(k) \in Nat /\ Quantum[k] \in Nat
              BY QuantumAssumption, WorkAssumption DEF Need
            <7>4. OnRing(j) \in Issuer
              BY <2>3
            <7>5. Need(OnRing(b)) * Quantum[OnRing(j)] \in Nat /\ Need(OnRing(j)) * Quantum[OnRing(b)] \in Nat
              BY <3>0, <7>3, <7>4, TimesNat
            <7> QED
              BY <7>2, <7>5 DEF RoundsLess
          <6> QED
            BY <6>1
        <5>2. RoundsLess(OnRing(n), OnRing(j))
          BY <2>3, <2>7, <3>0, <3>1, <5>1, RoundsOrder
        <5> QED
          BY <5>2 DEF Before
      <4>3. FrontOf(n, n + 1)
        BY <2>1, <3>1, <4>2 DEF FrontOf
      <4> QED
        BY <4>1, <4>3
    <3>2. CASE ~(Waiting(n) /\ RoundsLess(i, best[n]))
      <4>1. best[n + 1] = OnRing(b) /\ b \in 0 .. (n + 1) - 1
        BY <2>1, <2>2, <2>7, <3>0, <3>2
      <4>2. ASSUME NEW j \in 0 .. n, Waiting(j), j # b PROVE Before(b, j)
        <5>1. CASE j = n
          BY <2>7, <3>0, <3>2, <4>2, <5>1 DEF Before
        <5>2. CASE j # n
          BY <2>1, <2>7, <4>2, <5>2 DEF FrontOf
        <5> QED
          BY <5>1, <5>2
      <4>3. FrontOf(b, n + 1)
        BY <2>1, <2>7, <4>2 DEF FrontOf
      <4> QED
        BY <4>1, <4>3
    <3> QED
      BY <3>1, <3>2
  <2> QED
    BY <2>1, <2>5, <2>6, <2>7
<1> HIDE DEF G
<1>4. 0 .. NodesCount \subseteq G
  BY <1>0, <1>2, <1>3, NumberInduction
<1> QED
  BY <1>4 DEF G

\* The issuer that selectIssuer returns is the next one of the round robin.
LEMMA SelectsNext ==
    ASSUME deficits \in [Issuer -> Int], roundRobin \in Issuer, InRange,
           SelectIssuer \in Issuer
    PROVE  DRR!IsNext(SelectIssuer)
<1> DEFINE s == SelectIssuer
<1>0. NodesCount \in Nat
  BY NodesCountAssumption
<1>1. PICK best \in [0 .. NodesCount -> Issuer \cup {-1}] : IsBest(best) /\ s = best[NodesCount]
  BY BestExists
<1>2. s # -1
  BY <1>0 DEF Issuer
<1>3. PICK b \in 0 .. NodesCount - 1 : s = OnRing(b) /\ FrontOf(b, NodesCount)
  <2>1. NodesCount \in 0 .. NodesCount
    BY <1>0
  <2> QED
    BY <1>1, <1>2, <2>1, TurnFindsFront
<1>4. DRR!Backlogged = {i \in Issuer : IssuerQueueLen(i) > 0}
  BY DEF DRR!Backlogged, DRR!Issuer, Issuer
<1>5. /\ \A i, j : DRR!Sooner(i, j) <=> RoundsLess(i, j)
      /\ \A i : DRR!RingDistance(i) = DRR!RingDistance(i)
  BY DEF DRR!Sooner, RoundsLess, DRR!Need, Need, DRR!RingDistance, DRR!RingDistance
<1>6. s \in DRR!Backlogged /\ DRR!RingDistance(s) = b
  BY <1>3, <1>4, <1>5, RingOnce DEF FrontOf, Waiting
<1>7. ASSUME NEW i \in DRR!Backlogged \ {s}
      PROVE  \/ DRR!Sooner(s, i)
             \/ ~DRR!Sooner(i, s) /\ DRR!RingDistance(s) < DRR!RingDistance(i)
  <2> DEFINE j == DRR!RingDistance(i)
  <2>1. i \in Issuer /\ j \in 0 .. NodesCount - 1 /\ OnRing(j) = i
    BY <1>4, <1>5, RingOnce
  <2>2. Waiting(j) /\ j # b
    BY <1>3, <1>4, <2>1 DEF Waiting
  <2>3. Before(b, j)
    BY <1>3, <2>1, <2>2 DEF FrontOf
  <2>4. RoundsLess(s, i) \/ (~RoundsLess(i, s) /\ b < j)
    BY <1>3, <2>1, <2>3 DEF Before
  <2>5. /\ DRR!Sooner(s, i) <=> RoundsLess(s, i)
        /\ DRR!Sooner(i, s) <=> RoundsLess(i, s)
    BY <1>5
  <2> HIDE DEF s
  <2> QED
    BY <1>6, <2>4, <2>5
<1> QED
  BY <1>6, <1>7 DEF DRR!IsNext

-----------------------------------------------------------------------------
(* The scheduler implements the round robin *)

LEMMA QueueFinite ==
    ASSUME TypeOK, NEW i
    PROVE  /\ Queue(i) \in SUBSET Message /\ IsFiniteSet(Queue(i))
           /\ IssuerQueueLen(i) \in 0 .. Cardinality(Message)
<1>1. Queue(i) \in SUBSET Message
  BY DEF Queue, TypeOK
<1>2. IsFiniteSet(Message) /\ IsFiniteSet(Queue(i))
  BY <1>1, MessageAssumption, FS_Subset
<1>3. Cardinality(Queue(i)) <= Cardinality(Message)
  BY <1>1, <1>2, FS_Subset
<1> QED
  BY <1>1, <1>2, <1>3, FS_CardinalityType DEF IssuerQueueLen

LEMMA LengthsNext ==
    ASSUME TypeOK'
    PROVE  \A i \in Issuer : IssuerQueueLen(i)' \in 0 .. Cardinality(Message)
<1> TAKE i \in Issuer
<1>1. Queue(i)' \in SUBSET Message /\ IsFiniteSet(Message)
  BY MessageAssumption DEF Queue, TypeOK
<1>2. IsFiniteSet(Queue(i)') /\ Cardinality(Queue(i)') <= Cardinality(Message)
  BY <1>1, FS_Subset
<1> QED
  BY <1>1, <1>2, FS_CardinalityType DEF IssuerQueueLen

\* A queue from which at most one message was taken is shorter by one at most.
LEMMA QueueTake ==
    ASSUME TypeOK, TypeOK', NEW i, NEW m, Queue(i) \ {m} \subseteq Queue(i)'
    PROVE  /\ IssuerQueueLen(i)' >= IssuerQueueLen(i) - 1
           /\ m \notin Queue(i) => IssuerQueueLen(i)' >= IssuerQueueLen(i)
<1>1. IsFiniteSet(Queue(i)) /\ IsFiniteSet(Queue(i)')
  BY QueueFinite, MessageAssumption, FS_Subset DEF Queue, TypeOK
<1>2. Cardinality(Queue(i) \ {m}) = IF m \in Queue(i) THEN Cardinality(Queue(i)) - 1
                                    ELSE Cardinality(Queue(i))
  BY <1>1, FS_RemoveElement
<1>3. Cardinality(Queue(i) \ {m}) <= Cardinality(Queue(i)')
  BY <1>1, FS_Subset
<1>4. Cardinality(Queue(i)) \in Nat /\ Cardinality(Queue(i)') \in Nat
  BY <1>1, FS_CardinalityType
<1> QED
  BY <1>2, <1>3, <1>4 DEF IssuerQueueLen

Lengths == [i \in Issuer |-> IssuerQueueLen(i)]

LEMMA InitImplements == Init => DRR!RingInit
<1> SUFFICES ASSUME Init PROVE DRR!RingInit
  OBVIOUS
<1>1. \A i \in Issuer : IssuerQueueLen(i) = 0
  <2> SUFFICES ASSUME NEW i \in Issuer PROVE IssuerQueueLen(i) = 0
    OBVIOUS
  <2>1. Queue(i) = {}
    BY DEF Init, Queue
  <2> QED
    BY <2>1, FS_EmptySet DEF IssuerQueueLen
<1> QED
  BY <1>1 DEF Init, DRR!RingInit, DRR!Issuer, Issuer

\* Steps that take no message from a queue.
LEMMA ArriveImplements ==
    ASSUME TypeOK, TypeOK', issued' = issued, ready \subseteq ready',
           UNCHANGED <<deficits, roundRobin>>
    PROVE  DRR!Arrive
<1>1. \A i \in Issuer : IssuerQueueLen(i)' \in 0 .. Cardinality(Message)
  BY LengthsNext
<1>2. \A i \in Issuer : IssuerQueueLen(i)' >= IssuerQueueLen(i) - 0
  <2> TAKE i \in Issuer
  <2>1. Queue(i) \subseteq Queue(i)' /\ 0 \notin Queue(i)
    BY MessageAssumption DEF Queue, TypeOK
  <2>2. IssuerQueueLen(i)' >= IssuerQueueLen(i)
    BY <2>1, QueueTake
  <2> QED
    BY <2>2, QueueFinite
<1> QED
  BY <1>1, <1>2 DEF DRR!Arrive, DRR!Arrivals, DRR!Nothing, DRR!Issuer, Issuer

\* BufferManagement takes one message from one queue.
LEMMA DropImplements ==
    ASSUME TypeOK, TypeOK', NEW m \in Message, DropHead(m)
    PROVE  DRR!Drop(issued[m].issuer)
<1> DEFINE s == issued[m].issuer
<1>1. /\ m \in ready /\ ready' = ready \ {m} /\ issued' = issued
      /\ UNCHANGED <<deficits, roundRobin>> /\ s \in Issuer /\ s' = s
  BY DEF DropHead, IsHead, TypeOK, Content
<1>2. \A i \in Issuer : Queue(i)' = IF i = s THEN Queue(i) \ {m} ELSE Queue(i)
  BY <1>1 DEF Queue
<1>3. m \in Queue(s) /\ IsFiniteSet(Queue(s))
  BY <1>1, QueueFinite DEF Queue
<1>4. IssuerQueueLen(s)' = IssuerQueueLen(s) - 1 /\ IssuerQueueLen(s) > 0
  <2>1. Cardinality(Queue(s) \ {m}) = Cardinality(Queue(s)) - 1
    BY <1>3, FS_RemoveElement
  <2>2. Cardinality(Queue(s)) \in Nat /\ Cardinality(Queue(s) \ {m}) \in Nat
    BY <1>3, FS_RemoveElement, FS_CardinalityType
  <2>3. Queue(s)' = Queue(s) \ {m}
    BY <1>1, <1>2
  <2> QED
    BY <2>1, <2>2, <2>3 DEF IssuerQueueLen
<1>5. \A i \in Issuer : i # s => IssuerQueueLen(i)' = IssuerQueueLen(i)
  BY <1>2 DEF IssuerQueueLen
<1> HIDE DEF s
<1>6. Lengths[s] > 0 /\ Lengths' = [Lengths EXCEPT ![s] = @ - 1]
  <2>1. s \in Issuer
    BY <1>1
  <2>2. Lengths[s] = IssuerQueueLen(s)
    BY <2>1 DEF Lengths
  <2>3. Lengths' = [i \in Issuer |-> IssuerQueueLen(i)']
    BY DEF Lengths
  <2>4. [Lengths EXCEPT ![s] = @ - 1]
           = [i \in Issuer |-> IF i = s THEN Lengths[s] - 1 ELSE IssuerQueueLen(i)]
    BY DEF Lengths
  <2>5. IssuerQueueLen(s)' = Lengths[s] - 1 /\ s' = s
    BY <1>1, <1>4, <2>2
  <2>6. \A i \in Issuer :
           IssuerQueueLen(i)' = IF i = s THEN Lengths[s] - 1 ELSE IssuerQueueLen(i)
    BY <1>5, <2>5
  <2> QED
    BY <1>4, <2>2, <2>3, <2>4, <2>6
<1> QED
  BY <1>1, <1>6 DEF DRR!Drop, Lengths, s

\* ScheduleMessage serves the issuer of the message, and what updateChildrenReady
\* then moves to the queues arrives in the same step.
LEMMA ServeImplements ==
    ASSUME TypeOK, TypeOK', InRange, NEW m \in Message, ScheduleMessage(m)
    PROVE  DRR!Serve(issued[m].issuer)
<1> DEFINE s == issued[m].issuer
<1>1. /\ m \in ready /\ ready \ {m} \subseteq ready' /\ issued' = issued
      /\ s \in Issuer /\ s = SelectIssuer
      /\ deficits' = DeficitsAfter(s) /\ roundRobin' = s
  BY DEF ScheduleMessage, IsHead, TypeOK, Content
<1>2. deficits \in [Issuer -> Int] /\ roundRobin \in Issuer
  BY DEF TypeOK
<1>3. DRR!IsNext(s)
  BY <1>1, <1>2, SelectsNext
<1>4. deficits' = DRR!DeficitsAfter(s)
  <2>1. DeficitsAfter(s) = DRR!DeficitsAfter(s)
    BY <1>1, <1>2, SameDeficits
  <2>2. DRR!DeficitsAfter(s) = DRR!DeficitsAfter(s)
    BY DEF DRR!DeficitsAfter, DRR!DeficitsAfter, DRR!Issuer, DRR!Issuer, DRR!Capped,
           DRR!Capped, DRR!Need, DRR!Need, DRR!RingDistance, DRR!RingDistance
  <2> QED
    BY <1>1, <2>1, <2>2
<1>5. \A i \in Issuer :
         IssuerQueueLen(i)' >= IssuerQueueLen(i) - (IF i = s THEN 1 ELSE 0)
  <2> TAKE i \in Issuer
  <2>1. Queue(i) \ {m} \subseteq Queue(i)' /\ (i # s => m \notin Queue(i))
    BY <1>1 DEF Queue
  <2>2. /\ IssuerQueueLen(i)' >= IssuerQueueLen(i) - 1
        /\ i # s => IssuerQueueLen(i)' >= IssuerQueueLen(i)
    BY <2>1, QueueTake
  <2> QED
    BY <2>2, QueueFinite
<1>6. \A i \in Issuer : IssuerQueueLen(i)' \in 0 .. Cardinality(Message)
  BY LengthsNext
<1> HIDE DEF s
<1>7. DRR!Arrivals(DRR!OneOf(s))
  BY <1>5, <1>6 DEF DRR!Arrivals, DRR!OneOf, DRR!Issuer, Issuer
<1> QED
  BY <1>1, <1>3, <1>4, <1>7 DEF DRR!Serve, s

LEMMA StepImplements ==
    IInv /\ InRange /\ IInv' /\ [Next]_vars => [DRR!RingNext]_(DRR!ringVars)
<1> SUFFICES ASSUME IInv, InRange, IInv', [Next]_vars
             PROVE  DRR!RingNext \/ UNCHANGED DRR!ringVars
  OBVIOUS
<1>0. TypeOK /\ TypeOK' /\ DRR!Issuer = Issuer
  BY DEF IInv, DRR!Issuer, Issuer
<1>1. ASSUME UNCHANGED <<issued, ready, deficits, roundRobin>>
      PROVE  UNCHANGED DRR!ringVars
  <2>1. \A i \in Issuer : IssuerQueueLen(i)' = IssuerQueueLen(i)
    BY <1>1 DEF IssuerQueueLen, Queue
  <2> QED
    BY <1>1, <2>1 DEF DRR!ringVars
<1>2. ASSUME NEW m \in Message, EnqueueMessage(m) \/ Confirm(m) PROVE DRR!RingNext
  <2>1. issued' = issued /\ ready \subseteq ready' /\ UNCHANGED <<deficits, roundRobin>>
    BY <1>2 DEF EnqueueMessage, Confirm
  <2> QED
    BY <1>0, <2>1, ArriveImplements DEF DRR!RingNext
<1>3. ASSUME NEW m \in Message, DropHead(m) PROVE DRR!RingNext
  <2>1. issued[m].issuer \in Issuer
    BY <1>0 DEF TypeOK, Content
  <2> QED
    BY <1>0, <1>3, <2>1, DropImplements DEF DRR!RingNext
<1>4. ASSUME NEW m \in Message, ScheduleMessage(m) PROVE DRR!RingNext
  <2>1. issued[m].issuer \in Issuer
    BY <1>0 DEF TypeOK, Content
  <2> QED
    BY <1>0, <1>4, <2>1, ServeImplements DEF DRR!RingNext
<1>5. ASSUME NEW m \in Message, BecomeInvalid(m) PROVE UNCHANGED DRR!ringVars
  BY <1>1, <1>5 DEF BecomeInvalid
<1>6. CASE BufferTrimmed \/ UNCHANGED vars
  BY <1>1, <1>6 DEF BufferTrimmed, vars
<1> QED
  BY <1>2, <1>3, <1>4, <1>5, <1>6 DEF Next

\* The queues of the scheduler, whatever arrives, is confirmed or dropped in
\* between, are served as DeficitRoundRobin promises: selectIssuer, its ring and
\* the three calls of incrementDeficit together are the closed form of the round
\* robin.
THEOREM RefinesRoundRobin == Spec => ImplementsRoundRobin
  BY InitImplements, StepImplements, InRangeInvariance, PTL
     DEF Spec, ImplementsRoundRobin, DRR!RingSpec

-----------------------------------------------------------------------------
(* Whom buffer management takes from *)

\* The recursive function of SumOf, and its equations.
LEMMA SumSteps ==
    ASSUME NEW f \in [Issuer -> Nat]
    PROVE  \E sum \in [0 .. NodesCount -> Nat] :
              /\ sum[0] = 0 /\ SumOf(f) = sum[NodesCount]
              /\ \A k \in 1 .. NodesCount : sum[k] = sum[k - 1] + f[k - 1]
<1> DEFINE IsSum(g) == g = [k \in 0 .. NodesCount |-> IF k = 0 THEN 0 ELSE g[k - 1] + f[k - 1]]
           h == [k \in 1 .. NodesCount |-> [x \in Nat |-> x + f[k - 1]]]
           zero == 0
<1>0. NodesCount \in Nat /\ zero \in Nat /\ \A k \in 1 .. NodesCount : k - 1 \in Issuer
  BY NodesCountAssumption DEF Issuer
<1>1. h \in [1 .. NodesCount -> [Nat -> Nat]]
  BY <1>0
<1>2. \A k \in 1 .. NodesCount, x \in Nat : h[k][x] = x + f[k - 1]
  OBVIOUS
<1> HIDE DEF h, zero
<1>3. PICK g \in [0 .. NodesCount -> Nat] : Stepwise(g, zero, h, NodesCount)
  BY <1>0, <1>1, NumberRecursion
<1>4. g[0] = 0 /\ \A k \in 1 .. NodesCount : g[k] = g[k - 1] + f[k - 1]
  <2>1. \A k \in 1 .. NodesCount : g[k - 1] \in Nat
    BY <1>0
  <2> QED
    BY <1>2, <1>3, <2>1 DEF Stepwise, zero
<1>5. IsSum(g)
  <2>1. \A k \in 0 .. NodesCount : k = 0 \/ k \in 1 .. NodesCount
    BY <1>0
  <2> QED
    BY <1>4, <2>1
<1> DEFINE sum == CHOOSE g2 : IsSum(g2)
<1>6. SumOf(f) = sum[NodesCount]
  BY DEF SumOf
<1>7. IsSum(sum)
  BY <1>5
<1> HIDE DEF sum
<1>8. sum[0] = 0 /\ \A k \in 1 .. NodesCount : sum[k] = sum[k - 1] + f[k - 1]
  <2>1. \A k \in 1 .. NodesCount : k \in 0 .. NodesCount /\ k # 0
    BY <1>0
  <2> QED
    BY <1>0, <1>7, <2>1
<1> DEFINE G == {k \in 0 .. NodesCount : sum[k] = g[k]}
<1>9. 0 \in G
  BY <1>0, <1>4, <1>8
<1>10. ASSUME NEW n \in 0 .. NodesCount, n \in G, n < NodesCount PROVE n + 1 \in G
  <2>1. n + 1 \in 1 .. NodesCount /\ n + 1 \in 0 .. NodesCount /\ (n + 1) - 1 = n
    BY <1>0, <1>10
  <2> QED
    BY <1>4, <1>8, <1>10, <2>1
<1> HIDE DEF G
<1>11. 0 .. NodesCount \subseteq G
  BY <1>0, <1>9, <1>10, NumberInduction
<1>12. SumOf(f) = g[NodesCount]
  BY <1>0, <1>6, <1>11 DEF G
<1> QED
  BY <1>4, <1>12

\* If the queue of i is the longest for its quantum, it has its share of the
\* whole buffer at least: the shares add up to the buffer.
LEMMA LongestHasShare ==
    ASSUME TypeOK, NEW i \in Issuer, Longest(i)
    PROVE  IssuerQueueLen(i) * SumOf(Quantum) >= Cardinality(ready) * Quantum[i]
<1> DEFINE Part(k) == {m \in ready : issued[m].issuer < k}
           c(k) == Cardinality(Part(k))
           l == IssuerQueueLen(i)
           q == Quantum[i]
<1>0. NodesCount \in Nat /\ Quantum \in [Issuer -> Nat] /\ q \in Nat \ {0}
  BY NodesCountAssumption, QuantumAssumption
<1>1. PICK sum \in [0 .. NodesCount -> Nat] :
         /\ sum[0] = 0 /\ SumOf(Quantum) = sum[NodesCount]
         /\ \A k \in 1 .. NodesCount : sum[k] = sum[k - 1] + Quantum[k - 1]
  BY <1>0, SumSteps
<1>2. IsFiniteSet(ready) /\ \A m \in ready : issued[m].issuer \in Issuer
  <2>1. ready \subseteq Message /\ issued \in [Message -> Content]
    BY DEF TypeOK
  <2> QED
    BY <2>1, MessageAssumption, FS_Subset DEF Content
<1>3. \A k : IsFiniteSet(Part(k)) /\ c(k) \in Nat
  BY <1>2, FS_Subset, FS_CardinalityType
<1>4. \A j \in Issuer : IssuerQueueLen(j) \in Nat
  BY QueueFinite, MessageAssumption, FS_CardinalityType
<1>5. \A j \in Issuer : l * Quantum[j] >= IssuerQueueLen(j) * q
  <2> TAKE j \in Issuer
  <2>1. l * Quantum[j] \in Nat /\ IssuerQueueLen(j) * q \in Nat
    BY <1>0, <1>4, TimesNat
  <2>2. \/ l * Quantum[j] > IssuerQueueLen(j) * q
        \/ l * Quantum[j] = IssuerQueueLen(j) * q
    BY DEF Longest
  <2> QED
    BY <2>1, <2>2
<1> DEFINE G == {k \in 0 .. NodesCount : l * sum[k] >= c(k) * q}
<1>6. 0 \in G
  <2>1. Part(0) = {}
    BY <1>2 DEF Issuer
  <2>2. c(0) = 0
    BY <2>1, FS_EmptySet
  <2>3. l * sum[0] = 0 /\ c(0) * q = 0
    BY <1>0, <1>1, <1>4, <2>2
  <2> QED
    BY <1>0, <2>3
<1>7. ASSUME NEW n \in 0 .. NodesCount, n \in G, n < NodesCount PROVE n + 1 \in G
  <2>1. /\ n + 1 \in 1 .. NodesCount /\ n + 1 \in 0 .. NodesCount /\ (n + 1) - 1 = n
        /\ n \in Issuer
    BY <1>0, <1>7 DEF Issuer
  <2>2. c(n + 1) = c(n) + IssuerQueueLen(n)
    <3>1. Part(n + 1) = Part(n) \cup Queue(n) /\ Part(n) \cap Queue(n) = {}
      BY <1>2, <2>1 DEF Queue, Issuer
    <3>2. IsFiniteSet(Queue(n)) /\ IsFiniteSet(Part(n))
      BY <1>3, QueueFinite
    <3> HIDE DEF Part
    <3>3. Cardinality(Part(n) \cup Queue(n))
             = Cardinality(Part(n)) + Cardinality(Queue(n)) - Cardinality(Part(n) \cap Queue(n))
      BY <3>2, FS_Union
    <3>4. Cardinality(Part(n) \cap Queue(n)) = 0
      BY <3>1, FS_EmptySet
    <3>5. Cardinality(Part(n)) \in Nat /\ Cardinality(Queue(n)) \in Nat
      BY <3>2, FS_CardinalityType
    <3>6. c(n + 1) = Cardinality(Part(n) \cup Queue(n))
      BY <3>1, Zenon
    <3> QED
      BY <3>3, <3>4, <3>5, <3>6 DEF IssuerQueueLen
  <2>3. sum[n + 1] = sum[n] + Quantum[n]
    BY <1>1, <2>1
  <2> DEFINE a == sum[n]
             b == Quantum[n]
             d == IssuerQueueLen(n)
             e == c(n)
  <2>4. /\ l \in Nat /\ a \in Nat /\ b \in Nat /\ d \in Nat /\ e \in Nat
        /\ l * a >= e * q /\ l * b >= d * q
    BY <1>0, <1>1, <1>3, <1>4, <1>5, <1>7, <2>1
  <2>5. sum[n + 1] = a + b /\ c(n + 1) = e + d
    BY <2>2, <2>3
  <2> HIDE DEF a, b, d, e, l, q, c
  <2>6. \A x, y, z \in Nat : x * (y + z) = x * y + x * z /\ (y + z) * x = y * x + z * x
    BY Z3
  <2>7. l * (a + b) = l * a + l * b /\ (e + d) * q = e * q + d * q
    BY <1>0, <2>4, <2>6
  <2>8. l * a \in Nat /\ l * b \in Nat /\ e * q \in Nat /\ d * q \in Nat
    BY <1>0, <2>4, TimesNat
  <2>9. l * (a + b) >= (e + d) * q
    BY <2>4, <2>7, <2>8
  <2>10. l * sum[n + 1] >= c(n + 1) * q
    BY <2>5, <2>9
  <2> QED
    BY <2>1, <2>10
<1>8. 0 .. NodesCount \subseteq G
  <2> HIDE DEF G
  <2> QED
    BY <1>0, <1>6, <1>7, NumberInduction
<1>9. Part(NodesCount) = ready
  BY <1>2, <1>0 DEF Issuer
<1>10. l * sum[NodesCount] >= c(NodesCount) * q
  BY <1>0, <1>8
<1>11. c(NodesCount) = Cardinality(ready)
  BY <1>9, Zenon
<1> HIDE DEF c
<1> QED
  BY <1>1, <1>10, <1>11

LEMMA DropTakesExcess ==
    ASSUME TypeOK, NEW m \in Message, DropHead(m)
    PROVE  IssuerQueueLen(issued[m].issuer) * SumOf(Quantum) > MaxBuffer * Quantum[issued[m].issuer]
<1> DEFINE i == issued[m].issuer
           r == Cardinality(ready)
           q == Quantum[i]
           share == IssuerQueueLen(i) * SumOf(Quantum)
<1>1. i \in Issuer /\ Longest(i) /\ r > MaxBuffer
  BY DEF DropHead, TypeOK, Content
<1>2. share >= r * q
  BY <1>1, LongestHasShare
<1>3. r \in Nat /\ MaxBuffer \in Nat /\ q \in Nat \ {0}
  <2>1. ready \subseteq Message
    BY DEF TypeOK
  <2> QED
    BY <1>1, <2>1, MessageAssumption, FS_Subset, FS_CardinalityType, QuantumAssumption,
       MaxBufferAssumption
<1>4. share \in Nat
  <2>1. IssuerQueueLen(i) \in Nat
    BY <1>1, QueueFinite, MessageAssumption, FS_CardinalityType
  <2>2. SumOf(Quantum) \in Nat
    <3>1. Quantum \in [Issuer -> Nat]
      BY QuantumAssumption
    <3>2. \E sum \in [0 .. NodesCount -> Nat] : SumOf(Quantum) = sum[NodesCount]
      BY <3>1, SumSteps
    <3> QED
      BY <3>2, NodesCountAssumption
  <2> QED
    BY <2>1, <2>2, TimesNat
<1> HIDE DEF i, r, q, share
<1>5. r * q > MaxBuffer * q
  <2>1. \A x, y \in Nat, z \in Nat \ {0} : x > y => x * z > y * z
    BY Z3
  <2> QED
    BY <1>1, <1>3, <2>1
<1>6. r * q \in Nat /\ MaxBuffer * q \in Nat
  BY <1>3, TimesNat
<1>7. share > MaxBuffer * q
  BY <1>2, <1>4, <1>5, <1>6
<1> QED
  BY <1>7 DEF share, q, i

LEMMA StepDropsExcess ==
    ASSUME TypeOK, [Next]_vars, NEW m \in dropped' \ dropped
    PROVE  IssuerQueueLen(issued[m].issuer) * SumOf(Quantum) > MaxBuffer * Quantum[issued[m].issuer]
<1>1. ASSUME NEW k \in Message, DropHead(k) PROVE k = m
  BY <1>1 DEF DropHead
<1>2. PICK k \in Message : DropHead(k)
  BY DEF Next, BecomeInvalid, EnqueueMessage, ScheduleMessage, Confirm, BufferTrimmed, vars
<1> QED
  BY <1>1, <1>2, DropTakesExcess

\* Whatever the others send, an issuer loses a message to BufferManagement only
\* while it has more messages in the queues than its share of MaxBuffer, for any
\* quanta and any number of issuers.
THEOREM ExcessDropped == Spec => OnlyExcessDropped
<1>1. /\ TypeOK /\ [Next]_vars
      => [\A m \in dropped' \ dropped :
             LET i == issued[m].issuer
             IN  IssuerQueueLen(i) * SumOf(Quantum) > MaxBuffer * Quantum[i]]_vars
  BY StepDropsExcess
<1> QED
  BY <1>1, TypeCorrect, PTL DEF Spec, OnlyExcessDropped

=============================================================================
