---------------------------- MODULE ManaCostProofs ----------------------------
(***************************************************************************)
(* For any number of nodes and any limits, steps and thresholds of the     *)
(* cost: a node that came to its slots in turn keeps the cost within its   *)
(* limits, nodes that also had what they had to count agree on the costs,  *)
(* and no node computes a higher one or refuses what they paid.            *)
(* Then, about DeficitRoundRobin and Overtaking, how long a message that   *)
(* was paid for waits behind those of the others: for any number of        *)
(* issuers, quanta, work and cap, nobody sends on credit, and a waiting    *)
(* issuer is overtaken no more often than its patience says.               *)
(***************************************************************************)
EXTENDS ManaCost, Overtaking, SequenceTheorems, InductionLemmas

Created == [issuer : Node, slot : 0 .. LastSlot, burn : Nat]

\* A cost a node has computed, for one of its slots or for one ahead.
Computed(n, s) == rmc[n][s] # None

\* The inductive invariant: a slot a node has come to has a cost, no cost is
\* above the limit, and as long as the node skipped no slot, none is below.
CostInv ==
    /\ TypeOK
    /\ \A n \in Node : \A s \in slotDB[n] : Computed(n, s)
    /\ \A n \in Node : \A s \in Slot : Computed(n, s) => rmc[n][s] \in 0 .. RMCmax
    /\ \A n \in Node \ skipped : \A s \in Slot :
           Computed(n, s) => rmc[n][s] \in RMCmin .. RMCmax

USE DEF None

-----------------------------------------------------------------------------
(* Storage.NewRMC *)

\* A cost that is changed at a boundary ends within the limits if it was.
LEMMA UpdatedInRange ==
    ASSUME NEW cost \in Nat, NEW traffic \in Int
    PROVE  /\ Updated(cost, traffic) \in Nat
           /\ cost \in 0 .. RMCmax => Updated(cost, traffic) \in 0 .. RMCmax
           /\ cost \in RMCmin .. RMCmax => Updated(cost, traffic) \in RMCmin .. RMCmax
  BY CostAssumption DEF Updated

\* Missing costs count as zero.
LEMMA CostIsNat ==
    ASSUME TypeOK, NEW n \in Node, NEW s \in Slot
    PROVE  Cost(n, s) \in Nat
  BY DEF Cost, TypeOK

\* NewRMC gives the slot a cost, and touches no slot before it.
LEMMA NewRMCType ==
    ASSUME TypeOK, NEW n \in Node, NEW s \in 0 .. LastSlot
    PROVE  /\ NewRMC(n, s) \in [Slot -> Nat \cup {None}]
           /\ NewRMC(n, s)[s] # None
           /\ \A t \in Slot : rmc[n][t] # None => NewRMC(n, s)[t] # None
  <1> s \in Slot /\ Slot \subseteq Nat /\ rmc[n] \in [Slot -> Nat \cup {None}]
    BY BoundAssumption, TimeAssumption DEF Slot, TypeOK
  <1>1. CASE s = 0
    BY <1>1, CostAssumption DEF NewRMC
  <1>2. CASE s # 0 /\ IsBoundary(s)
    <2> DEFINE traffic == MessagesCount(n, s) \div RMCPeriodUpdate
               cost == Updated(Cost(n, s - 1), traffic)
    <2> HIDE DEF traffic, cost
    <2>1. s - 1 \in Slot  BY <1>2, BoundAssumption, TimeAssumption DEF Slot
    <2>2. cost \in Nat
      <3>1. Cost(n, s - 1) \in Nat  BY <2>1, CostIsNat
      <3>2. QED  BY <3>1, CostAssumption DEF cost, Updated
    <2>3. NewRMC(n, s) = [t \in Slot |-> IF t \in s .. s + RMCPeriodUpdate - 1
                                         THEN cost ELSE rmc[n][t]]
      BY <1>2 DEF NewRMC, cost, traffic
    <2>4. s \in s .. s + RMCPeriodUpdate - 1  BY TimeAssumption
    <2>5. QED  BY <2>2, <2>3, <2>4
  <1>3. CASE s # 0 /\ ~IsBoundary(s)
    <2>1. s - 1 \in Slot  BY <1>3, BoundAssumption, TimeAssumption DEF Slot
    <2>2. Cost(n, s - 1) \in Nat  BY <2>1, CostIsNat
    <2>3. NewRMC(n, s) = [rmc[n] EXCEPT ![s] = Cost(n, s - 1)]  BY <1>3 DEF NewRMC
    <2>4. QED  BY <2>2, <2>3
  <1>4. QED  BY <1>1, <1>2, <1>3

\* No cost above the limit is computed.
LEMMA NewRMCBounded ==
    ASSUME CostInv, NEW n \in Node, NEW s \in 0 .. LastSlot
    PROVE  \A t \in Slot : NewRMC(n, s)[t] # None => NewRMC(n, s)[t] \in 0 .. RMCmax
  <1> s \in Slot /\ Slot \subseteq Nat /\ rmc[n] \in [Slot -> Nat \cup {None}] /\ TypeOK
    BY BoundAssumption, TimeAssumption DEF Slot, TypeOK, CostInv
  <1>0. \A t \in Slot : rmc[n][t] # None => rmc[n][t] \in 0 .. RMCmax
    BY DEF CostInv, Computed
  <1>1. CASE s = 0
    BY <1>0, <1>1, CostAssumption DEF NewRMC
  <1>2. CASE s # 0
    <2>1. s - 1 \in Slot  BY <1>2, BoundAssumption, TimeAssumption DEF Slot
    <2>2. Cost(n, s - 1) \in 0 .. RMCmax /\ Cost(n, s - 1) \in Nat
      BY <1>0, <2>1, CostIsNat, CostAssumption DEF Cost
    <2>3. CASE IsBoundary(s)
      <3> DEFINE traffic == MessagesCount(n, s) \div RMCPeriodUpdate
                 cost == Updated(Cost(n, s - 1), traffic)
      <3>1. NewRMC(n, s) = [t \in Slot |-> IF t \in s .. s + RMCPeriodUpdate - 1
                                           THEN cost ELSE rmc[n][t]]
        BY <1>2, <2>3 DEF NewRMC
      <3> HIDE DEF traffic
      <3>2. cost \in 0 .. RMCmax
        BY <2>2, CostAssumption DEF Updated
      <3> HIDE DEF cost
      <3>3. QED  BY <1>0, <3>1, <3>2
    <2>4. CASE ~IsBoundary(s)
      <3>1. NewRMC(n, s) = [rmc[n] EXCEPT ![s] = Cost(n, s - 1)]  BY <1>2, <2>4 DEF NewRMC
      <3>2. QED  BY <1>0, <2>2, <3>1
    <2>5. QED  BY <2>3, <2>4
  <1>3. QED  BY <1>1, <1>2

\* A node that comes to its slots in turn computes a cost within the limits.
LEMMA NewRMCInRange ==
    ASSUME CostInv, NEW n \in Node \ skipped, NEW s \in 0 .. LastSlot, slotDB[n] = 0 .. s - 1
    PROVE  \A t \in Slot : NewRMC(n, s)[t] # None => NewRMC(n, s)[t] \in RMCmin .. RMCmax
  <1> s \in Slot /\ Slot \subseteq Nat /\ rmc[n] \in [Slot -> Nat \cup {None}] /\ TypeOK
    BY BoundAssumption, TimeAssumption DEF Slot, TypeOK, CostInv
  <1>0. \A t \in Slot : rmc[n][t] # None => rmc[n][t] \in RMCmin .. RMCmax
    BY DEF CostInv, Computed
  <1>1. CASE s = 0
    BY <1>0, <1>1, CostAssumption DEF NewRMC
  <1>2. CASE s # 0
    <2>1. s - 1 \in Slot  BY <1>2, BoundAssumption, TimeAssumption DEF Slot
    <2>2. Cost(n, s - 1) \in RMCmin .. RMCmax /\ Cost(n, s - 1) \in Nat
      <3>1. s - 1 \in slotDB[n]  BY <1>2
      <3>2. rmc[n][s - 1] # None  BY <3>1 DEF CostInv, Computed
      <3>3. QED  BY <1>0, <2>1, <3>2, CostIsNat DEF Cost
    <2>3. CASE IsBoundary(s)
      <3> DEFINE traffic == MessagesCount(n, s) \div RMCPeriodUpdate
                 cost == Updated(Cost(n, s - 1), traffic)
      <3>1. NewRMC(n, s) = [t \in Slot |-> IF t \in s .. s + RMCPeriodUpdate - 1
                                           THEN cost ELSE rmc[n][t]]
        BY <1>2, <2>3 DEF NewRMC
      <3> HIDE DEF traffic
      <3>2. cost \in RMCmin .. RMCmax
        BY <2>2, CostAssumption DEF Updated
      <3> HIDE DEF cost
      <3>3. QED  BY <1>0, <3>1, <3>2
    <2>4. CASE ~IsBoundary(s)
      <3>1. NewRMC(n, s) = [rmc[n] EXCEPT ![s] = Cost(n, s - 1)]  BY <1>2, <2>4 DEF NewRMC
      <3>2. QED  BY <1>0, <2>2, <3>1
    <2>5. QED  BY <2>3, <2>4
  <1>3. QED  BY <1>1, <1>2

\* What the invariant says of the slots and their costs.
CostsKept ==
    /\ \A k \in Node : \A t \in slotDB[k] : Computed(k, t)
    /\ \A k \in Node : \A t \in Slot : Computed(k, t) => rmc[k][t] \in 0 .. RMCmax
    /\ \A k \in Node \ skipped : \A t \in Slot :
           Computed(k, t) => rmc[k][t] \in RMCmin .. RMCmax

\* A node that comes to a slot has a cost for it afterwards.
LEMMA EnterKeepsCosts ==
    ASSUME CostInv, NEW n \in Node, NEW s \in 0 .. LastSlot, NEW new \in BOOLEAN,
           Enter(n, s, new), new => s \notin slotDB[n], ~new => Computed(n, s)
    PROVE  /\ slotDB' \in [Node -> SUBSET (0 .. LastSlot)]
           /\ rmc' \in [Node -> [Slot -> Nat \cup {None}]]
           /\ skipped' \subseteq Node /\ behind' \subseteq Node
           /\ rmc'[n][s] \in Nat
           /\ CostsKept'
  <1> TypeOK /\ s \in Slot
    BY BoundAssumption, TimeAssumption DEF Slot, CostInv
  <1>1. slotDB' = [slotDB EXCEPT ![n] = @ \cup {s}]  BY DEF Enter
  <1>2. rmc' = IF new THEN [rmc EXCEPT ![n] = NewRMC(n, s)] ELSE rmc  BY DEF Enter
  <1>3. skipped \subseteq skipped' /\ skipped' \subseteq Node /\ behind' \subseteq Node
    BY DEF Enter, TypeOK
  <1>4. rmc' \in [Node -> [Slot -> Nat \cup {None}]]
    BY <1>2, NewRMCType DEF TypeOK
  <1>5. rmc'[n][s] # None
    BY <1>2, NewRMCType DEF TypeOK, Computed
  <1>6. \A k \in Node, t \in Slot : Computed(k, t) => Computed(k, t)'
    BY <1>2, NewRMCType DEF TypeOK, Computed
  <1>7. \A k \in Node : \A t \in slotDB'[k] : Computed(k, t)'
    <2>1. slotDB \in [Node -> SUBSET Slot]
      BY BoundAssumption, TimeAssumption DEF TypeOK, Slot
    <2>2. QED  BY <1>1, <1>5, <1>6, <2>1 DEF CostInv, Computed
  <1>8. ASSUME NEW k \in Node \ skipped', NEW t \in Slot, Computed(k, t)'
        PROVE  rmc'[k][t] \in RMCmin .. RMCmax
    <2>1. CASE k = n /\ new
      <3>1. slotDB[n] = 0 .. s - 1  BY <1>8, <2>1 DEF Enter
      <3>2. n \in Node \ skipped  BY <1>3, <1>8, <2>1
      <3>3. rmc'[n] = NewRMC(n, s)  BY <1>2, <2>1 DEF TypeOK
      <3>4. QED  BY <1>8, <2>1, <3>1, <3>2, <3>3, NewRMCInRange DEF Computed
    <2>2. CASE k # n \/ ~new
      <3>1. rmc'[k] = rmc[k]  BY <1>2, <2>2 DEF TypeOK
      <3>2. QED  BY <1>3, <1>8, <3>1 DEF CostInv, Computed
    <2>3. QED  BY <2>1, <2>2
  <1>9. slotDB' \in [Node -> SUBSET (0 .. LastSlot)]  BY <1>1 DEF TypeOK
  <1>10. ASSUME NEW k \in Node, NEW t \in Slot, Computed(k, t)'
         PROVE  rmc'[k][t] \in 0 .. RMCmax
    <2>1. CASE k = n /\ new
      <3>1. rmc'[n] = NewRMC(n, s)  BY <1>2, <2>1 DEF TypeOK
      <3>2. QED  BY <1>10, <2>1, <3>1, NewRMCBounded DEF Computed
    <2>2. CASE k # n \/ ~new
      <3>1. rmc'[k] = rmc[k]  BY <1>2, <2>2 DEF TypeOK
      <3>2. QED  BY <1>10, <3>1 DEF CostInv, Computed
    <2>3. QED  BY <2>1, <2>2
  <1>11. CostsKept'  BY <1>7, <1>8, <1>10 DEF CostsKept
  <1>12. QED  BY <1>3, <1>4, <1>5, <1>9, <1>11

-----------------------------------------------------------------------------
(* The steps *)

LEMMA InitCostInv == Init => CostInv
  <1> SUFFICES ASSUME Init PROVE CostInv  OBVIOUS
  <1>1. TypeOK
    <2>1. issued \in Seq(Created)  BY DEF Init
    <2>2. now \in 0 .. LastSlot  BY BoundAssumption DEF Init
    <2>3. rmc \in [Node -> [Slot -> Nat \cup {None}]]  BY DEF Init
    <2>4. mana \in [Node -> Int]  BY DEF Init
    <2>5. QED  BY <2>1, <2>2, <2>3, <2>4 DEF Init, TypeOK, Created
  <1>2. QED  BY <1>1 DEF Init, CostInv, Computed

LEMMA CostInvNext == CostInv /\ [Next]_vars => CostInv'
  <1> SUFFICES ASSUME CostInv, [Next]_vars PROVE CostInv'  OBVIOUS
  <1> TypeOK /\ CostsKept  BY DEF CostInv, CostsKept
  <1> issued \in Seq(Created)  BY DEF TypeOK, Created
  <1>1. CASE AdvanceClock
    BY <1>1, BoundAssumption DEF AdvanceClock, CostInv, TypeOK, Computed
  <1>2. ASSUME NEW n \in Node, CreateMessage(n) PROVE CostInv'
    <2> now \in 0 .. LastSlot  BY DEF TypeOK
    <2>1. /\ slotDB' \in [Node -> SUBSET (0 .. LastSlot)]
          /\ rmc' \in [Node -> [Slot -> Nat \cup {None}]]
          /\ skipped' \subseteq Node /\ behind' \subseteq Node
          /\ rmc'[n][now] \in Nat
          /\ CostsKept'
      <3>1. Enter(n, now, now \notin slotDB[n])  BY <1>2 DEF CreateMessage, RMC
      <3>2. now \in slotDB[n] => Computed(n, now)  BY DEF CostsKept
      <3>3. QED  BY <3>1, <3>2, EnterKeepsCosts
    <2>2. Burned(n) \in Nat  BY <2>1 DEF Burned
    <2>3. /\ mana' \in [Node -> Int]
          /\ issued' \in Seq(Created) /\ stored' \in [Node -> SUBSET (DOMAIN issued')]
      <3>1. CASE CanPay(n, Burned(n))
        <4> DEFINE new == [issuer |-> n, slot |-> now, burn |-> Burned(n)]
        <4>1. /\ mana' = [mana EXCEPT ![n] = @ - Burned(n)]
              /\ issued' = Append(issued, new)
              /\ stored' = [stored EXCEPT ![n] = @ \cup {Len(issued) + 1}]
          BY <1>2, <3>1 DEF CreateMessage
        <4>2. new \in Created  BY <2>2 DEF Created
        <4> HIDE DEF new
        <4>3. /\ issued' \in Seq(Created) /\ DOMAIN issued \subseteq DOMAIN issued'
              /\ Len(issued) + 1 \in DOMAIN issued'
          BY <4>1, <4>2, AppendProperties
        <4>4. QED  BY <2>2, <4>1, <4>3 DEF TypeOK
      <3>2. CASE ~CanPay(n, Burned(n))
        BY <1>2, <3>2 DEF CreateMessage, TypeOK, CostInv
      <3>3. QED  BY <3>1, <3>2
    <2>4. now' = now /\ metered' = metered  BY <1>2 DEF CreateMessage
    <2>5. QED  BY <2>1, <2>3, <2>4 DEF CostInv, CostsKept, TypeOK, Created
  <1>3. ASSUME NEW n \in Node, NEW m \in DOMAIN issued, Store(n, m) PROVE CostInv'
    <2> DEFINE s == issued[m].slot
    <2> s \in 0 .. LastSlot
      <3>1. issued[m] \in Created  BY ElementOfSeq, LenProperties
      <3>2. QED  BY <3>1 DEF Created
    <2>1. /\ slotDB' \in [Node -> SUBSET (0 .. LastSlot)]
          /\ rmc' \in [Node -> [Slot -> Nat \cup {None}]]
          /\ skipped' \subseteq Node /\ behind' \subseteq Node
          /\ CostsKept'
      <3>1. Enter(n, s, rmc[n][s] = None)  BY <1>3 DEF Store
      <3>2. rmc[n][s] = None => s \notin slotDB[n]  BY DEF CostsKept, Computed
      <3>3. rmc[n][s] # None => Computed(n, s)  BY DEF Computed
      <3> HIDE DEF s
      <3>4. QED  BY <3>1, <3>2, <3>3, EnterKeepsCosts
    <2>2. stored' \in [Node -> SUBSET (DOMAIN issued)]
      BY <1>3 DEF Store, TypeOK
    <2>3. UNCHANGED <<now, issued, mana, metered>>  BY <1>3 DEF Store
    <2>4. QED  BY <2>1, <2>2, <2>3 DEF CostInv, CostsKept, TypeOK
  <1>4. ASSUME NEW n \in Node, Tick(n) PROVE CostInv'
    <2> now \in 0 .. LastSlot  BY DEF TypeOK
    <2>1. /\ slotDB' \in [Node -> SUBSET (0 .. LastSlot)]
          /\ rmc' \in [Node -> [Slot -> Nat \cup {None}]]
          /\ skipped' \subseteq Node /\ behind' \subseteq Node
          /\ CostsKept'
      <3>1. CASE metered
        <4>1. Enter(n, now, now \notin slotDB[n])  BY <1>4, <3>1 DEF Tick, MonitorLocalMetrics, RMC
        <4>2. now \in slotDB[n] => Computed(n, now)  BY DEF CostsKept
        <4>3. QED  BY <4>1, <4>2, EnterKeepsCosts
      <3>2. CASE ~metered
        BY <1>4, <3>2 DEF Tick, MonitorLocalMetrics, TypeOK, CostsKept, Computed
      <3>3. QED  BY <3>1, <3>2
    <2>2. mana' \in [Node -> Int]
      <3>1. mana' = [mana EXCEPT ![n] = @ + Income[n]]  BY <1>4 DEF Tick, IncrementAccessMana, MonitorLocalMetrics
      <3>2. mana \in [Node -> Int] /\ Income[n] \in Nat  BY IncomeAssumption DEF TypeOK
      <3>3. QED  BY <3>1, <3>2
    <2>3. UNCHANGED <<now, issued, stored>> /\ metered' = TRUE  BY <1>4 DEF Tick, IncrementAccessMana, MonitorLocalMetrics
    <2>4. QED  BY <2>1, <2>2, <2>3 DEF CostInv, CostsKept, TypeOK
  <1>5. CASE UNCHANGED vars
    BY <1>5 DEF vars, CostInv, TypeOK, Computed
  <1>6. QED  BY <1>1, <1>2, <1>3, <1>4, <1>5 DEF Next

LEMMA Invariance == Spec => []CostInv
  BY InitCostInv, CostInvNext, PTL DEF Spec

-----------------------------------------------------------------------------
(* Agreement of the nodes *)

\* The messages that decide the cost at the boundary s, all of them.
Counted(s) == {m \in DOMAIN issued : issued[m].slot \in CountedSlots(s)}
Traffic(s) == Cardinality(Counted(s))

\* With costs R, and entries for the slots D, the cost of slot t is the one that
\* follows from that of the slot before; a boundary is never passed unseen.
Follows(R, D, t) ==
    IF t = 0 THEN R[0] = InitialRMC
    ELSE /\ \A u \in 0 .. t - 1 : R[u] # None
         /\ IF IsBoundary(t)
            THEN t \in D /\ R[t] = Updated(R[t - 1], Traffic(t) \div RMCPeriodUpdate)
            ELSE R[t] = R[t - 1]

InTurn(D) == \E k \in Nat : D = 0 .. k - 1

\* A node that is not misled has come to the slots one by one, and every cost
\* it has, ahead of its slots too, follows from those before.
Regular(n) ==
    /\ slotDB[n] \subseteq 0 .. now /\ InTurn(slotDB[n])
    /\ \A t \in Slot : rmc[n][t] # None => Follows(rmc[n], slotDB[n], t)

\* Such a node paid for each of its messages the cost it still has for its slot.
PaidAtCost ==
    \A m \in DOMAIN issued :
        LET i == issued[m].issuer
        IN  i \notin Misled => /\ issued[m].slot \in slotDB[i]
                               /\ issued[m].burn = rmc[i][issued[m].slot]

AgreeInv ==
    /\ CostInv
    /\ \A m \in DOMAIN issued : issued[m].slot <= now
    /\ \A n \in Node \ Misled : Regular(n)
    /\ PaidAtCost

\* A period has one boundary.
LEMMA BoundaryAlone ==
    ASSUME NEW s \in Nat, NEW t \in s + 1 .. s + RMCPeriodUpdate - 1, IsBoundary(s)
    PROVE  ~IsBoundary(t)
  <1> DEFINE P == RMCPeriodUpdate
             j == t \div P
             k == s \div P
  <1>0. P \in Nat \ {0} /\ t \in Nat /\ 0 < t - s /\ t - s < P  BY TimeAssumption
  <1> SUFFICES ASSUME t % P = 0 PROVE FALSE  BY DEF IsBoundary
  <1>1. s % P = 0  BY DEF IsBoundary
  <1>2. \A p \in Nat \ {0}, a \in Nat : a \div p \in Int /\ (a % p = 0 => a = p * (a \div p))
    BY Z3
  <1>3. j \in Int /\ k \in Int /\ t = P * j /\ s = P * k  BY <1>0, <1>1, <1>2
  <1> HIDE DEF P, j, k
  <1>4. \A p, x, y \in Int : p * (x - y) = p * x - p * y  BY Z3
  <1>5. P * (j - k) = t - s  BY <1>0, <1>3, <1>4
  <1>6. \A p \in Nat \ {0}, x \in Int : x <= 0 => p * x <= 0  BY Z3
  <1>7. \A p \in Nat \ {0}, x \in Int : x >= 1 => p * x >= p  BY Z3
  <1>8. j - k \in Int /\ (j - k <= 0 \/ j - k >= 1)  BY <1>3
  <1>9. P * (j - k) <= 0 \/ P * (j - k) >= P  BY <1>0, <1>6, <1>7, <1>8
  <1>10. QED  BY <1>0, <1>5, <1>9

\* A node that has the committable messages counts what every such node counts.
LEMMA CountsTraffic ==
    ASSUME TypeOK, NEW n \in Node, NEW s \in Nat, Committable(s) \subseteq stored[n]
    PROVE  MessagesCount(n, s) = Traffic(s)
  <1>1. stored[n] \subseteq DOMAIN issued  BY DEF TypeOK
  <1>2. \A m \in DOMAIN issued : issued[m].slot \in 0 .. LastSlot
    <2>1. issued \in Seq(Created)  BY DEF TypeOK, Created
    <2>2. \A m \in DOMAIN issued : issued[m] \in Created  BY <2>1, ElementOfSeq, LenProperties
    <2>3. QED  BY <2>2 DEF Created
  <1>3. Counted(s) \subseteq Committable(s)
    BY <1>2, TimeAssumption, BoundAssumption DEF Counted, CountedSlots, Committable
  <1>4. {m \in stored[n] : issued[m].slot \in CountedSlots(s)} = Counted(s)
    BY <1>1, <1>3 DEF Counted
  <1>5. QED  BY <1>4, Zenon DEF MessagesCount, Traffic

\* What a regular node computes when it comes to the next slot.
LEMMA NewRMCFollows ==
    ASSUME AgreeInv, NEW n \in Node \ Misled, NEW s \in 0 .. now, slotDB[n] = 0 .. s - 1,
           IsBoundary(s) => Committable(s) \subseteq stored[n]
    PROVE  /\ \A t \in 0 .. s - 1 : NewRMC(n, s)[t] = rmc[n][t]
           /\ \A t \in Slot : NewRMC(n, s)[t] # None => Follows(NewRMC(n, s), 0 .. s, t)
  <1> DEFINE R == NewRMC(n, s)
             P == RMCPeriodUpdate
  <1> TypeOK /\ CostInv /\ Regular(n)  BY DEF AgreeInv, CostInv
  <1>0. /\ s \in Slot /\ s \in Nat /\ P \in Nat \ {0} /\ rmc[n] \in [Slot -> Nat \cup {None}]
        /\ Slot = 0 .. LastSlot + P /\ LastSlot \in Nat /\ s <= LastSlot
    BY BoundAssumption, TimeAssumption DEF Slot, TypeOK
  <1>1. \A u \in 0 .. s - 1 : rmc[n][u] # None /\ rmc[n][u] \in Nat
    BY <1>0 DEF CostInv, Computed
  <1>2. \A t \in Slot : rmc[n][t] # None => Follows(rmc[n], 0 .. s - 1, t)
    BY DEF Regular
  <1>3. CASE s = 0
    <2>1. R = [rmc[n] EXCEPT ![0] = InitialRMC]  BY <1>3 DEF NewRMC
    <2>2. rmc[n][0] # None => rmc[n][0] = InitialRMC  BY <1>0, <1>2, <1>3 DEF Follows
    <2> HIDE DEF R
    <2>3. ASSUME NEW t \in Slot, R[t] # None PROVE Follows(R, 0 .. s, t)
      <3>1. CASE t = 0  BY <1>0, <1>3, <2>1, <3>1 DEF Follows
      <3>2. CASE t # 0
        <4>1. R[t] = rmc[n][t]  BY <1>0, <2>1, <3>2
        <4>2. Follows(rmc[n], 0 .. s - 1, t)  BY <1>2, <2>3, <4>1
        <4>3. \A u \in 0 .. t - 1 : rmc[n][u] # None  BY <3>2, <4>2 DEF Follows
        <4>4. 0 \in 0 .. t - 1  BY <1>0, <3>2
        <4>5. R = rmc[n]  BY <1>0, <2>1, <2>2, <4>3, <4>4
        <4>6. QED  BY <1>0, <1>3, <3>2, <4>2, <4>5 DEF Follows
      <3>3. QED  BY <3>1, <3>2
    <2>4. QED  BY <1>0, <1>3, <2>3 DEF R
  <1>4. CASE s # 0 /\ ~IsBoundary(s)
    <2> DEFINE c == rmc[n][s - 1]
    <2>1. s - 1 \in 0 .. s - 1 /\ Cost(n, s - 1) = c /\ c \in Nat
      BY <1>0, <1>1, <1>4 DEF Cost
    <2>2. R = [rmc[n] EXCEPT ![s] = c]  BY <1>4, <2>1 DEF NewRMC
    <2>3. rmc[n][s] # None => rmc[n][s] = c  BY <1>0, <1>2, <1>4 DEF Follows
    <2> HIDE DEF R
    <2>4. \A t \in 0 .. s - 1 : R[t] = rmc[n][t] /\ R[t] # None
      BY <1>0, <1>1, <2>2
    <2>5. ASSUME NEW t \in Slot, R[t] # None PROVE Follows(R, 0 .. s, t)
      <3>1. CASE t = s
        <4>1. R[s] = R[s - 1]  BY <1>0, <2>1, <2>2, <2>4
        <4>2. QED  BY <1>4, <2>4, <3>1, <4>1 DEF Follows
      <3>2. CASE t # s
        <4>1. R[t] = rmc[n][t]  BY <1>0, <2>2, <3>2
        <4>2. Follows(rmc[n], 0 .. s - 1, t)  BY <1>2, <2>5, <4>1
        <4>3. CASE rmc[n][s] # None
          <5>1. R = rmc[n]  BY <1>0, <2>2, <2>3, <4>3
          <5>2. QED  BY <1>0, <4>2, <5>1 DEF Follows
        <4>4. CASE rmc[n][s] = None
          <5>1. t < s
            <6>1. t # 0 => \A u \in 0 .. t - 1 : rmc[n][u] # None  BY <4>2 DEF Follows
            <6>2. s \notin 0 .. t - 1  BY <1>0, <4>4, <6>1
            <6>3. QED  BY <1>0, <3>2, <6>2
          <5>2. \A u \in 0 .. t : R[u] = rmc[n][u]  BY <1>0, <2>4, <5>1
          <5>3. t # 0 => t - 1 \in 0 .. t /\ \A u \in 0 .. t - 1 : u \in 0 .. t
            BY <1>0
          <5>4. 0 \in 0 .. t /\ t \in 0 .. t  BY <1>0
          <5>5. 0 .. s - 1 \subseteq 0 .. s  BY <1>0
          <5>6. QED  BY <4>2, <5>2, <5>3, <5>4, <5>5 DEF Follows
        <4>5. QED  BY <4>3, <4>4
      <3>3. QED  BY <3>1, <3>2
    <2>6. QED  BY <2>4, <2>5 DEF R
  <1>5. CASE s # 0 /\ IsBoundary(s)
    <2> DEFINE c == rmc[n][s - 1]
               v == Updated(c, Traffic(s) \div P)
    <2>1. s - 1 \in 0 .. s - 1 /\ Cost(n, s - 1) = c /\ c \in Nat
      BY <1>0, <1>1, <1>5 DEF Cost
    <2>2. MessagesCount(n, s) = Traffic(s)  BY <1>0, <1>5, CountsTraffic
    <2>3. R = [t \in Slot |-> IF t \in s .. s + P - 1 THEN v ELSE rmc[n][t]]
      BY <1>5, <2>1, <2>2 DEF NewRMC
    <2>4. v # None
      BY <2>1, CostAssumption DEF Updated
    <2>5. ASSUME NEW t \in Slot, t >= s PROVE rmc[n][t] = None
      <3>1. SUFFICES ASSUME rmc[n][t] # None PROVE FALSE  OBVIOUS
      <3>2. Follows(rmc[n], 0 .. s - 1, t)  BY <1>2, <3>1
      <3>3. t # 0  BY <1>0, <1>5, <2>5
      <3>4. rmc[n][s] # None
        <4>1. CASE t = s  BY <3>1, <4>1
        <4>2. CASE t # s
          <5>1. s \in 0 .. t - 1  BY <1>0, <2>5, <4>2
          <5>2. QED  BY <3>2, <3>3, <5>1 DEF Follows
        <4>3. QED  BY <4>1, <4>2
      <3>5. Follows(rmc[n], 0 .. s - 1, s)  BY <1>0, <1>2, <3>4
      <3>6. s \in 0 .. s - 1  BY <1>5, <3>5 DEF Follows
      <3>7. QED  BY <1>0, <3>6
    <2> HIDE DEF R, v
    <2>6. \A t \in 0 .. s - 1 : R[t] = rmc[n][t] /\ R[t] # None
      BY <1>0, <1>1, <2>3
    <2>7. ASSUME NEW t \in Slot, R[t] # None PROVE Follows(R, 0 .. s, t)
      <3>1. CASE t < s
        <4>1. R[t] = rmc[n][t]  BY <1>0, <2>3, <3>1
        <4>2. Follows(rmc[n], 0 .. s - 1, t)  BY <1>2, <2>7, <4>1
        <4>3. \A u \in 0 .. t : R[u] = rmc[n][u]  BY <1>0, <2>6, <3>1
        <4>4. t # 0 => t - 1 \in 0 .. t /\ \A u \in 0 .. t - 1 : u \in 0 .. t
          BY <1>0
        <4>5. 0 \in 0 .. t /\ t \in 0 .. t  BY <1>0
        <4>6. 0 .. s - 1 \subseteq 0 .. s  BY <1>0
        <4>7. QED  BY <4>2, <4>3, <4>4, <4>5, <4>6 DEF Follows
      <3>2. CASE t = s
        <4>1. s \in s .. s + P - 1 /\ s \in 0 .. s  BY <1>0
        <4>2. R[s] = v /\ R[s - 1] = c  BY <1>0, <2>1, <2>3, <2>6, <4>1
        <4>3. R[s] = Updated(R[s - 1], Traffic(s) \div RMCPeriodUpdate)  BY <4>2 DEF v
        <4>4. QED  BY <1>5, <2>6, <3>2, <4>1, <4>3 DEF Follows
      <3>3. CASE t > s
        <4>1. t \in s .. s + P - 1  BY <2>3, <2>5, <2>7, <3>3, <1>0
        <4>2. ~IsBoundary(t)  BY <1>0, <1>5, <3>3, <4>1, BoundaryAlone
        <4>3. \A u \in s .. t : R[u] = v  BY <1>0, <2>3, <4>1
        <4>4. t - 1 \in s .. t /\ t \in s .. t /\ t # 0  BY <1>0, <3>3
        <4>5. \A u \in 0 .. t - 1 : u \in 0 .. s - 1 \/ u \in s .. t  BY <1>0
        <4>6. \A u \in 0 .. t - 1 : R[u] # None  BY <2>4, <2>6, <4>3, <4>5
        <4>7. QED  BY <4>2, <4>3, <4>4, <4>6 DEF Follows
      <3>4. QED  BY <1>0, <3>1, <3>2, <3>3
    <2>8. QED  BY <2>6, <2>7 DEF R
  <1>6. QED  BY <1>3, <1>4, <1>5

\* A node that comes to a slot, at any time after it began, stays regular and
\* keeps the costs of the slots it had.
LEMMA EnterAgrees ==
    ASSUME AgreeInv, NEW n \in Node, NEW s \in 0 .. now, NEW new \in BOOLEAN,
           Enter(n, s, new), new => s \notin slotDB[n], ~new => Computed(n, s),
           now' = now, \A t \in 0 .. now : Traffic(t)' = Traffic(t),
           NEW k \in Node \ Misled'
    PROVE  /\ k \notin Misled /\ Regular(k)'
           /\ slotDB[k] \subseteq slotDB'[k] /\ (k = n => s \in slotDB'[k])
           /\ \A t \in slotDB[k] : rmc'[k][t] = rmc[k][t]
  <1> TypeOK /\ CostInv  BY DEF AgreeInv, CostInv
  <1>0. /\ now \in Nat /\ now <= LastSlot /\ s \in Nat /\ s \in Slot
        /\ \A t \in Slot : t \in Nat
    BY BoundAssumption, TimeAssumption DEF TypeOK, Slot
  <1>1. /\ slotDB' = [slotDB EXCEPT ![n] = @ \cup {s}]
        /\ rmc' = IF new THEN [rmc EXCEPT ![n] = NewRMC(n, s)] ELSE rmc
        /\ k = n /\ s \notin slotDB[n] => slotDB[n] = 0 .. s - 1
        /\ k = n /\ new /\ IsBoundary(s) => Committable(s) \subseteq stored[n]
    BY DEF Enter, Misled
  <1>2. k \notin Misled  BY DEF Enter, Misled
  <1>3. Regular(k)  BY <1>2 DEF AgreeInv
  <1>4. /\ slotDB'[k] = (IF k = n THEN slotDB[k] \cup {s} ELSE slotDB[k])
        /\ slotDB'[k] \subseteq 0 .. now
    <2>1. slotDB'[k] = (IF k = n THEN slotDB[k] \cup {s} ELSE slotDB[k])
      BY <1>1 DEF TypeOK
    <2>2. slotDB[k] \subseteq 0 .. now  BY <1>3 DEF Regular
    <2>3. QED  BY <2>1, <2>2
  <1>5. InTurn(slotDB'[k])
    <2>1. CASE k = n /\ s \notin slotDB[n]
      <3>1. slotDB[k] = 0 .. s - 1  BY <1>1, <2>1
      <3>2. slotDB'[k] = (0 .. s - 1) \cup {s}  BY <1>4, <2>1, <3>1
      <3>3. (0 .. s - 1) \cup {s} = 0 .. (s + 1) - 1 /\ s + 1 \in Nat  BY <1>0
      <3>4. QED  BY <3>2, <3>3 DEF InTurn
    <2>2. CASE ~(k = n /\ s \notin slotDB[n])
      <3>1. slotDB'[k] = slotDB[k]  BY <1>4, <2>2
      <3>2. QED  BY <1>3, <3>1 DEF Regular
    <2>3. QED  BY <2>1, <2>2
  <1>6. /\ \A t \in Slot : rmc'[k][t] # None => Follows(rmc'[k], slotDB'[k], t)
        /\ \A t \in slotDB[k] : rmc'[k][t] = rmc[k][t]
    <2>1. CASE k = n /\ new
      <3>1. slotDB[n] = 0 .. s - 1 /\ slotDB'[k] = 0 .. s
        <4>1. slotDB[n] = 0 .. s - 1  BY <1>1, <2>1
        <4>2. slotDB'[k] = slotDB[n] \cup {s}  BY <1>4, <2>1
        <4>3. (0 .. s - 1) \cup {s} = 0 .. s  BY <1>0
        <4>4. QED  BY <4>1, <4>2, <4>3
      <3>2. rmc'[k] = NewRMC(n, s)  BY <1>1, <2>1 DEF TypeOK
      <3>3. IsBoundary(s) => Committable(s) \subseteq stored[n]  BY <1>1, <2>1
      <3>4. QED  BY <1>2, <2>1, <3>1, <3>2, <3>3, NewRMCFollows
    <2>2. CASE ~(k = n /\ new)
      <3>1. rmc'[k] = rmc[k]  BY <1>1, <2>2 DEF TypeOK
      <3>2. \A t \in Slot : rmc[k][t] # None => Follows(rmc[k], slotDB[k], t)
        BY <1>3 DEF Regular
      <3>3. slotDB[k] \subseteq slotDB'[k]  BY <1>4
      <3>4. QED  BY <3>1, <3>2, <3>3 DEF Follows
    <2>3. QED  BY <2>1, <2>2
  <1>7. ASSUME NEW t \in Slot, rmc'[k][t] # None
        PROVE  Follows(rmc[k], slotDB[k], t)'
    <2>1. Follows(rmc'[k], slotDB'[k], t)  BY <1>6, <1>7
    <2>2. CASE t # 0 /\ IsBoundary(t)
      <3>1. t \in 0 .. now  BY <1>4, <2>1, <2>2 DEF Follows
      <3>2. Traffic(t)' = Traffic(t)  BY <3>1
      <3>3. QED  BY <2>1, <2>2, <3>2 DEF Follows, IsBoundary
    <2>3. CASE ~(t # 0 /\ IsBoundary(t))
      BY <2>1, <2>3 DEF Follows, IsBoundary
    <2>4. QED  BY <2>2, <2>3
  <1>8. Regular(k)'
    <2>1. InTurn(slotDB[k])' /\ slotDB'[k] \subseteq 0 .. now'  BY <1>4, <1>5
    <2>2. QED  BY <1>7, <2>1 DEF Regular
  <1>9. QED  BY <1>1, <1>2, <1>4, <1>6, <1>8

\* New messages are of the slot of the clock: they change no cost that has been
\* computed.
LEMMA TrafficFixed ==
    ASSUME AgreeInv, now' = now,
           \/ issued' = issued
           \/ \E x \in Created : x.slot = now /\ issued' = Append(issued, x)
    PROVE  \A t \in 0 .. now : Traffic(t)' = Traffic(t)
  <1> TAKE t \in 0 .. now
  <1>0. now \in Nat /\ issued \in Seq(Created)
    BY BoundAssumption DEF AgreeInv, CostInv, TypeOK, Created
  <1>1. CASE issued' = issued
    <2>1. Counted(t)' = Counted(t)  BY <1>1 DEF Counted, CountedSlots
    <2>2. QED  BY <2>1, Zenon DEF Traffic
  <1>2. ASSUME NEW x \in Created, x.slot = now, issued' = Append(issued, x)
        PROVE  Traffic(t)' = Traffic(t)
    <2>1. /\ DOMAIN issued' = DOMAIN issued \cup {Len(issued) + 1}
          /\ issued'[Len(issued) + 1] = x
          /\ \A m \in DOMAIN issued : issued'[m] = issued[m]
      BY <1>0, <1>2, AppendProperties, LenProperties
    <2>2. now \notin CountedSlots(t)  BY <1>0, TimeAssumption DEF CountedSlots
    <2>3. Len(issued) + 1 \notin DOMAIN issued  BY <1>0, LenProperties
    <2>4. Counted(t)' = {m \in DOMAIN issued' : issued'[m].slot \in CountedSlots(t)}
      BY DEF Counted, CountedSlots
    <2>5. Counted(t)' = Counted(t)  BY <1>2, <2>1, <2>2, <2>4 DEF Counted
    <2>6. QED  BY <2>5, Zenon DEF Traffic
  <1>3. QED  BY <1>1, <1>2

LEMMA SlotOfMessage ==
    ASSUME TypeOK, NEW m \in DOMAIN issued
    PROVE  issued[m].issuer \in Node /\ issued[m].slot \in 0 .. LastSlot
  <1>1. issued \in Seq(Created)  BY DEF TypeOK, Created
  <1>2. issued[m] \in Created  BY <1>1, ElementOfSeq, LenProperties
  <1>3. QED  BY <1>2 DEF Created

\* What a step keeps that creates no message.
LEMMA PaidKept ==
    ASSUME AgreeInv, issued' = issued,
           \A k \in Node \ Misled' :
               /\ k \notin Misled /\ slotDB[k] \subseteq slotDB'[k]
               /\ \A t \in slotDB[k] : rmc'[k][t] = rmc[k][t]
    PROVE  PaidAtCost'
  <1>1. \A m \in DOMAIN issued : issued[m].issuer \in Node
    BY SlotOfMessage DEF AgreeInv, CostInv
  <1>2. QED  BY <1>1 DEF AgreeInv, PaidAtCost

LEMMA InitAgree == Init => AgreeInv
  <1> SUFFICES ASSUME Init PROVE AgreeInv  OBVIOUS
  <1>1. CostInv  BY InitCostInv
  <1>2. DOMAIN issued = {}  BY DEF Init
  <1>3. ASSUME NEW n \in Node PROVE Regular(n)
    <2>1. slotDB[n] = 0 .. 0 - 1 /\ slotDB[n] \subseteq 0 .. now  BY DEF Init
    <2>2. QED  BY <2>1 DEF Init, Regular, InTurn
  <1>4. QED  BY <1>1, <1>2, <1>3 DEF AgreeInv, PaidAtCost

LEMMA CreateAgrees ==
    ASSUME AgreeInv, CostInv', NEW n \in Node, CreateMessage(n)
    PROVE  AgreeInv'
  <1> TypeOK /\ CostInv  BY DEF AgreeInv, CostInv
  <1> DEFINE x == [issuer |-> n, slot |-> now, burn |-> Burned(n)]
  <1>0. /\ now \in Nat /\ now \in 0 .. now /\ now' = now /\ issued \in Seq(Created)
        /\ now \in 0 .. LastSlot
    BY BoundAssumption DEF TypeOK, CreateMessage, Created
  <1>1. Enter(n, now, now \notin slotDB[n]) /\ (now \in slotDB[n] => Computed(n, now))
    BY DEF CreateMessage, RMC, CostInv
  <1>2. issued' = issued \/ issued' = Append(issued, x)
    BY DEF CreateMessage
  <1>3. x \in Created /\ Burned(n) = rmc'[n][now]
    <2>1. rmc'[n][now] \in Nat
      BY <1>0, <1>1, EnterKeepsCosts
    <2>2. Burned(n) = rmc'[n][now]  BY <2>1 DEF Burned
    <2>3. QED  BY <1>0, <2>1, <2>2 DEF Created
  <1>4. \A t \in 0 .. now : Traffic(t)' = Traffic(t)
    <2>1. x.slot = now  OBVIOUS
    <2> HIDE DEF x
    <2>2. QED  BY <1>0, <1>2, <1>3, <2>1, TrafficFixed
  <1>5. \A k \in Node \ Misled' :
           /\ k \notin Misled /\ Regular(k)'
           /\ slotDB[k] \subseteq slotDB'[k] /\ (k = n => now \in slotDB'[k])
           /\ \A t \in slotDB[k] : rmc'[k][t] = rmc[k][t]
    BY <1>0, <1>1, <1>4, EnterAgrees
  <1>6. CASE issued' = issued
    <2>1. PaidAtCost'  BY <1>5, <1>6, PaidKept
    <2>2. QED  BY <1>0, <1>5, <1>6, <2>1 DEF AgreeInv
  <1>7. CASE issued' = Append(issued, x)
    <2>1. /\ DOMAIN issued' = DOMAIN issued \cup {Len(issued) + 1}
          /\ issued'[Len(issued) + 1] = x
          /\ \A m \in DOMAIN issued : issued'[m] = issued[m]
      <3> HIDE DEF x
      <3>1. QED  BY <1>0, <1>3, <1>7, AppendProperties, LenProperties
    <2>2. ASSUME NEW m \in DOMAIN issued', issued'[m].issuer \notin Misled'
          PROVE  /\ issued'[m].slot \in slotDB'[issued'[m].issuer]
                 /\ issued'[m].burn = rmc'[issued'[m].issuer][issued'[m].slot]
      <3>1. CASE m = Len(issued) + 1
        BY <1>3, <1>5, <2>1, <2>2, <3>1
      <3>2. CASE m \in DOMAIN issued
        <4>1. issued'[m] = issued[m] /\ issued[m].issuer \in Node  BY <2>1, <3>2, SlotOfMessage
        <4>2. issued[m].issuer \notin Misled  BY <1>5, <2>2, <4>1
        <4>3. QED  BY <1>5, <2>2, <3>2, <4>1, <4>2 DEF AgreeInv, PaidAtCost
      <3>3. QED  BY <2>1, <3>1, <3>2
    <2>3. PaidAtCost'  BY <2>2 DEF PaidAtCost
    <2>4. \A m \in DOMAIN issued' : issued'[m].slot <= now'
      BY <1>0, <2>1 DEF AgreeInv
    <2>5. QED  BY <1>5, <2>3, <2>4 DEF AgreeInv
  <1>8. QED  BY <1>2, <1>6, <1>7

LEMMA StoreAgrees ==
    ASSUME AgreeInv, CostInv', NEW n \in Node, NEW m \in DOMAIN issued, Store(n, m)
    PROVE  AgreeInv'
  <1> TypeOK /\ CostInv  BY DEF AgreeInv, CostInv
  <1> DEFINE s == issued[m].slot
  <1>0. s \in 0 .. now /\ now' = now /\ issued' = issued
    <2>1. s \in 0 .. LastSlot /\ s <= now /\ now \in 0 .. LastSlot
      BY SlotOfMessage DEF AgreeInv, TypeOK
    <2>2. QED  BY <2>1, BoundAssumption DEF Store
  <1>1. Enter(n, s, rmc[n][s] = None)  BY DEF Store
  <1>2. (rmc[n][s] = None => s \notin slotDB[n]) /\ (rmc[n][s] # None => Computed(n, s))
    BY DEF CostInv, Computed
  <1> HIDE DEF s
  <1>3. \A t \in 0 .. now : Traffic(t)' = Traffic(t)  BY <1>0, TrafficFixed
  <1>4. \A k \in Node \ Misled' :
           /\ k \notin Misled /\ Regular(k)' /\ slotDB[k] \subseteq slotDB'[k]
           /\ \A t \in slotDB[k] : rmc'[k][t] = rmc[k][t]
    BY <1>0, <1>1, <1>2, <1>3, EnterAgrees
  <1>5. PaidAtCost'  BY <1>0, <1>4, PaidKept
  <1>6. QED  BY <1>0, <1>4, <1>5 DEF AgreeInv

\* Steps in which no node comes to a slot.
LEMMA StayAgrees ==
    ASSUME AgreeInv, CostInv', UNCHANGED <<issued, slotDB, rmc, skipped, behind>>,
           now' \in Nat, now' >= now
    PROVE  AgreeInv'
  <1> TypeOK /\ CostInv  BY DEF AgreeInv, CostInv
  <1>1. Misled' = Misled  BY DEF Misled
  <1>2. \A t : Traffic(t)' = Traffic(t)
    <2> TAKE t
    <2>1. Counted(t)' = Counted(t)  BY DEF Counted, CountedSlots
    <2>2. QED  BY <2>1, Zenon DEF Traffic
  <1>3. now \in Nat  BY BoundAssumption DEF TypeOK
  <1>4. ASSUME NEW n \in Node \ Misled' PROVE Regular(n)'
    <2>1. Regular(n)  BY <1>1, <1>4 DEF AgreeInv
    <2>2. InTurn(slotDB[n])' /\ slotDB'[n] \subseteq 0 .. now'  BY <1>3, <2>1 DEF Regular
    <2>3. \A t \in Slot : rmc[n][t] # None => Follows(rmc[n], slotDB[n], t)'
      BY <1>2, <2>1 DEF Regular, Follows, IsBoundary
    <2>4. QED  BY <2>2, <2>3 DEF Regular
  <1>5. PaidAtCost'  BY <1>1 DEF AgreeInv, PaidAtCost
  <1>6. \A m \in DOMAIN issued' : issued'[m].slot <= now'
    <2>1. \A m \in DOMAIN issued : issued[m].slot \in Int  BY SlotOfMessage
    <2>2. QED  BY <1>3, <2>1 DEF AgreeInv
  <1>7. QED  BY <1>4, <1>5, <1>6 DEF AgreeInv

LEMMA TickAgrees ==
    ASSUME AgreeInv, CostInv', NEW n \in Node, Tick(n)
    PROVE  AgreeInv'
  <1> TypeOK /\ CostInv  BY DEF AgreeInv, CostInv
  <1>0. now \in Nat /\ now \in 0 .. now /\ now \in 0 .. LastSlot /\ now' = now /\ issued' = issued
    BY BoundAssumption DEF TypeOK, Tick
  <1>1. CASE metered
    <2>1. Enter(n, now, now \notin slotDB[n])  BY <1>1 DEF Tick, MonitorLocalMetrics, RMC
    <2>2. now \in slotDB[n] => Computed(n, now)  BY DEF CostInv
    <2>3. \A t \in 0 .. now : Traffic(t)' = Traffic(t)  BY <1>0, TrafficFixed
    <2>4. \A k \in Node \ Misled' :
             /\ k \notin Misled /\ Regular(k)' /\ slotDB[k] \subseteq slotDB'[k]
             /\ \A t \in slotDB[k] : rmc'[k][t] = rmc[k][t]
      BY <1>0, <2>1, <2>2, <2>3, EnterAgrees
    <2>5. PaidAtCost'  BY <1>0, <2>4, PaidKept
    <2>6. QED  BY <1>0, <2>4, <2>5 DEF AgreeInv
  <1>2. CASE ~metered
    BY <1>0, <1>2, StayAgrees DEF Tick, MonitorLocalMetrics
  <1>3. QED  BY <1>1, <1>2

LEMMA AgreeNext == AgreeInv /\ [Next]_vars => AgreeInv'
  <1> SUFFICES ASSUME AgreeInv, [Next]_vars PROVE AgreeInv'  OBVIOUS
  <1>0. CostInv' /\ now \in Nat
    BY CostInvNext, BoundAssumption DEF AgreeInv, CostInv, TypeOK
  <1>1. CASE AdvanceClock
    BY <1>0, <1>1, StayAgrees DEF AdvanceClock
  <1>2. CASE UNCHANGED vars
    BY <1>0, <1>2, StayAgrees DEF vars
  <1>3. QED  BY <1>0, <1>1, <1>2, CreateAgrees, StoreAgrees, TickAgrees DEF Next

LEMMA AgreeInvariance == Spec => []AgreeInv
  BY InitAgree, AgreeNext, PTL DEF Spec

\* The cost follows from slot to slot, in the same way at both nodes.
LEMMA SameCosts == AgreeInv => SameCost
  <1> SUFFICES ASSUME AgreeInv, NEW n \in Node \ Misled, NEW k \in Node \ Misled,
                      NEW s \in slotDB[n] \cap slotDB[k]
               PROVE  rmc[n][s] = rmc[k][s]
    BY DEF SameCost
  <1> DEFINE G == {t \in 0 .. s : rmc[n][t] = rmc[k][t]}
  <1>0. TypeOK /\ CostInv /\ Regular(n) /\ Regular(k)  BY DEF AgreeInv, CostInv
  <1>1. s \in Nat /\ s \in Slot /\ 0 .. s \subseteq Slot
    BY <1>0, BoundAssumption, TimeAssumption DEF TypeOK, Slot
  <1>2. 0 .. s \subseteq slotDB[n] /\ 0 .. s \subseteq slotDB[k]
    BY <1>0, <1>1 DEF Regular, InTurn
  <1>3. \A t \in 0 .. s : Follows(rmc[n], slotDB[n], t) /\ Follows(rmc[k], slotDB[k], t)
    BY <1>0, <1>1, <1>2 DEF Regular, CostInv, Computed
  <1>4. 0 \in G  BY <1>1, <1>3 DEF Follows
  <1>5. ASSUME NEW t \in 0 .. s, t \in G, t < s PROVE t + 1 \in G
    <2>1. t + 1 \in 0 .. s /\ t + 1 # 0 /\ (t + 1) - 1 = t  BY <1>1, <1>5
    <2>2. /\ rmc[n][t + 1] = IF IsBoundary(t + 1)
                             THEN Updated(rmc[n][t], Traffic(t + 1) \div RMCPeriodUpdate)
                             ELSE rmc[n][t]
          /\ rmc[k][t + 1] = IF IsBoundary(t + 1)
                             THEN Updated(rmc[k][t], Traffic(t + 1) \div RMCPeriodUpdate)
                             ELSE rmc[k][t]
      BY <1>3, <2>1 DEF Follows
    <2>3. rmc[n][t] = rmc[k][t]  BY <1>5
    <2>4. QED  BY <2>1, <2>2, <2>3
  <1> HIDE DEF G
  <1>6. 0 .. s \subseteq G  BY <1>1, <1>4, <1>5, NumberInduction
  <1>7. QED  BY <1>1, <1>6 DEF G

-----------------------------------------------------------------------------
(* No node above the others *)

Lifted(c) == IF c < RMCmin THEN RMCmin ELSE c

\* What NewRMC reads of the costs R for slot s.
CostIn(R, s) == IF R[s] = None THEN 0 ELSE R[s]

\* The cost of slot t is at most what follows from that of the slot before.  It
\* may be less: the node counted too few messages, or got the cost of the slot
\* before only later.
NotAbove(R, D, t) ==
    IF t = 0 THEN R[0] = InitialRMC
    ELSE IF IsBoundary(t)
    THEN t \in D /\ R[t] <= Updated(Lifted(CostIn(R, t - 1)), Traffic(t) \div RMCPeriodUpdate)
    ELSE R[t] <= CostIn(R, t - 1)

Lenient(n) ==
    /\ slotDB[n] \subseteq 0 .. now
    /\ \A t \in Slot : rmc[n][t] # None => NotAbove(rmc[n], slotDB[n], t)

LenientInv == AgreeInv /\ \A n \in Node : Lenient(n)

\* More traffic or a higher cost before makes no cost lower, within the limits.
LEMMA UpdatedMonotone ==
    ASSUME NEW c \in Nat, NEW d \in RMCmin .. RMCmax, c <= d,
           NEW x \in Int, NEW y \in Int, x <= y
    PROVE  Updated(c, x) <= Updated(d, y)
  <1>1. {RMCmin, RMCmax, RMCincrease, RMCdecrease, LowerRMCThreshold, UpperRMCThreshold} \subseteq Nat
        /\ RMCmin <= RMCmax
    BY CostAssumption
  <1>2. QED  BY <1>1 DEF Updated

\* What a node has stored is not more than what was issued.
LEMMA CountsAtMostTraffic ==
    ASSUME TypeOK, NEW n \in Node, NEW s \in Nat
    PROVE  /\ MessagesCount(n, s) \in Nat /\ Traffic(s) \in Nat
           /\ MessagesCount(n, s) \div RMCPeriodUpdate <= Traffic(s) \div RMCPeriodUpdate
           /\ MessagesCount(n, s) \div RMCPeriodUpdate \in Int
           /\ Traffic(s) \div RMCPeriodUpdate \in Int
  <1> DEFINE Own == {m \in stored[n] : issued[m].slot \in CountedSlots(s)}
  <1>1. stored[n] \subseteq DOMAIN issued  BY DEF TypeOK
  <1>2. IsFiniteSet(DOMAIN issued)
    <2>1. DOMAIN issued = 1 .. Len(issued) /\ Len(issued) \in Nat
      BY LenProperties DEF TypeOK
    <2>2. QED  BY <2>1, FS_Interval
  <1>3. IsFiniteSet(Counted(s))
    BY <1>2, FS_Subset DEF Counted
  <1>4. Own \subseteq Counted(s)  BY <1>1 DEF Counted
  <1>5. Cardinality(Own) <= Cardinality(Counted(s)) /\ IsFiniteSet(Own)
    BY <1>3, <1>4, FS_Subset
  <1>6. Cardinality(Own) \in Nat /\ Cardinality(Counted(s)) \in Nat
    BY <1>3, <1>5, FS_CardinalityType
  <1>7. MessagesCount(n, s) = Cardinality(Own) /\ Traffic(s) = Cardinality(Counted(s))
    BY Zenon DEF MessagesCount, Traffic
  <1> HIDE DEF Own
  <1>8. \A p \in Nat \ {0}, a, b \in Nat : a <= b => a \div p <= b \div p
    <2> TAKE p \in Nat \ {0}, a \in Nat, b \in Nat
    <2>1. a \div p \in Int /\ b \div p \in Int  BY Z3
    <2>2. p * (a \div p) <= a /\ b < p * (b \div p) + p  BY Z3
    <2> DEFINE x == a \div p
               y == b \div p
    <2> HIDE DEF x, y
    <2>3. x \in Int /\ y \in Int /\ p * x <= a /\ b < p * y + p  BY <2>1, <2>2 DEF x, y
    <2>4. SUFFICES ASSUME a <= b, x >= y + 1 PROVE FALSE  BY <2>3 DEF x, y
    <2>5. p * x >= p * (y + 1)  BY <2>3, <2>4, Z3
    <2>6. p * (y + 1) = p * y + p  BY <2>3, Z3
    <2>7. p * x \in Int /\ p * y \in Int  BY <2>3, Z3
    <2>8. QED  BY <2>3, <2>4, <2>5, <2>6, <2>7
  <1>9. \A p \in Nat \ {0}, a \in Nat : a \div p \in Int  BY Z3
  <1>10. QED  BY <1>5, <1>6, <1>7, <1>8, <1>9, TimeAssumption

\* A period whose boundary the node has not come to costs it nothing.
LEMMA PeriodUntouched ==
    ASSUME CostInv, NEW n \in Node, Lenient(n), NEW s \in Nat, IsBoundary(s), rmc[n][s] = None,
           NEW t \in s .. s + RMCPeriodUpdate - 1, t \in Slot
    PROVE  Cost(n, t) = 0
  <1> DEFINE G == {u \in 0 .. t - s : Cost(n, s + u) = 0}
  <1>0. /\ t \in Nat /\ t - s \in Nat /\ \A u \in 0 .. t - s : s + u \in Slot
        /\ Slot = 0 .. LastSlot + RMCPeriodUpdate /\ RMCPeriodUpdate \in Nat /\ LastSlot \in Nat
    BY BoundAssumption, TimeAssumption DEF Slot
  <1>1. 0 \in G  BY <1>0 DEF Cost
  <1>2. ASSUME NEW u \in 0 .. t - s, u \in G, u < t - s PROVE u + 1 \in G
    <2>1. s + (u + 1) \in Slot /\ u + 1 \in 0 .. t - s /\ s + (u + 1) # 0
          /\ s + (u + 1) - 1 = s + u /\ s + u \in Slot
      BY <1>0, <1>2
    <2>2. s + (u + 1) \in s + 1 .. s + RMCPeriodUpdate - 1  BY <1>0, <1>2
    <2>3. ~IsBoundary(s + (u + 1))  BY <2>2, BoundaryAlone
    <2>4. rmc[n][s + (u + 1)] # None => rmc[n][s + (u + 1)] <= CostIn(rmc[n], s + u)
      BY <2>1, <2>3 DEF Lenient, NotAbove
    <2>5. CostIn(rmc[n], s + u) = 0  BY <1>2 DEF CostIn, Cost
    <2>6. rmc[n][s + (u + 1)] # None => rmc[n][s + (u + 1)] \in Nat
      BY <2>1 DEF CostInv, TypeOK
    <2>7. Cost(n, s + (u + 1)) = 0  BY <2>4, <2>5, <2>6 DEF Cost
    <2>8. QED  BY <2>1, <2>7
  <1> HIDE DEF G
  <1>3. 0 .. t - s \subseteq G  BY <1>0, <1>1, <1>2, NumberInduction
  <1>4. s + (t - s) = t /\ t - s \in 0 .. t - s  BY <1>0
  <1>5. QED  BY <1>3, <1>4 DEF G

\* NewRMC lowers no cost.
LEMMA NewRMCRaises ==
    ASSUME CostInv, NEW n \in Node, Lenient(n), NEW s \in 0 .. LastSlot, s \notin slotDB[n],
           NEW t \in Slot
    PROVE  Cost(n, t) <= CostIn(NewRMC(n, s), t)
  <1> DEFINE R == NewRMC(n, s)
             P == RMCPeriodUpdate
  <1>0. /\ TypeOK /\ s \in Slot /\ s \in Nat /\ P \in Nat \ {0}
        /\ rmc[n] \in [Slot -> Nat \cup {None}] /\ Slot = 0 .. LastSlot + P
        /\ LastSlot \in Nat /\ InitialRMC \in Nat
    <2>1. TypeOK /\ InitialRMC \in Nat  BY CostAssumption DEF CostInv
    <2>2. rmc[n] \in [Slot -> Nat \cup {None}]  BY <2>1 DEF TypeOK
    <2>3. QED  BY <2>1, <2>2, BoundAssumption, TimeAssumption DEF Slot
  <1>1. R \in [Slot -> Nat \cup {None}] /\ (rmc[n][t] # None => R[t] # None)
    BY <1>0, NewRMCType
  <1>2. CostIn(R, t) \in Nat /\ Cost(n, t) \in Nat
    BY <1>0, <1>1 DEF CostIn, Cost
  <1>3. CASE R[t] = rmc[n][t]
    BY <1>2, <1>3 DEF Cost, CostIn
  <1>4. CASE R[t] # rmc[n][t] /\ s = 0
    <2>1. R = [rmc[n] EXCEPT ![0] = InitialRMC]  BY <1>4 DEF NewRMC
    <2> HIDE DEF R
    <2>2. t = 0  BY <1>0, <1>4, <2>1
    <2>3. rmc[n][0] # None => rmc[n][0] = InitialRMC  BY <2>2 DEF Lenient, NotAbove
    <2>4. rmc[n][0] = None  BY <1>0, <1>4, <2>1, <2>2, <2>3
    <2>5. QED  BY <1>2, <2>2, <2>4 DEF Cost, R
  <1>5. CASE R[t] # rmc[n][t] /\ s # 0 /\ IsBoundary(s)
    <2> DEFINE v == Updated(Cost(n, s - 1), MessagesCount(n, s) \div RMCPeriodUpdate)
    <2>1. R = [u \in Slot |-> IF u \in s .. s + P - 1 THEN v ELSE rmc[n][u]]
      BY <1>5 DEF NewRMC
    <2> HIDE DEF R, v
    <2>2. t \in s .. s + P - 1  BY <1>5, <2>1
    <2>3. rmc[n][s] = None
      BY <1>0, <1>5 DEF Lenient, NotAbove
    <2>4. Cost(n, t) = 0  BY <1>0, <1>5, <2>2, <2>3, PeriodUntouched
    <2>5. QED  BY <1>2, <2>4 DEF R
  <1>6. CASE R[t] # rmc[n][t] /\ s # 0 /\ ~IsBoundary(s)
    <2>1. R = [rmc[n] EXCEPT ![s] = Cost(n, s - 1)]  BY <1>6 DEF NewRMC
    <2> HIDE DEF R
    <2>2. t = s /\ R[s] = Cost(n, s - 1)  BY <1>0, <1>6, <2>1
    <2>3. s - 1 \in Slot  BY <1>0, <1>6
    <2>4. Cost(n, s - 1) \in Nat  BY <1>0, <2>3, CostIsNat
    <2>5. rmc[n][s] # None => rmc[n][s] <= Cost(n, s - 1)
      BY <1>0, <1>6 DEF Lenient, NotAbove, CostIn, Cost
    <2>6. Cost(n, t) <= CostIn(R, t)  BY <2>2, <2>4, <2>5 DEF Cost, CostIn
    <2>7. QED  BY <2>6 DEF R
  <1>7. QED  BY <1>3, <1>4, <1>5, <1>6

\* What a node computes when it comes to a slot, in turn or not.
LEMMA NewRMCNotAbove ==
    ASSUME CostInv, NEW n \in Node, Lenient(n), NEW s \in 0 .. LastSlot, s \notin slotDB[n],
           NEW t \in Slot, NewRMC(n, s)[t] # None
    PROVE  NotAbove(NewRMC(n, s), slotDB[n] \cup {s}, t)
  <1> DEFINE R == NewRMC(n, s)
             D == slotDB[n] \cup {s}
             P == RMCPeriodUpdate
             T == Traffic(t) \div RMCPeriodUpdate
  <1>0. /\ TypeOK /\ s \in Slot /\ s \in Nat /\ P \in Nat \ {0} /\ t \in Nat
        /\ rmc[n] \in [Slot -> Nat \cup {None}] /\ Slot = 0 .. LastSlot + P
        /\ LastSlot \in Nat /\ InitialRMC \in Nat
    <2>1. TypeOK /\ InitialRMC \in Nat  BY CostAssumption DEF CostInv
    <2>2. rmc[n] \in [Slot -> Nat \cup {None}]  BY <2>1 DEF TypeOK
    <2>3. QED  BY <2>1, <2>2, BoundAssumption, TimeAssumption DEF Slot
  <1>1. {RMCmin, RMCmax} \subseteq Nat /\ RMCmin <= RMCmax  BY CostAssumption
  <1>2. /\ s = 0 => R = [rmc[n] EXCEPT ![0] = InitialRMC]
        /\ s # 0 /\ ~IsBoundary(s) => R = [rmc[n] EXCEPT ![s] = Cost(n, s - 1)]
        /\ s # 0 /\ IsBoundary(s) =>
              R = [u \in Slot |-> IF u \in s .. s + P - 1
                     THEN Updated(Cost(n, s - 1), MessagesCount(n, s) \div RMCPeriodUpdate)
                     ELSE rmc[n][u]]
    BY DEF NewRMC
  <1>3. ASSUME t # 0
        PROVE  /\ t - 1 \in Slot /\ Cost(n, t - 1) <= CostIn(R, t - 1)
               /\ Cost(n, t - 1) \in 0 .. RMCmax /\ CostIn(R, t - 1) \in 0 .. RMCmax
    <2>1. t - 1 \in Slot  BY <1>0, <1>3
    <2>2. Cost(n, t - 1) <= CostIn(R, t - 1)  BY <2>1, NewRMCRaises
    <2>3. CostIn(R, t - 1) \in 0 .. RMCmax
      BY <1>1, <2>1, NewRMCBounded DEF CostIn
    <2>4. Cost(n, t - 1) \in 0 .. RMCmax
      BY <1>1, <2>1 DEF Cost, CostInv, Computed
    <2>5. QED  BY <2>1, <2>2, <2>3, <2>4
  <1> HIDE DEF R, D, P, T
  <1>4. CASE t = 0
    <2>1. CASE s = 0
      <3>1. R[0] = InitialRMC  BY <1>0, <1>2, <2>1
      <3>2. QED  BY <1>4, <3>1 DEF NotAbove, R
    <2>2. CASE s # 0
      <3>1. 0 \notin s .. s + P - 1 /\ 0 \in Slot  BY <1>0, <2>2
      <3>2. R[0] = rmc[n][0]  BY <1>0, <1>2, <2>2, <3>1
      <3>3. rmc[n][0] # None  BY <1>4, <3>2 DEF R
      <3>4. rmc[n][0] = InitialRMC  BY <1>4, <3>1, <3>3 DEF Lenient, NotAbove
      <3>5. QED  BY <1>4, <3>2, <3>4 DEF NotAbove, R
    <2>3. QED  BY <2>1, <2>2
  <1>5. CASE t # 0 /\ t # s /\ R[t] = rmc[n][t]
    <2>1. NotAbove(rmc[n], slotDB[n], t)  BY <1>5 DEF Lenient, R
    <2>2. CostIn(rmc[n], t - 1) = Cost(n, t - 1)  BY DEF CostIn, Cost
    <2>3. R[t] \in Nat  BY <1>0, <1>5 DEF R
    <2>4. CASE IsBoundary(t)
      <3>1. rmc[n][t] <= Updated(Lifted(Cost(n, t - 1)), T) /\ t \in slotDB[n]
        BY <1>5, <2>1, <2>2, <2>4 DEF NotAbove, T
      <3>2. T \in Int  BY <1>0, CountsAtMostTraffic DEF T
      <3>3. /\ Lifted(Cost(n, t - 1)) \in Nat /\ Lifted(CostIn(R, t - 1)) \in RMCmin .. RMCmax
            /\ Lifted(Cost(n, t - 1)) <= Lifted(CostIn(R, t - 1))
        BY <1>1, <1>3, <1>5 DEF Lifted
      <3>4. Updated(Lifted(Cost(n, t - 1)), T) <= Updated(Lifted(CostIn(R, t - 1)), T)
        BY <3>2, <3>3, UpdatedMonotone
      <3>5. /\ Updated(Lifted(Cost(n, t - 1)), T) \in Nat
            /\ Updated(Lifted(CostIn(R, t - 1)), T) \in Nat
        BY <1>1, <3>2, <3>3, UpdatedInRange
      <3>6. R[t] <= Updated(Lifted(CostIn(R, t - 1)), T)
        BY <1>5, <2>3, <3>1, <3>4, <3>5
      <3>7. QED  BY <1>5, <2>4, <3>1, <3>6 DEF NotAbove, R, T
    <2>5. CASE ~IsBoundary(t)
      <3>1. R[t] <= Cost(n, t - 1)  BY <1>5, <2>1, <2>2, <2>5 DEF NotAbove
      <3>2. R[t] <= CostIn(R, t - 1)  BY <1>3, <1>5, <2>3, <3>1
      <3>3. QED  BY <1>5, <2>5, <3>2 DEF NotAbove, R
    <2>6. QED  BY <2>4, <2>5
  <1>6. CASE t # 0 /\ t = s
    <2>1. CASE IsBoundary(t)
      <3> DEFINE x == MessagesCount(n, s) \div RMCPeriodUpdate
      <3>1. s \in s .. s + P - 1  BY <1>0
      <3>2. R[t] = Updated(Cost(n, t - 1), x)  BY <1>0, <1>2, <1>6, <2>1, <3>1
      <3>3. x \in Int /\ T \in Int /\ x <= T  BY <1>0, <1>6, CountsAtMostTraffic DEF T
      <3> HIDE DEF x
      <3>4. /\ Cost(n, t - 1) \in Nat /\ Lifted(CostIn(R, t - 1)) \in RMCmin .. RMCmax
            /\ Cost(n, t - 1) <= Lifted(CostIn(R, t - 1))
        BY <1>1, <1>3, <1>6 DEF Lifted
      <3>5. R[t] <= Updated(Lifted(CostIn(R, t - 1)), T)
        BY <3>2, <3>3, <3>4, UpdatedMonotone
      <3>6. QED  BY <1>6, <2>1, <3>5 DEF NotAbove, R, T
    <2>2. CASE ~IsBoundary(t)
      <3>1. R[t] = Cost(n, t - 1)  BY <1>0, <1>2, <1>6, <2>2
      <3>2. QED  BY <1>3, <1>6, <2>2, <3>1 DEF NotAbove, R
    <2>3. QED  BY <2>1, <2>2
  <1>7. CASE t # 0 /\ t # s /\ R[t] # rmc[n][t]
    <2>1. s # 0 /\ IsBoundary(s) /\ t \in s .. s + P - 1
      BY <1>0, <1>2, <1>7
    <2>2. t \in s + 1 .. s + RMCPeriodUpdate - 1 /\ t - 1 \in s .. s + P - 1
      BY <1>0, <1>7, <2>1 DEF P
    <2>3. ~IsBoundary(t)  BY <1>0, <2>1, <2>2, BoundaryAlone
    <2>4. R[t] = R[t - 1]  BY <1>2, <1>3, <1>7, <2>1, <2>2
    <2>5. R[t - 1] # None  BY <2>4 DEF R
    <2>6. R[t] <= CostIn(R, t - 1)  BY <1>3, <1>7, <2>4, <2>5 DEF CostIn
    <2>7. QED  BY <1>7, <2>3, <2>6 DEF NotAbove, R
  <1>8. QED  BY <1>4, <1>5, <1>6, <1>7

\* A node that comes to a slot, at any time after it began.
LEMMA EnterLenient ==
    ASSUME AgreeInv, \A k \in Node : Lenient(k), NEW n \in Node, NEW s \in 0 .. now,
           NEW new \in BOOLEAN, Enter(n, s, new), new => s \notin slotDB[n], now' = now,
           \A t \in 0 .. now : Traffic(t)' = Traffic(t)
    PROVE  \A k \in Node : Lenient(k)'
  <1> TAKE k \in Node
  <1> TypeOK /\ CostInv  BY DEF AgreeInv, CostInv
  <1>0. s \in 0 .. LastSlot /\ now \in Nat  BY BoundAssumption DEF TypeOK
  <1>1. /\ slotDB' = [slotDB EXCEPT ![n] = @ \cup {s}]
        /\ rmc' = IF new THEN [rmc EXCEPT ![n] = NewRMC(n, s)] ELSE rmc
    BY DEF Enter
  <1>2. slotDB'[k] = (IF k = n THEN slotDB[k] \cup {s} ELSE slotDB[k])
    BY <1>1 DEF TypeOK
  <1>3. slotDB'[k] \subseteq 0 .. now'  BY <1>2 DEF Lenient
  <1>4. ASSUME NEW t \in Slot, rmc'[k][t] # None
        PROVE  NotAbove(rmc'[k], slotDB'[k], t)
    <2>1. CASE k = n /\ new
      <3>1. rmc'[k] = NewRMC(n, s) /\ slotDB'[k] = slotDB[n] \cup {s}
        BY <1>1, <1>2, <2>1 DEF TypeOK
      <3>2. s \notin slotDB[n] /\ Lenient(n)  BY <2>1
      <3>3. QED  BY <1>0, <1>4, <3>1, <3>2, NewRMCNotAbove
    <2>2. CASE ~(k = n /\ new)
      <3>1. rmc'[k] = rmc[k]  BY <1>1, <2>2 DEF TypeOK
      <3>2. NotAbove(rmc[k], slotDB[k], t)  BY <1>4, <3>1 DEF Lenient
      <3>3. slotDB[k] \subseteq slotDB'[k]  BY <1>2
      <3>4. QED  BY <3>1, <3>2, <3>3 DEF NotAbove
    <2>3. QED  BY <2>1, <2>2
  <1>5. ASSUME NEW t \in Slot, rmc'[k][t] # None
        PROVE  NotAbove(rmc[k], slotDB[k], t)'
    <2>1. NotAbove(rmc'[k], slotDB'[k], t)  BY <1>4, <1>5
    <2>2. CASE t # 0 /\ IsBoundary(t)
      <3>1. t \in 0 .. now
        <4>1. t \in slotDB'[k]  BY <2>1, <2>2 DEF NotAbove
        <4>2. QED  BY <1>3, <4>1
      <3>2. Traffic(t)' = Traffic(t)  BY <3>1
      <3>3. QED  BY <2>1, <2>2, <3>2 DEF NotAbove, IsBoundary, CostIn
    <2>3. CASE ~(t # 0 /\ IsBoundary(t))
      BY <2>1, <2>3 DEF NotAbove, IsBoundary, CostIn
    <2>4. QED  BY <2>2, <2>3
  <1>6. QED  BY <1>3, <1>5 DEF Lenient

\* Steps in which no node comes to a slot.
LEMMA StayLenient ==
    ASSUME AgreeInv, \A k \in Node : Lenient(k), UNCHANGED <<issued, slotDB, rmc>>,
           now' \in Nat, now' >= now
    PROVE  \A k \in Node : Lenient(k)'
  <1> TAKE k \in Node
  <1>0. now \in Nat  BY BoundAssumption DEF AgreeInv, CostInv, TypeOK
  <1>1. \A t : Traffic(t)' = Traffic(t)
    <2> TAKE t
    <2>1. Counted(t)' = Counted(t)  BY DEF Counted, CountedSlots
    <2>2. QED  BY <2>1, Zenon DEF Traffic
  <1>2. slotDB'[k] \subseteq 0 .. now'  BY <1>0 DEF Lenient
  <1>3. \A t \in Slot : rmc[k][t] # None => NotAbove(rmc[k], slotDB[k], t)'
    BY <1>1 DEF Lenient, NotAbove, IsBoundary, CostIn
  <1>4. QED  BY <1>2, <1>3 DEF Lenient

LEMMA LenientNext == LenientInv /\ [Next]_vars => LenientInv'
  <1> SUFFICES ASSUME LenientInv, [Next]_vars PROVE \A k \in Node : Lenient(k)'
    BY AgreeNext DEF LenientInv
  <1> AgreeInv /\ CostInv /\ TypeOK /\ \A k \in Node : Lenient(k)
    BY DEF LenientInv, AgreeInv, CostInv
  <1>0. now \in Nat /\ now \in 0 .. now /\ now \in 0 .. LastSlot /\ issued \in Seq(Created)
    BY BoundAssumption DEF TypeOK, Created
  <1>1. CASE AdvanceClock
    BY <1>0, <1>1, StayLenient DEF AdvanceClock
  <1>2. ASSUME NEW n \in Node, CreateMessage(n) PROVE \A k \in Node : Lenient(k)'
    <2> DEFINE x == [issuer |-> n, slot |-> now, burn |-> Burned(n)]
    <2>1. Enter(n, now, now \notin slotDB[n]) /\ (now \in slotDB[n] => Computed(n, now))
      BY <1>2 DEF CreateMessage, RMC, CostInv
    <2>2. now' = now /\ (issued' = issued \/ issued' = Append(issued, x))
      BY <1>2 DEF CreateMessage
    <2>3. x \in Created /\ x.slot = now
      <3>1. rmc'[n][now] \in Nat  BY <1>0, <2>1, EnterKeepsCosts
      <3>2. QED  BY <1>0, <3>1 DEF Burned, Created
    <2> HIDE DEF x
    <2>4. \A t \in 0 .. now : Traffic(t)' = Traffic(t)  BY <2>2, <2>3, TrafficFixed
    <2>5. QED  BY <1>0, <2>1, <2>2, <2>4, EnterLenient
  <1>3. ASSUME NEW n \in Node, NEW m \in DOMAIN issued, Store(n, m)
        PROVE  \A k \in Node : Lenient(k)'
    <2> DEFINE s == issued[m].slot
    <2>1. s \in 0 .. now /\ now' = now /\ issued' = issued
      <3>1. s \in 0 .. LastSlot /\ s <= now  BY SlotOfMessage DEF AgreeInv
      <3>2. QED  BY <1>0, <1>3, <3>1, BoundAssumption DEF Store
    <2>2. Enter(n, s, rmc[n][s] = None)  BY <1>3 DEF Store
    <2>3. rmc[n][s] = None => s \notin slotDB[n]  BY DEF CostInv, Computed
    <2> HIDE DEF s
    <2>4. \A t \in 0 .. now : Traffic(t)' = Traffic(t)  BY <2>1, TrafficFixed
    <2>5. QED  BY <2>1, <2>2, <2>3, <2>4, EnterLenient
  <1>4. ASSUME NEW n \in Node, Tick(n) PROVE \A k \in Node : Lenient(k)'
    <2>1. now' = now /\ issued' = issued  BY <1>4 DEF Tick
    <2>2. CASE metered
      <3>1. Enter(n, now, now \notin slotDB[n])
        BY <1>4, <2>2 DEF Tick, MonitorLocalMetrics, RMC
      <3>2. \A t \in 0 .. now : Traffic(t)' = Traffic(t)  BY <2>1, TrafficFixed
      <3>3. QED  BY <1>0, <2>1, <3>1, <3>2, EnterLenient
    <2>3. CASE ~metered
      BY <1>0, <1>4, <2>1, <2>3, StayLenient DEF Tick, MonitorLocalMetrics
    <2>4. QED  BY <2>2, <2>3
  <1>5. CASE UNCHANGED vars
    BY <1>0, <1>5, StayLenient DEF vars
  <1>6. QED  BY <1>1, <1>2, <1>3, <1>4, <1>5 DEF Next

LEMMA InitLenient == Init => LenientInv
  <1> SUFFICES ASSUME Init PROVE \A k \in Node : Lenient(k)
    BY InitAgree DEF LenientInv
  <1>1. QED  BY DEF Init, Lenient

LEMMA LenientInvariance == Spec => []LenientInv
  BY InitLenient, LenientNext, PTL DEF Spec

\* From slot to slot no node's cost gets above that of one that is not misled.
LEMMA CostsBelow ==
    ASSUME LenientInv, NEW n \in Node, NEW k \in Node \ Misled, NEW s \in slotDB[n] \cap slotDB[k]
    PROVE  rmc[n][s] <= rmc[k][s]
  <1> DEFINE G == {t \in 0 .. s : rmc[n][t] # None => rmc[n][t] <= rmc[k][t]}
  <1>0. /\ AgreeInv /\ CostInv /\ TypeOK /\ Lenient(n) /\ Regular(k)
        /\ RMCmin \in Nat /\ RMCmax \in Nat /\ RMCmin <= RMCmax
    BY CostAssumption DEF LenientInv, AgreeInv, CostInv
  <1>1. s \in Nat /\ s \in Slot /\ 0 .. s \subseteq Slot
    BY <1>0, BoundAssumption, TimeAssumption DEF TypeOK, Slot
  <1>2. 0 .. s \subseteq slotDB[k]
    BY <1>0, <1>1 DEF Regular, InTurn
  <1>3. \A t \in 0 .. s : /\ Follows(rmc[k], slotDB[k], t)
                          /\ rmc[k][t] \in RMCmin .. RMCmax
    BY <1>0, <1>1, <1>2 DEF Regular, CostInv, Computed, Misled
  <1>4. \A t \in 0 .. s : rmc[n][t] # None => NotAbove(rmc[n], slotDB[n], t)
    BY <1>0, <1>1 DEF Lenient
  <1>5. 0 \in G
    <2>1. rmc[n][0] # None => rmc[n][0] = InitialRMC  BY <1>1, <1>4 DEF NotAbove
    <2>2. rmc[k][0] = InitialRMC /\ rmc[k][0] \in Int  BY <1>1, <1>3 DEF Follows
    <2>3. QED  BY <1>1, <2>1, <2>2
  <1>6. ASSUME NEW t \in 0 .. s, t \in G, t < s PROVE t + 1 \in G
    <2> SUFFICES ASSUME rmc[n][t + 1] # None PROVE rmc[n][t + 1] <= rmc[k][t + 1]
      BY <1>1, <1>6
    <2> DEFINE c == CostIn(rmc[n], t)
               d == rmc[k][t]
               T == Traffic(t + 1) \div RMCPeriodUpdate
    <2>1. t + 1 \in 0 .. s /\ t + 1 \in Nat /\ t + 1 # 0 /\ (t + 1) - 1 = t  BY <1>1, <1>6
    <2>2. d \in RMCmin .. RMCmax  BY <1>3
    <2>3. c \in Nat /\ c <= d
      <3>1. rmc[n][t] # None => rmc[n][t] \in Nat
        BY <1>0, <1>1 DEF TypeOK
      <3>2. QED  BY <1>0, <1>6, <2>2, <3>1 DEF CostIn
    <2>4. /\ IsBoundary(t + 1) => rmc[n][t + 1] <= Updated(Lifted(c), T)
          /\ ~IsBoundary(t + 1) => rmc[n][t + 1] <= c
      BY <1>4, <2>1 DEF NotAbove
    <2>5. rmc[k][t + 1] = IF IsBoundary(t + 1) THEN Updated(d, T) ELSE d
      BY <1>3, <2>1 DEF Follows
    <2>6. T \in Int  BY <1>0, <2>1, CountsAtMostTraffic
    <2>7. rmc[n][t + 1] \in Nat
      BY <1>0, <1>1, <2>1 DEF TypeOK
    <2> HIDE DEF c, d, T
    <2>8. Lifted(c) \in Nat /\ Lifted(c) <= d  BY <1>0, <2>2, <2>3 DEF Lifted
    <2>9. Updated(Lifted(c), T) <= Updated(d, T)
      BY <2>2, <2>6, <2>8, UpdatedMonotone
    <2>10. Updated(Lifted(c), T) \in Nat /\ Updated(d, T) \in Nat
      <3>1. d \in Nat  BY <1>0, <2>2
      <3>2. QED  BY <2>6, <2>8, <3>1, UpdatedInRange
    <2>11. CASE IsBoundary(t + 1)
      BY <2>4, <2>5, <2>7, <2>9, <2>10, <2>11
    <2>12. CASE ~IsBoundary(t + 1)
      BY <1>0, <2>2, <2>3, <2>4, <2>5, <2>7, <2>12
    <2>13. QED  BY <2>11, <2>12
  <1> HIDE DEF G
  <1>7. 0 .. s \subseteq G  BY <1>1, <1>5, <1>6, NumberInduction
  <1>8. s \in G  BY <1>1, <1>7
  <1>9. rmc[n][s] # None  BY <1>0 DEF CostInv, Computed
  <1>10. QED  BY <1>8, <1>9 DEF G

LEMMA PaidAccepted == LenientInv => PaidMessagesAccepted
  <1> SUFFICES ASSUME LenientInv, NEW m \in DOMAIN issued, NEW n \in Node,
                      issued[m].issuer \notin Misled, issued[m].slot \in slotDB[n]
               PROVE  issued[m].burn >= rmc[n][issued[m].slot]
    BY DEF PaidMessagesAccepted
  <1> DEFINE i == issued[m].issuer
             s == issued[m].slot
  <1>0. AgreeInv /\ TypeOK /\ i \in Node  BY SlotOfMessage DEF LenientInv, AgreeInv, CostInv
  <1>1. s \in slotDB[i] /\ issued[m].burn = rmc[i][s]  BY <1>0 DEF AgreeInv, PaidAtCost
  <1>2. rmc[n][s] <= rmc[i][s]  BY <1>0, <1>1, CostsBelow
  <1>3. rmc[n][s] \in Int /\ rmc[i][s] \in Int
    <2>1. s \in Slot  BY <1>0, SlotOfMessage, BoundAssumption, TimeAssumption DEF Slot
    <2>2. QED  BY <1>0, <2>1 DEF TypeOK
  <1> HIDE DEF i, s
  <1>4. issued[m].burn >= rmc[n][s]  BY <1>1, <1>2, <1>3
  <1>5. QED  BY <1>4 DEF s

-----------------------------------------------------------------------------
(* Theorems *)

\* The state keeps its shape: slots, costs and messages of Storage.
THEOREM TypeCorrect == Spec => []TypeOK
  <1>1. CostInv => TypeOK  BY DEF CostInv
  <1>2. QED  BY <1>1, Invariance, PTL

\* Whatever limits, steps and thresholds are configured, NewRMC leaves no cost
\* above the limit and, at a node that came to its slots in turn, none below.
THEOREM CostAlwaysInRange == Spec => []CostInRange
  <1>1. CostInv => CostInRange
    <2> SUFFICES ASSUME CostInv, NEW n \in Node, NEW s \in slotDB[n]
                 PROVE  /\ rmc[n][s] \in 0 .. RMCmax
                        /\ n \notin skipped => rmc[n][s] >= RMCmin
      BY DEF CostInRange
    <2>1. s \in Slot
      BY BoundAssumption, TimeAssumption DEF CostInv, TypeOK, Slot
    <2>2. rmc[n][s] \in 0 .. RMCmax  BY <2>1 DEF CostInv
    <2>3. ASSUME n \notin skipped PROVE rmc[n][s] \in RMCmin .. RMCmax
      BY <2>1, <2>3 DEF CostInv
    <2>4. QED  BY <2>2, <2>3, CostAssumption
  <1>2. QED  BY <1>1, Invariance, PTL

\* Nodes that came to the slots in turn and had the committable messages when
\* they counted have computed the same cost for every slot, for any number of
\* nodes and slots, although each counted at a time of its own (NewRMC).
THEOREM CostsAgree == Spec => []SameCost
  BY SameCosts, AgreeInvariance, PTL

\* No node refuses a message for which a node that is not misled has paid, not
\* even one that skipped slots or counted too few messages (Store, NewRMC).
THEOREM PaidNotRefused == Spec => []PaidMessagesAccepted
  BY PaidAccepted, LenientInvariance, PTL

-----------------------------------------------------------------------------
(* The ring *)

\* One round more for those the ring passes on its way to s.
Lap(s, j) == IF RingDistance(j) < RingDistance(s) THEN 1 ELSE 0

\* The round j may still get before the ring reaches i.
Ahead(i, j) == IF RingDistance(j) > RingDistance(i) THEN 1 ELSE 0

LEMMA DistanceOnRing ==
    ASSUME NEW r \in Issuer, roundRobin = r, NEW x \in Issuer
    PROVE  RingDistance(x) = IF x < r THEN x - r + NodesCount ELSE x - r
<1>1. NodesCount \in Nat \ {0} /\ x - r \in Int
  BY NodesCountAssumption DEF Issuer
<1>2. 0 <= (x - r) + NodesCount /\ x - r < NodesCount + NodesCount /\ x - r < NodesCount
  BY <1>1 DEF Issuer
<1>3. (x - r) % NodesCount = IF x - r < 0 THEN (x - r) + NodesCount ELSE x - r
  BY <1>1, <1>2, OneTurn
<1> QED
  BY <1>1, <1>3 DEF RingDistance, Issuer

\* Whom the ring passes more often than i it had still to pass before i.
LEMMA LapsBalance ==
    ASSUME roundRobin \in Issuer, NEW s \in Issuer, roundRobin' = s,
           NEW i \in Issuer, NEW j \in Issuer
    PROVE  Ahead(i, j) + Lap(s, j) <= Ahead(i, j)' + Lap(s, i)
<1>1. \A x \in Issuer : RingDistance(x) =
          IF x < roundRobin THEN x - roundRobin + NodesCount ELSE x - roundRobin
  BY DistanceOnRing
<1>2. \A x \in Issuer : RingDistance(x)' = IF x < s THEN x - s + NodesCount ELSE x - s
  <2> TAKE x \in Issuer
  <2>1. (x - s) % NodesCount = IF x < s THEN x - s + NodesCount ELSE x - s
    <3>1. NodesCount \in Nat \ {0} /\ x - s \in Int
      BY NodesCountAssumption DEF Issuer
    <3>2. 0 <= (x - s) + NodesCount /\ x - s < NodesCount + NodesCount /\ x - s < NodesCount
      BY <3>1 DEF Issuer
    <3>3. (x - s) % NodesCount = IF x - s < 0 THEN (x - s) + NodesCount ELSE x - s
      BY <3>1, <3>2, OneTurn
    <3> QED
      BY <3>1, <3>3 DEF Issuer
  <2> QED
    BY <2>1 DEF RingDistance
<1>3. /\ NodesCount \in Nat /\ i \in 0 .. NodesCount - 1 /\ j \in 0 .. NodesCount - 1
      /\ s \in 0 .. NodesCount - 1 /\ roundRobin \in 0 .. NodesCount - 1
  BY NodesCountAssumption DEF Issuer
<1>4. /\ Ahead(i, j)' = IF RingDistance(j)' > RingDistance(i)' THEN 1 ELSE 0
      /\ Ahead(i, j) = IF RingDistance(j) > RingDistance(i) THEN 1 ELSE 0
  BY DEF Ahead
<1> QED
  BY <1>1, <1>2, <1>3, <1>4 DEF Lap

-----------------------------------------------------------------------------
(* What a service changes *)

\* The rounds s has to wait for, as what they add to the deficit of j.
Gain(s, j) == (Need(s) * Quantum[j]) \div Quantum[s]

LEMMA Gains ==
    ASSUME DeficitsInRange, NEW s \in Issuer, NEW j \in Issuer
    PROVE  /\ deficits[j] \in 0 .. MaxDeficit
           /\ Quantum[j] \in Nat \ {0}
           /\ Need(j) \in Nat
           /\ deficits[j] + Need(j) >= Work
           /\ Gain(s, j) \in Nat
           /\ j = s => Gain(s, j) = Need(s)
           /\ DeficitsAfter(s)[j] = Capped(deficits[j] + Gain(s, j) + Lap(s, j) * Quantum[j])
                                    - (IF j = s THEN Work ELSE 0)
<1> USE QuantumAssumption, WorkAssumption, MaxDeficitAssumption
<1>1. deficits[j] \in 0 .. MaxDeficit /\ deficits[s] \in 0 .. MaxDeficit
  BY DEF DeficitsInRange
<1>2. Quantum[j] \in Nat \ {0} /\ Quantum[s] \in Nat \ {0}
  OBVIOUS
<1>3. /\ Need(j) \in Nat /\ deficits[j] + Need(j) >= Work
      /\ Need(s) \in Nat
  BY <1>1 DEF Need
<1>4. Gain(s, j) \in Nat
  BY <1>2, <1>3, TimesNat, DivNat DEF Gain
<1>5. j = s => Gain(s, j) = Need(s)
  BY <1>2, <1>3, DivExact DEF Gain
<1>6. Lap(s, j) * Quantum[j] = IF RingDistance(j) < RingDistance(s) THEN Quantum[j] ELSE 0
  BY <1>2 DEF Lap
<1>7. DeficitsAfter(s)[j] = Capped(deficits[j] + Gain(s, j) + Lap(s, j) * Quantum[j])
                            - (IF j = s THEN Work ELSE 0)
  BY <1>6 DEF DeficitsAfter, Gain
<1> QED
  BY <1>1, <1>2, <1>3, <1>4, <1>5, <1>7

\* What the selected issuer lacks is filled up before it pays, and nothing but
\* the payment ever lowers a deficit.
LEMMA ServeKeepsRange ==
    ASSUME DeficitsInRange, NEW s \in Issuer, NEW j \in Issuer
    PROVE  DeficitsAfter(s)[j] \in 0 .. MaxDeficit
<1> USE WorkAssumption, MaxDeficitAssumption
<1> DEFINE lap == Lap(s, j) * Quantum[j]
<1>1. lap \in Nat
  BY Gains DEF Lap
<1> HIDE DEF lap
<1>2. DeficitsAfter(s)[j] = Capped(deficits[j] + Gain(s, j) + lap)
                            - (IF j = s THEN Work ELSE 0)
  BY Gains DEF lap
<1>3. /\ deficits[j] \in 0 .. MaxDeficit /\ Need(j) \in Nat /\ deficits[j] + Need(j) >= Work
      /\ Gain(s, j) \in Nat /\ (j = s => Gain(s, j) = Need(s))
  BY Gains
<1>4. CASE j = s
  BY <1>1, <1>2, <1>3, <1>4 DEF Capped
<1>5. CASE j # s
  BY <1>1, <1>2, <1>3, <1>5 DEF Capped
<1> QED
  BY <1>4, <1>5

RingInv == RingTypeOK /\ DeficitsInRange

LEMMA InitRingInv == RingInit => RingInv
  BY NodesCountAssumption, MaxDeficitAssumption
     DEF RingInit, RingInv, RingTypeOK, DeficitsInRange, Issuer

LEMMA StepRingInv == RingInv /\ [RingNext]_ringVars => RingInv'
<1> SUFFICES ASSUME RingInv, [RingNext]_ringVars PROVE RingInv'
  OBVIOUS
<1> USE MaxBacklogAssumption DEF RingInv
<1>1. ASSUME NEW less, Arrivals(less)
      PROVE  backlog' \in [Issuer -> Nat]
  BY <1>1 DEF Arrivals
<1>2. CASE Arrive
  BY <1>1, <1>2 DEF Arrive, RingTypeOK, DeficitsInRange
<1>3. ASSUME NEW s \in Issuer, Serve(s) PROVE RingInv'
  <2>1. backlog' \in [Issuer -> Nat]
    BY <1>1, <1>3 DEF Serve
  <2>2. \A i \in Issuer : deficits'[i] \in 0 .. MaxDeficit
    BY <1>3, ServeKeepsRange DEF Serve
  <2>3. deficits' \in [Issuer -> Int]
    <3>1. deficits' = [i \in Issuer |-> deficits'[i]]
      BY <1>3 DEF Serve, DeficitsAfter
    <3> QED
      BY <2>2, <3>1, MaxDeficitAssumption
  <2> QED
    BY <1>3, <2>1, <2>2, <2>3 DEF Serve, RingTypeOK, DeficitsInRange
<1>4. ASSUME NEW i \in Issuer, Drop(i) PROVE RingInv'
  BY <1>4 DEF Drop, RingTypeOK, DeficitsInRange
<1>5. CASE UNCHANGED ringVars
  BY <1>5 DEF ringVars, RingTypeOK, DeficitsInRange
<1> QED
  BY <1>2, <1>3, <1>4, <1>5 DEF RingNext

\* The state of the round robin keeps its shape.
THEOREM RingTypeCorrect == RingSpec => []RingTypeOK
<1>1. RingInv => RingTypeOK
  BY DEF RingInv
<1> QED
  BY <1>1, InitRingInv, StepRingInv, PTL DEF RingSpec

\* No issuer of the ICCA+ scheduler ever sends on credit or hoards more than
\* MaxDeficit, for any number of issuers and all quanta.
THEOREM NoCredit == RingSpec => []DeficitsInRange
<1>1. RingInv => DeficitsInRange
  BY DEF RingInv
<1> QED
  BY <1>1, InitRingInv, StepRingInv, PTL DEF RingSpec

-----------------------------------------------------------------------------
(* How long the message of an issuer waits *)

\* No division by a quantum loses anything, as in the fractions of the code.
Exact == \A s \in Issuer : IsNext(s) =>
    \A j \in Issuer : Gain(s, j) * Quantum[s] = Need(s) * Quantum[j]

\* While issuer i waits: `served` counts the messages of the others since, and
\* `gain` is what the rounds and laps of the ring brought i.  That is never
\* more than it needs and one round, and what another issuer sent, with the
\* deficit it has left, it had at the start or gained from the same rounds.
Waits(i, served, gain) ==
    /\ overtaken[i] <= Total(served, Issuer \ {i})
    /\ gain <= Work + Quantum[i]
    /\ deficits[i] < Work => gain <= deficits[i]
    /\ \A j \in Issuer \ {i} :
          (served[j] * Work + deficits[j]) * Quantum[i]
              <= MaxDeficit * Quantum[i] + (gain + Ahead(i, j) * Quantum[i]) * Quantum[j]

Explained(i) == \E served \in [Issuer -> Nat], gain \in Nat : Waits(i, served, gain)

WaitInv ==
    /\ RingInv
    /\ overtaken \in [Issuer -> Nat]
    /\ \A i \in Issuer : Explained(i)

\* Rounds bring each issuer its share: two gains are as the quanta.
LEMMA GainsProportional ==
    ASSUME DeficitsInRange, Exact, NEW s \in Issuer, IsNext(s),
           NEW i \in Issuer, NEW j \in Issuer
    PROVE  Gain(s, j) * Quantum[i] = Gain(s, i) * Quantum[j]
<1> DEFINE n == Need(s)
           qs == Quantum[s]
           qi == Quantum[i]
           qj == Quantum[j]
           ri == Gain(s, i)
           rj == Gain(s, j)
<1>1. /\ n \in Nat /\ qs \in Nat \ {0} /\ qi \in Nat \ {0} /\ qj \in Nat \ {0}
      /\ ri \in Nat /\ rj \in Nat
  BY Gains
<1>2. ri * qs = n * qi /\ rj * qs = n * qj
  BY DEF Exact
<1> HIDE DEF n, qs, qi, qj, ri, rj
<1>3. (rj * qi) * qs = (rj * qs) * qi
  BY <1>1
<1>4. (rj * qs) * qi = (n * qi) * qj
  BY <1>1, <1>2
<1>5. (ri * qs) * qj = (ri * qj) * qs
  BY <1>1
<1>6. (rj * qi) * qs = (ri * qj) * qs
  BY <1>2, <1>3, <1>4, <1>5
<1>7. rj * qi \in Int /\ ri * qj \in Int
  BY <1>1
<1>8. rj * qi = ri * qj
  BY <1>1, <1>6, <1>7, TimesCancel
<1> QED
  BY <1>8 DEF qi, qj, ri, rj

\* The issuer that is served waits no longer than i, and if as long as i the
\* ring reaches it first: i gains no more than it lacks and one round.
LEMMA GainOfWaiting ==
    ASSUME RingInv, Exact, NEW s \in Issuer, IsNext(s),
           NEW i \in Backlogged \ {s}
    PROVE  \/ Gain(s, i) < Need(i)
           \/ Gain(s, i) = Need(i) /\ Lap(s, i) = 0
<1> DEFINE ri == Gain(s, i)
           n == Need(i)
           qs == Quantum[s]
<1>1. i \in Issuer /\ ri \in Nat /\ n \in Nat /\ qs \in Nat \ {0}
  BY Gains DEF Backlogged, RingInv
<1>2. ri * qs = Need(s) * Quantum[i]
  BY <1>1 DEF Exact
<1>3. CASE Sooner(s, i)
  <2>1. ri * qs < n * qs
    BY <1>2, <1>3 DEF Sooner
  <2> HIDE DEF ri, n, qs
  <2>2. ri < n
    BY <1>1, <2>1, TimesCancel
  <2> QED
    BY <2>2 DEF ri, n
<1>4. CASE ~Sooner(s, i)
  <2>1. ~Sooner(i, s) /\ RingDistance(s) < RingDistance(i)
    BY <1>4 DEF IsNext
  <2>2. ~(n * qs < ri * qs) /\ ~(ri * qs < n * qs)
    BY <1>2, <1>4, <2>1 DEF Sooner
  <2>3. ri = n
    <3> HIDE DEF ri, n, qs
    <3>1. ri * qs \in Int /\ n * qs \in Int
      BY <1>1
    <3> QED
      BY <1>1, <2>2, <3>1, TimesCancel
  <2>4. RingDistance(i) \in Int /\ RingDistance(s) \in Int
    <3>1. \A x \in Issuer : RingDistance(x) =
              IF x < roundRobin THEN x - roundRobin + NodesCount ELSE x - roundRobin
      BY DistanceOnRing DEF RingInv, RingTypeOK
    <3>2. NodesCount \in Int /\ roundRobin \in Int /\ i \in Int /\ s \in Int
      BY <1>1, NodesCountAssumption DEF RingInv, RingTypeOK, Issuer
    <3> QED
      BY <1>1, <3>1, <3>2
  <2> QED
    BY <2>1, <2>3, <2>4 DEF Lap
<1> QED
  BY <1>3, <1>4

\* An issuer that waits goes on to wait when another one is served.
LEMMA WaitGoesOn ==
    ASSUME RingInv, Exact, NEW s \in Issuer, Serve(s), NEW i \in Backlogged \ {s},
           NEW served \in [Issuer -> Nat], NEW gain \in Nat, Waits(i, served, gain),
           overtaken[i] \in Nat, overtaken'[i] \in Nat, overtaken'[i] <= overtaken[i] + 1
    PROVE  Explained(i)'
<1> USE QuantumAssumption, WorkAssumption, MaxDeficitAssumption
<1> DEFINE sent == [served EXCEPT ![s] = @ + 1]
           lap == Lap(s, i) * Quantum[i]
           gained == gain + Gain(s, i) + lap
<1>1. /\ i \in Issuer /\ IsNext(s) /\ DeficitsInRange /\ roundRobin \in Issuer
      /\ deficits' = DeficitsAfter(s) /\ roundRobin' = s
  BY DEF RingInv, RingTypeOK, Backlogged, Serve
<1>2. sent \in [Issuer -> Nat]
  OBVIOUS
<1>3. lap \in Nat /\ lap <= Quantum[i] /\ (Lap(s, i) = 0 => lap = 0)
  BY <1>1 DEF Lap
<1>4. gained \in Nat
  BY <1>1, <1>3, Gains
<1>5. overtaken'[i] <= Total(sent, Issuer \ {i})
  <2> DEFINE R == Issuer \ {i}
  <2>1. IsFiniteSet(Issuer) /\ IsFiniteSet(R) /\ IsFiniteSet(R \ {s}) /\ s \in R
    <3>1. IsFiniteSet(Issuer)
      BY NodesCountAssumption, FS_Interval DEF Issuer
    <3> QED
      BY <3>1, FS_Subset
  <2>2. Total(served, R) = served[s] + Total(served, R \ {s})
    BY <2>1, SumTake
  <2>3. Total(sent, R) = sent[s] + Total(sent, R \ {s})
    <3>1. \A x \in R : sent[x] \in Int
      BY <1>2
    <3> HIDE DEF R, sent
    <3> QED
      BY <2>1, <3>1, SumTake
  <2>4. Total(served, R \ {s}) = Total(sent, R \ {s})
    <3>1. \A x \in R \ {s} : served[x] \in Int /\ served[x] = sent[x]
      OBVIOUS
    <3> HIDE DEF R, sent
    <3> QED
      BY <2>1, <3>1, SumEqual
  <2>5. Total(served, R \ {s}) \in Nat
    BY <2>1, SumType
  <2>6. served[s] \in Nat /\ sent[s] = served[s] + 1
    OBVIOUS
  <2>7. overtaken[i] <= Total(served, R)
    BY DEF Waits
  <2> HIDE DEF R, sent
  <2> QED
    BY <2>2, <2>3, <2>4, <2>5, <2>6, <2>7 DEF R
<1>6. /\ deficits[i] \in 0 .. MaxDeficit /\ Gain(s, i) \in Nat /\ Need(i) \in Nat
      /\ deficits'[i] = Capped(deficits[i] + Gain(s, i) + lap)
  <2>1. /\ deficits[i] \in 0 .. MaxDeficit /\ Gain(s, i) \in Nat /\ Need(i) \in Nat
        /\ DeficitsAfter(s)[i] = Capped(deficits[i] + Gain(s, i) + Lap(s, i) * Quantum[i])
                                 - (IF i = s THEN Work ELSE 0)
    BY <1>1, Gains
  <2>2. Capped(deficits[i] + Gain(s, i) + lap) \in Int
    BY <1>3, <2>1 DEF Capped
  <2> QED
    BY <1>1, <2>1, <2>2
<1>7. /\ gain <= Work + Quantum[i]
      /\ deficits[i] < Work => gain <= deficits[i]
  BY DEF Waits
<1>8. \/ Gain(s, i) < Need(i)
      \/ Gain(s, i) = Need(i) /\ lap = 0
  BY <1>1, <1>3, GainOfWaiting
<1>9. gained <= Work + Quantum[i]
  <2>1. Quantum[i] \in Nat
    BY <1>1
  <2> HIDE DEF lap
  <2>2. CASE deficits[i] < Work
    BY <1>3, <1>6, <1>7, <1>8, <2>1, <2>2 DEF Need
  <2>3. CASE ~(deficits[i] < Work)
    BY <1>3, <1>6, <1>7, <1>8, <2>1, <2>3 DEF Need
  <2> QED
    BY <2>2, <2>3
<1>10. deficits'[i] < Work => gained <= deficits'[i]
  <2> HIDE DEF lap
  <2> QED
    BY <1>3, <1>6, <1>7 DEF Capped
<1>11. ASSUME NEW j \in Issuer \ {i}
       PROVE  (sent[j] * Work + deficits'[j]) * Quantum[i]
                <= MaxDeficit * Quantum[i] + (gained + Ahead(i, j)' * Quantum[i]) * Quantum[j]
  <2> DEFINE x == served[j] * Work + deficits[j]
             y == sent[j] * Work + deficits'[j]
             top == MaxDeficit * Quantum[i]
  <2>1. /\ deficits[j] \in Nat /\ Gain(s, j) \in Nat
        /\ deficits'[j] = Capped(deficits[j] + Gain(s, j) + Lap(s, j) * Quantum[j])
                          - (IF j = s THEN Work ELSE 0)
    BY <1>1, Gains
  <2>2. Lap(s, j) \in {0, 1} /\ Lap(s, i) \in {0, 1} /\ Ahead(i, j) \in {0, 1}
    BY DEF Lap, Ahead
  <2>3. Ahead(i, j)' \in {0, 1}
    BY DEF Ahead
  <2>4. Quantum[i] \in Nat /\ Quantum[j] \in Nat /\ Lap(s, j) * Quantum[j] \in Nat
    BY <1>1, <2>2, TimesNat
  <2>5. y <= x + Gain(s, j) + Lap(s, j) * Quantum[j]
    <3>1. sent[j] = IF j = s THEN served[j] + 1 ELSE served[j]
      OBVIOUS
    <3>2. served[j] \in Nat
      OBVIOUS
    <3>3. sent[j] * Work = served[j] * Work + (IF j = s THEN Work ELSE 0)
      BY <3>1, <3>2
    <3>4. served[j] * Work \in Nat
      BY <3>2, TimesNat
    <3> HIDE DEF sent
    <3> QED
      BY <2>1, <2>4, <3>3, <3>4 DEF Capped
  <2>6. x \in Int /\ y \in Int /\ top \in Int
    <3>1. served[j] \in Nat /\ sent[j] \in Nat
      OBVIOUS
    <3>2. served[j] * Work \in Nat /\ sent[j] * Work \in Nat /\ top \in Nat
      BY <2>4, <3>1, TimesNat
    <3>3. deficits'[j] \in Int
      BY <2>1, <2>4 DEF Capped
    <3> HIDE DEF sent
    <3> QED
      BY <2>1, <3>2, <3>3
  <2>7. x * Quantum[i] <= top + (gain + Ahead(i, j) * Quantum[i]) * Quantum[j]
    BY DEF Waits
  <2>8. Ahead(i, j) + Lap(s, j) <= Ahead(i, j)' + Lap(s, i)
    BY <1>1, LapsBalance
  <2>9. Gain(s, j) * Quantum[i] = Gain(s, i) * Quantum[j]
    BY <1>1, GainsProportional
  <2> DEFINE qi == Quantum[i]
             qj == Quantum[j]
             ri == Gain(s, i)
             rj == Gain(s, j)
             li == Lap(s, i)
             lj == Lap(s, j)
             e  == Ahead(i, j)
             f  == Ahead(i, j)'
             p  == qi * qj
  <2>10. /\ qi \in Nat /\ qj \in Nat /\ ri \in Nat /\ rj \in Nat /\ p \in Nat
         /\ li \in {0, 1} /\ lj \in {0, 1} /\ e \in {0, 1} /\ f \in {0, 1}
    BY <1>6, <2>1, <2>2, <2>3, <2>4, TimesNat
  <2>11. y <= x + rj + lj * qj
    BY <2>5
  <2>12. x * qi <= top + (gain + e * qi) * qj
    BY <2>7
  <2>13. e + lj <= f + li /\ rj * qi = ri * qj
    BY <2>8, <2>9
  <2>14. (e + lj) * p <= (f + li) * p
    BY <2>10, <2>13, TimesMonotone
  <2> HIDE DEF x, y, top, qi, qj, ri, rj, li, lj, e, f
  <2>15. y * qi <= (x + rj + lj * qj) * qi
    <3>1. lj * qj \in Int
      BY <2>10
    <3> QED
      BY <2>6, <2>10, <2>11, <3>1, TimesMonotone
  <2>16. (x + rj + lj * qj) * qi = x * qi + rj * qi + lj * p
    BY <2>6, <2>10
  <2>17. (gain + e * qi) * qj = gain * qj + e * p
    BY <2>10
  <2>18. ((gain + ri + li * qi) + f * qi) * qj = gain * qj + ri * qj + li * p + f * p
    BY <2>10
  <2>19. e * p + lj * p <= f * p + li * p
    <3> HIDE DEF p
    <3> QED
      BY <2>10, <2>14
  <2>20. /\ x * qi \in Int /\ rj * qi \in Int /\ gain * qj \in Int /\ y * qi \in Int
         /\ e * p \in Int /\ lj * p \in Int /\ f * p \in Int /\ li * p \in Int
    BY <2>6, <2>10
  <2>21. y * qi <= top + ((gain + ri + li * qi) + f * qi) * qj
    <3> HIDE DEF p
    <3> QED
      BY <2>6, <2>12, <2>13, <2>15, <2>16, <2>17, <2>18, <2>19, <2>20
  <2> QED
    BY <2>21 DEF y, top, qi, qj, ri, li, f
<1> HIDE DEF sent, gained
<1> QED
  BY <1>2, <1>4, <1>5, <1>9, <1>10, <1>11 DEF Waits, Explained

\* An issuer that does not wait, or is served itself, starts anew.
LEMMA WaitStarts ==
    ASSUME DeficitsInRange', NEW i \in Issuer, overtaken'[i] = 0
    PROVE  Explained(i)'
<1> USE QuantumAssumption, WorkAssumption, MaxDeficitAssumption
<1> DEFINE none == [j \in Issuer |-> 0]
<1>1. none \in [Issuer -> Nat] /\ 0 \in Nat
  OBVIOUS
<1>2. Total(none, Issuer \ {i}) \in Nat
  <2>1. IsFiniteSet(Issuer \ {i})
    <3>1. IsFiniteSet(Issuer)
      BY NodesCountAssumption, FS_Interval DEF Issuer
    <3> QED
      BY <3>1, FS_Subset
  <2>2. \A x \in Issuer \ {i} : none[x] \in Nat
    OBVIOUS
  <2> HIDE DEF none
  <2> QED
    BY <2>1, <2>2, SumType
<1>3. Quantum[i] \in Nat /\ deficits'[i] \in Nat
  BY DEF DeficitsInRange
<1>4. ASSUME NEW j \in Issuer \ {i}
      PROVE  (none[j] * Work + deficits'[j]) * Quantum[i]
               <= MaxDeficit * Quantum[i] + (0 + Ahead(i, j)' * Quantum[i]) * Quantum[j]
  <2>1. deficits'[j] \in 0 .. MaxDeficit /\ Quantum[j] \in Nat
    BY DEF DeficitsInRange
  <2>2. none[j] * Work + deficits'[j] = deficits'[j]
    BY <2>1
  <2>3. Ahead(i, j)' \in Nat
    BY DEF Ahead
  <2>4. (Ahead(i, j)' * Quantum[i]) * Quantum[j] \in Nat
    BY <1>3, <2>1, <2>3, TimesNat
  <2>5. deficits'[j] * Quantum[i] <= MaxDeficit * Quantum[i]
    BY <1>3, <2>1, TimesMonotone
  <2>6. deficits'[j] * Quantum[i] \in Int /\ MaxDeficit * Quantum[i] \in Int
    BY <1>3, <2>1
  <2>7. 0 + Ahead(i, j)' * Quantum[i] = Ahead(i, j)' * Quantum[i]
    BY <1>3, <2>3
  <2> HIDE DEF none
  <2> QED
    BY <2>2, <2>4, <2>5, <2>6, <2>7
<1> HIDE DEF none
<1> QED
  BY <1>1, <1>2, <1>3, <1>4 DEF Waits, Explained

LEMMA HistoryIsRing ==
    [HistoryNext]_historyVars => [RingNext]_ringVars
  BY DEF HistoryNext, RingNext, historyVars, ringVars

\* What does not move the ring or a deficit leaves an explanation valid.
LEMMA ExplainedStays ==
    ASSUME NEW i \in Issuer, Explained(i), UNCHANGED <<deficits, roundRobin>>,
           overtaken'[i] = overtaken[i]
    PROVE  Explained(i)'
<1>1. PICK served \in [Issuer -> Nat], gain \in Nat : Waits(i, served, gain)
  BY DEF Explained
<1>2. \A j : Ahead(i, j)' = Ahead(i, j)
  BY DEF Ahead, RingDistance
<1>3. Waits(i, served, gain)'
  BY <1>1, <1>2 DEF Waits
<1> QED
  BY <1>3 DEF Explained

LEMMA InitWaitInv == HistoryInit => WaitInv
<1> SUFFICES ASSUME HistoryInit PROVE WaitInv
  OBVIOUS
<1>1. RingInv
  BY InitRingInv DEF HistoryInit
<1>2. overtaken \in [Issuer -> Nat]
  BY DEF HistoryInit
<1>3. ASSUME NEW i \in Issuer PROVE Explained(i)
  <2> DEFINE none == [j \in Issuer |-> 0]
  <2>1. none \in [Issuer -> Nat] /\ 0 \in Nat
    OBVIOUS
  <2>2. Total(none, Issuer \ {i}) \in Nat
    <3>1. IsFiniteSet(Issuer \ {i})
      <4>1. IsFiniteSet(Issuer)
        BY NodesCountAssumption, FS_Interval DEF Issuer
      <4> QED
        BY <4>1, FS_Subset
    <3>2. \A x \in Issuer \ {i} : none[x] \in Nat
      OBVIOUS
    <3> HIDE DEF none
    <3> QED
      BY <3>1, <3>2, SumType
  <2>3. Quantum[i] \in Nat /\ deficits[i] = 0 /\ overtaken[i] = 0
    BY QuantumAssumption DEF HistoryInit, RingInit
  <2>4. ASSUME NEW j \in Issuer \ {i}
        PROVE  (none[j] * Work + deficits[j]) * Quantum[i]
                 <= MaxDeficit * Quantum[i] + (0 + Ahead(i, j) * Quantum[i]) * Quantum[j]
    <3>1. Quantum[j] \in Nat /\ none[j] * Work + deficits[j] = 0
      BY QuantumAssumption, WorkAssumption DEF HistoryInit, RingInit
    <3>2. Ahead(i, j) \in Nat
      BY DEF Ahead
    <3>3. (Ahead(i, j) * Quantum[i]) * Quantum[j] \in Nat /\ MaxDeficit * Quantum[i] \in Nat
      BY <2>3, <3>1, <3>2, MaxDeficitAssumption, TimesNat
    <3>4. 0 + Ahead(i, j) * Quantum[i] = Ahead(i, j) * Quantum[i] /\ 0 * Quantum[i] = 0
      BY <2>3, <3>2
    <3> HIDE DEF none
    <3> QED
      BY <3>1, <3>3, <3>4
  <2> HIDE DEF none
  <2> QED
    BY <2>1, <2>2, <2>3, <2>4, WorkAssumption DEF Waits, Explained
<1> QED
  BY <1>1, <1>2, <1>3 DEF WaitInv

LEMMA StepWaitInv == WaitInv /\ Exact /\ [HistoryNext]_historyVars => WaitInv'
<1> SUFFICES ASSUME WaitInv, Exact, [HistoryNext]_historyVars PROVE WaitInv'
  OBVIOUS
<1>1. RingInv /\ RingInv' /\ DeficitsInRange'
  BY HistoryIsRing, StepRingInv DEF WaitInv, RingInv
<1>2. CASE Arrive /\ UNCHANGED overtaken
  BY <1>1, <1>2, ExplainedStays DEF WaitInv, Arrive
<1>3. ASSUME NEW s \in Issuer, Serve(s),
             overtaken' = [i \in Issuer |->
                IF i = s \/ i \notin Backlogged THEN 0 ELSE OneMore(i)]
      PROVE  WaitInv'
  <2>1. overtaken \in [Issuer -> Nat]
    BY DEF WaitInv
  <2>2. \A i \in Issuer : OneMore(i) \in {overtaken[i], overtaken[i] + 1}
    BY DEF OneMore
  <2>3. overtaken' \in [Issuer -> Nat]
    BY <1>3, <2>1, <2>2
  <2>4. ASSUME NEW i \in Issuer PROVE Explained(i)'
    <3>1. CASE i = s \/ i \notin Backlogged
      BY <1>1, <1>3, <3>1, WaitStarts
    <3>2. CASE i \in Backlogged \ {s}
      <4>1. PICK served \in [Issuer -> Nat], gain \in Nat : Waits(i, served, gain)
        BY DEF WaitInv, Explained
      <4>2. overtaken[i] \in Nat /\ overtaken'[i] \in Nat /\ overtaken'[i] <= overtaken[i] + 1
        BY <1>3, <2>1, <2>2, <2>3, <3>2
      <4> QED
        BY <1>1, <1>3, <3>2, <4>1, <4>2, WaitGoesOn
    <3> QED
      BY <3>1, <3>2
  <2> QED
    BY <1>1, <2>3, <2>4 DEF WaitInv
<1>4. ASSUME NEW i \in Issuer, Drop(i),
             overtaken' = [overtaken EXCEPT ![i] = IF backlog[i] = 1 THEN 0 ELSE @]
      PROVE  WaitInv'
  <2>1. overtaken' \in [Issuer -> Nat]
    BY <1>4 DEF WaitInv
  <2>2. ASSUME NEW k \in Issuer PROVE Explained(k)'
    <3>1. CASE overtaken'[k] = overtaken[k]
      BY <1>4, <3>1, ExplainedStays DEF WaitInv, Drop
    <3>2. CASE overtaken'[k] = 0
      BY <1>1, <3>2, WaitStarts
    <3> QED
      BY <1>4, <3>1, <3>2 DEF WaitInv
  <2> QED
    BY <1>1, <2>1, <2>2 DEF WaitInv
<1>5. CASE UNCHANGED historyVars
  BY <1>1, <1>5, ExplainedStays DEF WaitInv, historyVars, ringVars
<1> QED
  BY <1>2, <1>3, <1>4, <1>5 DEF HistoryNext

\* What one other issuer sends before i is at most its share.
LEMMA WithinShare ==
    ASSUME DeficitsInRange, NEW i \in Issuer, NEW served \in [Issuer -> Nat],
           NEW gain \in Nat, Waits(i, served, gain), NEW j \in Issuer \ {i}
    PROVE  Share(i)[j] \in Int /\ served[j] <= Share(i)[j]
<1> USE QuantumAssumption, WorkAssumption, MaxDeficitAssumption
<1> DEFINE n == served[j]
           d == deficits[j]
           qi == Quantum[i]
           qj == Quantum[j]
           e == Ahead(i, j)
           most == (Work + 2 * qi) * qj
<1>1. n \in Nat /\ d \in Nat /\ qi \in Nat \ {0} /\ qj \in Nat /\ e \in {0, 1}
  BY DEF DeficitsInRange, Ahead
<1>2. /\ gain <= Work + qi
      /\ (n * Work + d) * qi <= MaxDeficit * qi + (gain + e * qi) * qj
  BY DEF Waits
<1>3. Share(i)[j] = (MaxDeficit + most \div qi) \div Work
  BY DEF Share
<1> HIDE DEF n, d, qi, qj, e
<1>4. most \in Nat
  <2>1. Work + 2 * qi \in Nat
    BY <1>1
  <2> QED
    BY <1>1, <2>1, TimesNat
<1>5. (gain + e * qi) * qj <= most
  <2>1. e * qi <= qi /\ e * qi \in Int
    BY <1>1
  <2>2. gain + e * qi <= Work + 2 * qi /\ gain + e * qi \in Int /\ Work + 2 * qi \in Int
    BY <1>1, <1>2, <2>1
  <2> QED
    BY <1>1, <2>2, TimesMonotone
<1>6. (gain + e * qi) * qj \in Int /\ (n * Work) \in Nat
  BY <1>1, TimesNat
<1> HIDE DEF most
<1>7. (n * Work - MaxDeficit) * qi <= most
  <2>1. (n * Work + d) * qi = (n * Work) * qi + d * qi
    BY <1>1, <1>6
  <2>2. d * qi \in Nat
    BY <1>1, TimesNat
  <2>3. (n * Work - MaxDeficit) * qi = (n * Work) * qi - MaxDeficit * qi
    BY <1>1, <1>6
  <2>4. (n * Work) * qi \in Int /\ MaxDeficit * qi \in Int
    BY <1>1, <1>6
  <2> QED
    BY <1>2, <1>4, <1>5, <1>6, <2>1, <2>2, <2>3, <2>4
<1>8. n * Work - MaxDeficit <= most \div qi
  <2> DEFINE a == n * Work - MaxDeficit
  <2>1. a \in Int /\ most \in Int /\ qi \in Nat \ {0} /\ a * qi <= most
    BY <1>1, <1>4, <1>6, <1>7
  <2> HIDE DEF a
  <2>2. a <= most \div qi
    BY <2>1, DivAtLeast
  <2> QED
    BY <2>2 DEF a
<1>9. most \div qi \in Nat
  BY <1>1, <1>4, DivNat
<1>10. MaxDeficit + most \div qi \in Nat /\ n * Work <= MaxDeficit + most \div qi
  BY <1>6, <1>8, <1>9
<1>11. n <= (MaxDeficit + most \div qi) \div Work
  <2> DEFINE b == MaxDeficit + most \div qi
  <2>1. n \in Int /\ b \in Int /\ n * Work <= b
    BY <1>1, <1>10
  <2> HIDE DEF b
  <2>2. n <= b \div Work
    BY <2>1, DivAtLeast
  <2> QED
    BY <2>2 DEF b
<1>12. (MaxDeficit + most \div qi) \div Work \in Nat
  BY <1>10, DivNat
<1> QED
  BY <1>3, <1>11, <1>12 DEF n

LEMMA ExplainedIsBounded == WaitInv => BoundedOvertaking
<1> SUFFICES ASSUME WaitInv, NEW i \in Issuer PROVE overtaken[i] <= Patience(i)
  BY DEF BoundedOvertaking
<1>1. PICK served \in [Issuer -> Nat], gain \in Nat : Waits(i, served, gain)
  BY DEF WaitInv, Explained
<1> DEFINE R == Issuer \ {i}
<1>2. IsFiniteSet(R)
  <2>1. IsFiniteSet(Issuer)
    BY NodesCountAssumption, FS_Interval DEF Issuer
  <2> QED
    BY <2>1, FS_Subset
<1>3. \A j \in R : served[j] \in Int /\ Share(i)[j] \in Int /\ served[j] <= Share(i)[j]
  BY <1>1, WithinShare DEF WaitInv, RingInv
<1>4. overtaken[i] <= Total(served, R) /\ overtaken[i] \in Nat
  BY <1>1 DEF Waits, WaitInv
<1>5. Patience(i) = Total(Share(i), R)
  BY DEF Patience, Total
<1> HIDE DEF R
<1>6. Total(served, R) <= Total(Share(i), R)
  BY <1>2, <1>3, SumMonotone
<1>7. Total(served, R) \in Int /\ Total(Share(i), R) \in Int
  BY <1>2, <1>3, SumType
<1> QED
  BY <1>4, <1>5, <1>6, <1>7

\* As long as rounding loses nothing, no message of an issuer waits for more
\* messages of the others than its patience allows: for any number of issuers,
\* any quanta, work and cap, and whatever the others send or the buffer drops.
THEOREM OvertakingBounded == HistorySpec /\ []Exact => []BoundedOvertaking
  BY InitWaitInv, StepWaitInv, ExplainedIsBounded, PTL DEF HistorySpec

\* Rounding loses nothing if every quantum divides the work and the cap.
Whole(i, x) == \E k \in Int : x = k * Quantum[i]
WholeRounds == \A i \in Issuer : Whole(i, Work) /\ Whole(i, MaxDeficit)
WholeDeficits == \A i \in Issuer : Whole(i, deficits[i])

\* Then an issuer waits for a whole number of rounds.
LEMMA WholeGains ==
    ASSUME WholeRounds, WholeDeficits, DeficitsInRange, NEW s \in Issuer
    PROVE  \E k \in Nat : /\ Need(s) = k * Quantum[s]
                          /\ \A j \in Issuer : Gain(s, j) = k * Quantum[j]
<1> USE WorkAssumption, MaxDeficitAssumption, QuantumAssumption
<1>1. Quantum[s] \in Nat \ {0} /\ Need(s) \in Nat
  BY Gains
<1>2. PICK k \in Int : Need(s) = k * Quantum[s]
  <2>1. CASE deficits[s] >= Work
    <3>1. Need(s) = 0 * Quantum[s]
      BY <1>1, <2>1 DEF Need
    <3> QED
      BY <3>1
  <2>2. CASE ~(deficits[s] >= Work)
    <3>1. PICK w \in Int : Work = w * Quantum[s]
      BY DEF WholeRounds, Whole
    <3>2. PICK d \in Int : deficits[s] = d * Quantum[s]
      BY DEF WholeDeficits, Whole
    <3>3. Need(s) = (w - d) * Quantum[s]
      BY <1>1, <2>2, <3>1, <3>2 DEF Need
    <3>4. w - d \in Int
      OBVIOUS
    <3> QED
      BY <3>3, <3>4
  <2> QED
    BY <2>1, <2>2
<1>3. k \in Nat
  <2>1. 0 * Quantum[s] <= k * Quantum[s]
    BY <1>1, <1>2
  <2> QED
    BY <1>1, <2>1, TimesCancel
<1>4. ASSUME NEW j \in Issuer PROVE Gain(s, j) = k * Quantum[j]
  <2>1. Quantum[j] \in Nat
    OBVIOUS
  <2>2. (k * Quantum[s]) * Quantum[j] = (k * Quantum[j]) * Quantum[s]
    BY <1>1, <1>3, <2>1
  <2>3. k * Quantum[j] \in Nat
    BY <1>3, <2>1, TimesNat
  <2>4. Gain(s, j) = ((k * Quantum[j]) * Quantum[s]) \div Quantum[s]
    BY <1>2, <2>2 DEF Gain
  <2> QED
    BY <1>1, <2>3, <2>4, DivExact
<1> QED
  BY <1>2, <1>3, <1>4

LEMMA WholeIsExact == WholeRounds /\ WholeDeficits /\ RingInv => Exact
<1> SUFFICES ASSUME WholeRounds, WholeDeficits, RingInv, NEW s \in Issuer, NEW j \in Issuer
             PROVE  Gain(s, j) * Quantum[s] = Need(s) * Quantum[j]
  BY DEF Exact
<1>1. PICK k \in Nat : Need(s) = k * Quantum[s] /\ \A i \in Issuer : Gain(s, i) = k * Quantum[i]
  BY WholeGains DEF RingInv
<1>2. Quantum[s] \in Nat /\ Quantum[j] \in Nat
  BY QuantumAssumption
<1> QED
  BY <1>1, <1>2

LEMMA StepWholeDeficits ==
    ASSUME WholeRounds, WholeDeficits, RingInv, [RingNext]_ringVars
    PROVE  WholeDeficits'
<1>1. ASSUME NEW s \in Issuer, Serve(s), NEW j \in Issuer PROVE Whole(j, deficits'[j])
  <2>1. PICK k \in Nat : \A i \in Issuer : Gain(s, i) = k * Quantum[i]
    BY WholeGains DEF RingInv
  <2>2. PICK w \in Int : Work = w * Quantum[j]
    BY DEF WholeRounds, Whole
  <2>3. PICK m \in Int : MaxDeficit = m * Quantum[j]
    BY DEF WholeRounds, Whole
  <2>4. PICK d \in Int : deficits[j] = d * Quantum[j]
    BY DEF WholeDeficits, Whole
  <2> DEFINE q == Quantum[j]
             lap == Lap(s, j)
             pay == IF j = s THEN w ELSE 0
  <2>5. deficits'[j] = Capped(deficits[j] + Gain(s, j) + lap * q) - (IF j = s THEN Work ELSE 0)
    BY <1>1, Gains DEF Serve, RingInv
  <2>6. q \in Nat /\ lap \in Int /\ pay \in Int
    BY QuantumAssumption DEF Lap
  <2> HIDE DEF q, lap
  <2>7. deficits[j] + Gain(s, j) + lap * q = (d + k + lap) * q
    BY <2>1, <2>4, <2>6 DEF q
  <2>8. PICK c \in Int : Capped(deficits[j] + Gain(s, j) + lap * q) = c * q
    <3>1. d + k + lap \in Int
      BY <2>6
    <3> QED
      BY <2>3, <2>7, <3>1 DEF Capped, q
  <2>9. deficits'[j] = (c - pay) * q
    <3>1. (IF j = s THEN Work ELSE 0) = pay * q
      BY <2>2, <2>6 DEF q
    <3> HIDE DEF pay
    <3> QED
      BY <2>5, <2>6, <2>8, <3>1
  <2>10. c - pay \in Int
    BY <2>6
  <2> HIDE DEF pay
  <2> QED
    BY <2>9, <2>10 DEF Whole, q
<1>2. CASE UNCHANGED deficits
  BY <1>2 DEF WholeDeficits, Whole
<1>3. ASSUME NEW s \in Issuer, Serve(s) PROVE WholeDeficits'
  BY <1>1, <1>3 DEF WholeDeficits, Whole
<1> QED
  BY <1>2, <1>3 DEF RingNext, Arrive, Drop, ringVars

\* That is so if the work of a message and the cap are whole numbers of every
\* issuer's quanta.
THEOREM WholeOvertakingBounded ==
    ASSUME WholeRounds PROVE HistorySpec => []BoundedOvertaking
<1>1. HistoryInit => WaitInv /\ WholeDeficits
  <2>1. HistoryInit => WholeDeficits
    <3> SUFFICES ASSUME HistoryInit, NEW i \in Issuer PROVE Whole(i, deficits[i])
      BY DEF WholeDeficits
    <3>1. deficits[i] = 0 * Quantum[i] /\ 0 \in Int
      BY QuantumAssumption DEF HistoryInit, RingInit
    <3> QED
      BY <3>1 DEF Whole
  <2> QED
    BY <2>1, InitWaitInv
<1>2. WaitInv /\ WholeDeficits /\ [HistoryNext]_historyVars => (WaitInv /\ WholeDeficits)'
  <2> SUFFICES ASSUME WaitInv, WholeDeficits, [HistoryNext]_historyVars
               PROVE  WaitInv' /\ WholeDeficits'
    OBVIOUS
  <2>1. RingInv /\ Exact
    BY WholeIsExact DEF WaitInv
  <2> QED
    BY <2>1, HistoryIsRing, StepWholeDeficits, StepWaitInv
<1> QED
  BY <1>1, <1>2, ExplainedIsBounded, PTL DEF HistorySpec

=============================================================================
