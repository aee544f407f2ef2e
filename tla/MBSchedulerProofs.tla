--------------------------- MODULE MBSchedulerProofs ---------------------------
(***************************************************************************)
(* For any DAG of messages, any buffer and any burn policy: the buffer     *)
(* keeps its bound, a message is in one place only, none that is ready is  *)
(* left waiting, every message is charged to its issuer once, the node     *)
(* spends no mana it does not have, and what outbids the queue is kept.    *)
(***************************************************************************)
EXTENDS MBScheduler, InductionLemmas

\* A message that has become ready is not left in nonReadyMap: the handlers of
\* MessageScheduled and MessageConfirmed promote all it takes.
NothingWaitsReady == \A m \in nonReady : ~IsReady(m, Eligible(scheduled))

\* What the node has itself never becomes negative.
NoDebt == accessMana[Self] >= 0

MBInv == TypeOK /\ BufferBounded /\ NothingWaitsReady /\ NoDebt

-----------------------------------------------------------------------------
(* What BurnValue burns *)

\* Among finitely many messages there is one that burns most.
LEMMA LargestExists ==
    ASSUME NEW S \in SUBSET Message, S # {}, NEW f \in [Message -> Nat]
    PROVE  \E x \in S : \A y \in S : f[x] >= f[y]
  <1> DEFINE Above(x) == {y \in S : f[y] > f[x]}
             T == {Cardinality(Above(x)) : x \in S}
  <1>1. \A x \in S : IsFiniteSet(Above(x)) /\ Cardinality(Above(x)) \in Nat
    <2> TAKE x \in S
    <2>1. Above(x) \subseteq Message /\ IsFiniteSet(Message)  BY MessageAssumption
    <2> HIDE DEF Above
    <2>2. QED  BY <2>1, FS_Subset, FS_CardinalityType
  <1>2. T \subseteq Nat /\ T # {}  BY <1>1
  <1>3. PICK n \in T : \A k \in T : k >= n
    <2> HIDE DEF T
    <2>1. PICK n \in T : \A k \in T : ~(<<k, n>> \in OpToRel(<, Nat))
      BY <1>2, NatLessThanWellFounded, WFMin
    <2>2. \A k \in T : ~(k < n)  BY <1>2, <2>1 DEF OpToRel
    <2>3. \A k \in T : k >= n  BY <1>2, <2>2
    <2>4. QED  BY <2>3
  <1>4. PICK x \in S : n = Cardinality(Above(x))  BY <1>3
  <1>5. ASSUME NEW y \in S, f[y] > f[x] PROVE FALSE
    <2>1. \A z \in S : f[z] \in Nat  OBVIOUS
    <2>2. \A z \in S : f[z] > f[y] => f[z] > f[x]  BY <1>5, <2>1
    <2>3. Above(y) \subseteq Above(x)  BY <2>2
    <2>4. y \in Above(x)  BY <1>5
    <2>5. y \notin Above(y)  BY <2>1
    <2>6. Cardinality(Above(y)) >= Cardinality(Above(x))  BY <1>3, <1>4
    <2>7. IsFiniteSet(Above(x)) /\ Cardinality(Above(x)) \in Nat /\ Cardinality(Above(y)) \in Nat
      BY <1>1
    <2> HIDE DEF Above
    <2>8. Above(y) = Above(x)  BY <2>3, <2>6, <2>7, FS_Subset
    <2>9. QED  BY <2>4, <2>5, <2>8
  <1>6. QED  BY <1>5

\* GetMaxManaBurn of a queue is a natural number.
LEMMA MaxBurnIsNat ==
    ASSUME TypeOK
    PROVE  GetMaxManaBurn \in Nat
  <1> DEFINE S == {0} \cup {burn[m] : m \in ready}
  <1>1. S \subseteq Nat  BY DEF TypeOK
  <1>2. \E x \in S : \A y \in S : x >= y
    <2>1. CASE ready = {}  BY <2>1
    <2>2. CASE ready # {}
      <3>1. ready \subseteq Message /\ burn \in [Message -> Nat]  BY DEF TypeOK
      <3>2. PICK m \in ready : \A k \in ready : burn[m] >= burn[k]
        BY <2>2, <3>1, LargestExists
      <3>3. burn[m] \in S /\ burn[m] >= 0  BY <3>1
      <3>4. \A y \in S : burn[m] >= y  BY <3>2, <3>3
      <3>5. QED  BY <3>3, <3>4
    <2>3. QED  BY <2>1, <2>2
  <1> HIDE DEF S
  <1>3. Max(S) \in S  BY <1>2 DEF Max
  <1>4. GetMaxManaBurn = Max(S)  BY DEF GetMaxManaBurn, S
  <1>5. QED  BY <1>1, <1>3, <1>4

\* Whatever its policy, a node burns a natural number, and has it when it does.
LEMMA BurnIsNat ==
    ASSUME TypeOK, NoDebt
    PROVE  /\ BurnValue \in Nat
           /\ policy \in {"NoBurn", "Anxious"} => BurnValue <= accessMana[Self]
  <1>1. policy \in {"NoBurn", "Anxious", "Greedy1", "Greedy10"}
    BY PolicyAssumption DEF TypeOK
  <1>2. accessMana[Self] \in Nat  BY SelfAssumption DEF TypeOK, NoDebt
  <1>3. QED  BY <1>1, <1>2, MaxBurnIsNat DEF BurnValue

-----------------------------------------------------------------------------
(* The queue *)

\* BufferManagement leaves messages of the queue, as many as fit.
LEMMA TrimsBound ==
    ASSUME NEW b, NEW R, NEW T \in Trims(b, R)
    PROVE  T \subseteq R /\ Cardinality(T) <= MaxBuffer
  BY BufferAssumption DEF Trims

\* What the invariant says of the places of the messages.
Places(n, r, s, E) ==
    /\ n \subseteq booked /\ r \subseteq booked
    /\ Cardinality(r) <= MaxBuffer
    /\ n \cap r = {} /\ (n \cup r) \cap s = {}
    /\ \A m \in n : ~IsReady(m, E)

\* When message m has become eligible, updateChildrenReady promotes what waited
\* for it and leaves the rest.
LEMMA PromotionKeepsPlaces ==
    ASSUME TypeOK, NEW s, NEW E, NEW D, NEW m \in Message, NEW R,
           R \subseteq booked, nonReady \cap R = {}, (nonReady \cup R) \cap s = {},
           \A c \in nonReady : ~IsReady(c, D), E = D \cup {m},
           UpdateChildrenReady(m, R, E)
    PROVE  Places(nonReady', ready', s, E)
  <1>1. nonReady' = nonReady \ Promoted(m, E)  BY DEF UpdateChildrenReady
  <1>2. ready' \subseteq R \cup Promoted(m, E) /\ Cardinality(ready') <= MaxBuffer
    BY TrimsBound DEF UpdateChildrenReady
  <1>3. Promoted(m, E) \subseteq nonReady  BY DEF Promoted
  <1>4. \A c \in nonReady' : ~IsReady(c, E)
    BY <1>1 DEF Promoted, IsReady
  <1>5. nonReady \subseteq booked  BY DEF TypeOK
  <1>6. QED  BY <1>1, <1>2, <1>3, <1>4, <1>5 DEF Places

\* EnqueueMessage puts a message that was not booked yet into one place.
LEMMA EnqueueKeepsPlaces ==
    ASSUME MBInv, NEW m \in Message, m \notin booked, EnqueueMessage(m)
    PROVE  /\ booked' = booked \cup {m}
           /\ nonReady' \subseteq booked' /\ ready' \subseteq booked'
           /\ Cardinality(ready') <= MaxBuffer
           /\ nonReady' \cap ready' = {} /\ (nonReady' \cup ready') \cap scheduled = {}
           /\ \A k \in nonReady' : ~IsReady(k, Eligible(scheduled))
  <1> TypeOK /\ BufferBounded /\ NothingWaitsReady  BY DEF MBInv
  <1>1. m \notin nonReady /\ m \notin ready /\ m \notin scheduled  BY DEF TypeOK
  <1>2. booked' = booked \cup {m}  BY DEF EnqueueMessage
  <1>3. CASE IsReady(m, Eligible(scheduled))
    <2>1. nonReady' = nonReady /\ ready' \in Trims(burn', ready \cup {m})
      BY <1>3 DEF EnqueueMessage
    <2>2. ready' \subseteq ready \cup {m} /\ Cardinality(ready') <= MaxBuffer
      BY <2>1, TrimsBound
    <2>3. QED  BY <1>1, <1>2, <2>1, <2>2 DEF TypeOK, BufferBounded, NothingWaitsReady
  <1>4. CASE ~IsReady(m, Eligible(scheduled))
    <2>1. nonReady' = nonReady \cup {m} /\ ready' \in Trims(burn', ready)
      BY <1>4 DEF EnqueueMessage
    <2>2. ready' \subseteq ready /\ Cardinality(ready') <= MaxBuffer
      BY <2>1, TrimsBound
    <2>3. QED  BY <1>1, <1>2, <1>4, <2>1, <2>2 DEF TypeOK, BufferBounded, NothingWaitsReady
  <1>5. QED  BY <1>3, <1>4

-----------------------------------------------------------------------------
(* The steps *)

LEMMA InitMBInv == Init => MBInv
  <1> SUFFICES ASSUME Init PROVE MBInv  OBVIOUS
  <1>1. burn \in [Message -> Nat]
    <2>1. issued \in [Message -> Content]  BY UniverseAssumption DEF Init
    <2>2. QED  BY <2>1 DEF Init, Content
  <1>2. accessMana \in [Issuer -> Int] /\ accessMana[Self] >= 0
    BY ManaAssumption, SelfAssumption DEF Init
  <1>3. ticks \in 0 .. MaxTicks  BY ManaAssumption DEF Init
  <1>4. Cardinality(ready) <= MaxBuffer
    BY BufferAssumption, FS_EmptySet DEF Init
  <1>5. QED
    BY <1>1, <1>2, <1>3, <1>4 DEF Init, MBInv, TypeOK, BufferBounded, NothingWaitsReady, NoDebt

LEMMA MBInvNext == MBInv /\ [Next]_vars => MBInv'
  <1> SUFFICES ASSUME MBInv, [Next]_vars PROVE MBInv'  OBVIOUS
  <1> TypeOK /\ BufferBounded /\ NothingWaitsReady /\ NoDebt  BY DEF MBInv
  <1>1. ASSUME NEW m \in Message, Receive(m) PROVE MBInv'
    <2>1. m \notin booked /\ EnqueueMessage(m)  BY <1>1 DEF Receive, CanBook
    <2>2. UNCHANGED <<issued, policy, burn, confirmed, scheduled, accessMana, ticks>>
      BY <1>1 DEF Receive
    <2>3. Eligible(scheduled)' = Eligible(scheduled)  BY <2>2 DEF Eligible
    <2>4. NothingWaitsReady'
      BY <2>1, <2>2, <2>3, EnqueueKeepsPlaces DEF NothingWaitsReady, IsReady, Parents
    <2>5. TypeOK'  BY <2>1, <2>2, EnqueueKeepsPlaces DEF TypeOK
    <2>6. BufferBounded'  BY <2>1, <2>2, EnqueueKeepsPlaces DEF BufferBounded
    <2>7. QED  BY <2>2, <2>4, <2>5, <2>6 DEF MBInv, NoDebt
  <1>2. ASSUME NEW m \in Message, CreateMessage(m) PROVE MBInv'
    <2>1. m \notin booked /\ EnqueueMessage(m)  BY <1>2 DEF CreateMessage, CanBook
    <2>2. UNCHANGED <<issued, policy, confirmed, scheduled, ticks>>
      BY <1>2 DEF CreateMessage
    <2>3. /\ burn' = [burn EXCEPT ![m] = BurnValue]
          /\ accessMana' = [accessMana EXCEPT ![Self] = @ - BurnValue]
          /\ BurnValue \in Nat /\ BurnValue <= accessMana[Self]
      BY <1>2, BurnIsNat DEF CreateMessage
    <2>4. burn' \in [Message -> Nat]
      BY <2>3 DEF TypeOK
    <2>5. accessMana' \in [Issuer -> Int] /\ accessMana'[Self] >= 0
      BY <2>3, SelfAssumption DEF TypeOK
    <2>6. Eligible(scheduled)' = Eligible(scheduled)  BY <2>2 DEF Eligible
    <2>7. NothingWaitsReady'
      BY <2>1, <2>2, <2>6, EnqueueKeepsPlaces DEF NothingWaitsReady, IsReady, Parents
    <2>8. TypeOK'  BY <2>1, <2>2, <2>4, <2>5, EnqueueKeepsPlaces DEF TypeOK
    <2>9. BufferBounded'  BY <2>1, <2>2, EnqueueKeepsPlaces DEF BufferBounded
    <2>10. QED  BY <2>5, <2>7, <2>8, <2>9 DEF MBInv, NoDebt
  <1>3. ASSUME NEW m \in Message, MessageConfirmed(m) PROVE MBInv'
    <2>1. /\ m \in booked /\ confirmed' = confirmed \cup {m}
          /\ UNCHANGED <<issued, policy, burn, booked, scheduled, accessMana, ticks>>
      BY <1>3 DEF MessageConfirmed
    <2>2. CASE ConfEligible
      <3>1. UpdateChildrenReady(m, ready, scheduled \cup confirmed')
        BY <1>3, <2>2 DEF MessageConfirmed
      <3>2. /\ \A c \in nonReady : ~IsReady(c, scheduled \cup confirmed)
            /\ scheduled \cup confirmed' = (scheduled \cup confirmed) \cup {m}
        BY <2>1, <2>2 DEF NothingWaitsReady, Eligible
      <3>3. ready \subseteq booked /\ nonReady \cap ready = {} /\ (nonReady \cup ready) \cap scheduled = {}
        BY DEF TypeOK, BufferBounded
      <3>4. Places(nonReady', ready', scheduled, scheduled \cup confirmed')
        BY <3>1, <3>2, <3>3, PromotionKeepsPlaces
      <3>5. Eligible(scheduled)' = scheduled \cup confirmed'  BY <2>1, <2>2 DEF Eligible
      <3>6. NothingWaitsReady'
        BY <2>1, <3>4, <3>5 DEF Places, NothingWaitsReady, IsReady, Parents
      <3>7. TypeOK'  BY <2>1, <3>4 DEF Places, TypeOK
      <3>8. BufferBounded'  BY <2>1, <3>4 DEF Places, BufferBounded
      <3>9. QED  BY <2>1, <3>6, <3>7, <3>8 DEF MBInv, NoDebt
    <2>3. CASE ~ConfEligible
      <3>1. UNCHANGED <<nonReady, ready>>  BY <1>3, <2>3 DEF MessageConfirmed
      <3>2. NothingWaitsReady'
        BY <2>1, <2>3, <3>1 DEF NothingWaitsReady, Eligible, IsReady, Parents
      <3>3. TypeOK' /\ BufferBounded'  BY <2>1, <3>1 DEF TypeOK, BufferBounded
      <3>4. QED  BY <2>1, <3>2, <3>3 DEF MBInv, NoDebt
    <2>4. QED  BY <2>2, <2>3
  <1>4. CASE Tick
    <2>1. UNCHANGED <<issued, policy, burn, booked, confirmed>>  BY <1>4 DEF Tick
    <2>2. ticks' \in 0 .. MaxTicks  BY <1>4, ManaAssumption DEF Tick, TypeOK
    <2>3. \A i \in Issuer : Income(i) \in Nat  BY ManaAssumption DEF Income
    <2>4. ASSUME NEW m \in Message, ScheduleMessage(m) PROVE MBInv'
      <3>1. /\ m \in ready /\ scheduled' = scheduled \cup {m}
            /\ UpdateChildrenReady(m, ready \ {m}, Eligible(scheduled \cup {m}))
            /\ accessMana' = [i \in Issuer |-> accessMana[i] + Income(i)
                                               - (IF i \in Charged(m) THEN burn[m] ELSE 0)]
        BY <2>4 DEF ScheduleMessage
      <3>2. accessMana' \in [Issuer -> Int] /\ accessMana'[Self] >= 0
        <4>1. burn[m] \in Nat /\ accessMana \in [Issuer -> Int]  BY DEF TypeOK
        <4>2. Self \in Issuer /\ Self \notin Charged(m)  BY SelfAssumption DEF Charged
        <4>3. QED  BY <2>3, <3>1, <4>1, <4>2 DEF NoDebt
      <3>3. /\ Eligible(scheduled \cup {m}) = Eligible(scheduled) \cup {m}
            /\ Eligible(scheduled)' = Eligible(scheduled \cup {m})
        BY <2>1, <3>1 DEF Eligible
      <3>4. Places(nonReady', ready', scheduled \cup {m}, Eligible(scheduled \cup {m}))
        <4>1. /\ ready \ {m} \subseteq booked /\ nonReady \cap (ready \ {m}) = {}
              /\ (nonReady \cup (ready \ {m})) \cap (scheduled \cup {m}) = {}
          BY <3>1 DEF TypeOK, BufferBounded
        <4>2. \A c \in nonReady : ~IsReady(c, Eligible(scheduled))  BY DEF NothingWaitsReady
        <4>3. QED  BY <3>1, <3>3, <4>1, <4>2, PromotionKeepsPlaces
      <3>5. NothingWaitsReady'
        <4>1. \A c \in nonReady' : ~IsReady(c, Eligible(scheduled \cup {m}))
          BY <3>4 DEF Places
        <4>2. Eligible(scheduled)' = Eligible(scheduled \cup {m})  BY <3>3
        <4>3. QED  BY <2>1, <4>1, <4>2 DEF NothingWaitsReady, IsReady, Parents
      <3>6. TypeOK'  BY <2>1, <2>2, <3>1, <3>2, <3>4 DEF Places, TypeOK
      <3>7. BufferBounded'  BY <3>1, <3>4 DEF Places, BufferBounded
      <3>8. QED  BY <3>2, <3>5, <3>6, <3>7 DEF MBInv, NoDebt
    <2>5. CASE /\ accessMana' = [i \in Issuer |-> accessMana[i] + Income(i)]
               /\ UNCHANGED <<scheduled, nonReady, ready>>
      <3>1. accessMana' \in [Issuer -> Int] /\ accessMana'[Self] >= 0
        BY <2>3, <2>5, SelfAssumption DEF TypeOK, NoDebt
      <3>2. NothingWaitsReady'
        BY <2>1, <2>5 DEF NothingWaitsReady, Eligible, IsReady, Parents
      <3>3. TypeOK' /\ BufferBounded'  BY <2>1, <2>2, <2>5, <3>1 DEF TypeOK, BufferBounded
      <3>4. QED  BY <3>1, <3>2, <3>3 DEF MBInv, NoDebt
    <2>6. QED  BY <1>4, <2>4, <2>5 DEF Tick
  <1>5. CASE UNCHANGED vars
    BY <1>5 DEF vars, MBInv, TypeOK, BufferBounded, NothingWaitsReady, NoDebt, Eligible,
                IsReady, Parents
  <1>6. QED  BY <1>1, <1>2, <1>3, <1>4, <1>5 DEF Next

LEMMA Invariance == Spec => []MBInv
  BY InitMBInv, MBInvNext, PTL DEF Spec

-----------------------------------------------------------------------------
(* The ledger *)

\* The messages that were charged to issuer i, and what it had without them.
Paid(i) == {m \in IF i = Self THEN booked ELSE scheduled : issued[m].issuer = i}
Due(i) == InitialMana + ticks * Earned[i]

Balanced(i) == accessMana[i] = Due(i) - Total(burn, Paid(i))

LedgerInv == MBInv /\ \A i \in Issuer : Balanced(i)

LEMMA PaidFinite ==
    ASSUME TypeOK, NEW i
    PROVE  /\ Paid(i) \in SUBSET Message /\ IsFiniteSet(Paid(i))
           /\ Total(burn, Paid(i)) \in Nat
  <1>1. Paid(i) \in SUBSET Message  BY DEF Paid, TypeOK
  <1>2. IsFiniteSet(Paid(i))  BY <1>1, MessageAssumption, FS_Subset
  <1>3. \A m \in Paid(i) : burn[m] \in Nat  BY <1>1 DEF TypeOK
  <1>4. QED  BY <1>1, <1>2, <1>3, SumType

\* What the ledger adds up are whole numbers.
LEMMA LedgerTerms ==
    ASSUME TypeOK, NEW i \in Issuer
    PROVE  InitialMana \in Nat /\ ticks * Earned[i] \in Nat /\ Income(i) \in Nat /\ Due(i) \in Int
  <1> DEFINE t == ticks * Earned[i]
  <1>1. ticks \in Nat /\ Earned[i] \in Nat /\ InitialMana \in Nat
    BY ManaAssumption DEF TypeOK
  <1>2. \A a, b \in Nat : a * b \in Nat  BY Z3
  <1>3. t \in Nat  BY <1>1, <1>2
  <1> HIDE DEF t
  <1>4. InitialMana + t \in Int  BY <1>1, <1>3
  <1>5. QED  BY <1>1, <1>3, <1>4 DEF t, Income, Due

LEMMA InitLedger == Init => LedgerInv
  <1> SUFFICES ASSUME Init, NEW i \in Issuer PROVE Balanced(i)
    BY InitMBInv DEF LedgerInv
  <1>1. Paid(i) = {}  BY DEF Init, Paid
  <1>2. Total(burn, Paid(i)) = Total(burn, {})  BY <1>1, Zenon
  <1>3. Total(burn, Paid(i)) = 0  BY <1>2, SumEmpty
  <1>4. accessMana[i] = InitialMana /\ Due(i) = InitialMana
    BY ManaAssumption DEF Init, Due
  <1>5. QED  BY <1>3, <1>4, ManaAssumption DEF Balanced

\* Steps that charge nobody.
LEMMA LedgerStays ==
    ASSUME LedgerInv, UNCHANGED <<issued, burn, accessMana, ticks>>,
           \A i \in Issuer : Paid(i)' = Paid(i), NEW i \in Issuer
    PROVE  Balanced(i)'
  <1>1. Total(burn', Paid(i)') = Total(burn, Paid(i))  BY Zenon
  <1>2. Due(i)' = Due(i)  BY DEF Due
  <1>3. QED  BY <1>1, <1>2 DEF LedgerInv, Balanced

\* The node pays for its message when it creates it.
LEMMA CreateKeepsLedger ==
    ASSUME LedgerInv, NEW m \in Message, CreateMessage(m), NEW i \in Issuer
    PROVE  Balanced(i)'
  <1> DEFINE P == Paid(i)
  <1>0. TypeOK /\ NoDebt  BY DEF LedgerInv, MBInv
  <1>1. /\ m \notin booked /\ m \notin scheduled /\ booked' = booked \cup {m}
        /\ issued[m].issuer = Self
        /\ burn' = [burn EXCEPT ![m] = BurnValue]
        /\ accessMana' = [accessMana EXCEPT ![Self] = @ - BurnValue]
        /\ UNCHANGED <<issued, scheduled, ticks>>
    BY <1>0 DEF CreateMessage, CanBook, EnqueueMessage, TypeOK
  <1>2. BurnValue \in Nat  BY <1>0, BurnIsNat
  <1>3. P \in SUBSET Message /\ IsFiniteSet(P) /\ Total(burn, P) \in Nat /\ m \notin P
    BY <1>0, <1>1, PaidFinite DEF Paid
  <1>4. /\ burn \in [Message -> Nat] /\ accessMana[i] = Due(i) - Total(burn, P)
        /\ Due(i) \in Int /\ Due(i)' = Due(i)
    BY <1>0, <1>1, LedgerTerms DEF TypeOK, LedgerInv, Balanced, Due
  <1>5. Total(burn', P) = Total(burn, P)
    <2>1. \A x \in P : burn[x] \in Int /\ burn[x] = burn'[x]
      BY <1>1, <1>3, <1>4
    <2> HIDE DEF P
    <2>2. QED  BY <1>3, <2>1, SumEqual
  <1>6. CASE i = Self
    <2>1. Paid(i)' = P \cup {m}  BY <1>1, <1>6 DEF Paid
    <2>2. Total(burn', P \cup {m}) = Total(burn', P) + burn'[m]
      <3>1. \A x \in P \cup {m} : burn'[x] \in Int
        BY <1>1, <1>2, <1>3, <1>4
      <3> HIDE DEF P
      <3>2. QED  BY <1>3, <3>1, SumAdd
    <2>3. Total(burn', Paid(i)') = Total(burn', P \cup {m})  BY <2>1, Zenon
    <2>4. burn'[m] = BurnValue /\ accessMana'[i] = accessMana[i] - BurnValue
      BY <1>0, <1>1, <1>6, SelfAssumption DEF TypeOK
    <2> HIDE DEF P
    <2>5. Total(burn', Paid(i)') = Total(burn, P) + BurnValue
      BY <1>5, <2>2, <2>3, <2>4
    <2>6. QED  BY <1>2, <1>3, <1>4, <2>4, <2>5 DEF Balanced
  <1>7. CASE i # Self
    <2>1. Paid(i)' = P  BY <1>1, <1>7 DEF Paid
    <2>2. Total(burn', Paid(i)') = Total(burn, P)  BY <1>5, <2>1, Zenon
    <2>3. accessMana'[i] = accessMana[i]  BY <1>0, <1>1, <1>7 DEF TypeOK
    <2>4. QED  BY <1>4, <2>2, <2>3 DEF Balanced
  <1>8. QED  BY <1>6, <1>7

\* The others pay when their message is scheduled; everybody gets the income.
LEMMA ScheduleKeepsLedger ==
    ASSUME LedgerInv, NEW m \in Message, ScheduleMessage(m), UNCHANGED <<issued, burn, booked>>,
           NEW i \in Issuer
    PROVE  accessMana'[i] = (Due(i) + Income(i)) - Total(burn', Paid(i)')
  <1> DEFINE P == Paid(i)
  <1>0. TypeOK /\ BufferBounded  BY DEF LedgerInv, MBInv
  <1>1. /\ m \notin scheduled /\ scheduled' = scheduled \cup {m}
        /\ accessMana'[i] = accessMana[i] + Income(i) - (IF i \in Charged(m) THEN burn[m] ELSE 0)
    BY <1>0 DEF ScheduleMessage, BufferBounded
  <1>2. P \in SUBSET Message /\ IsFiniteSet(P) /\ Total(burn, P) \in Nat
    BY <1>0, PaidFinite
  <1>3. /\ burn[m] \in Nat /\ Income(i) \in Nat /\ Due(i) \in Int
        /\ accessMana[i] = Due(i) - Total(burn, P)
    BY <1>0, LedgerTerms DEF TypeOK, LedgerInv, Balanced
  <1>4. CASE i \in Charged(m)
    <2>1. Paid(i)' = P \cup {m} /\ m \notin P  BY <1>1, <1>4 DEF Paid, Charged
    <2>2. Total(burn, P \cup {m}) = Total(burn, P) + burn[m]
      <3>1. \A x \in P \cup {m} : burn[x] \in Int  BY <1>0, <1>2 DEF TypeOK
      <3> HIDE DEF P
      <3>2. QED  BY <1>2, <2>1, <3>1, SumAdd
    <2>3. Total(burn', Paid(i)') = Total(burn, P \cup {m})  BY <2>1, Zenon
    <2> HIDE DEF P
    <2>4. QED  BY <1>1, <1>2, <1>3, <1>4, <2>2, <2>3
  <1>5. CASE i \notin Charged(m)
    <2>1. Paid(i)' = P  BY <1>1, <1>5 DEF Paid, Charged
    <2>2. Total(burn', Paid(i)') = Total(burn, P)  BY <2>1, Zenon
    <2> HIDE DEF P
    <2>3. QED  BY <1>1, <1>2, <1>3, <1>5, <2>2
  <1>6. QED  BY <1>4, <1>5

\* One tick pays one income.
LEMMA TickPays ==
    ASSUME TypeOK, Tick, NEW i \in Issuer
    PROVE  Due(i)' = Due(i) + Income(i)
  <1> DEFINE t == ticks * Earned[i]
             next == ticks' * Earned[i]
  <1>1. ticks \in Nat /\ Earned[i] \in Nat  BY ManaAssumption DEF TypeOK
  <1>2. \A a, b \in Nat : (a + 1) * b = a * b + b  BY Z3
  <1>3. t \in Nat /\ InitialMana \in Nat /\ Income(i) \in Nat  BY LedgerTerms
  <1>4. next = t + Income(i)
    <2>1. CASE ticks < MaxTicks
      <3>1. ticks' = ticks + 1 /\ Income(i) = Earned[i]  BY <2>1 DEF Tick, Income
      <3>2. (ticks + 1) * Earned[i] = ticks * Earned[i] + Earned[i]  BY <1>1, <1>2
      <3>3. QED  BY <3>1, <3>2
    <2>2. CASE ~(ticks < MaxTicks)
      <3>1. ticks' = ticks /\ Income(i) = 0  BY <2>2 DEF Tick, Income
      <3>2. next = t  BY <3>1
      <3> HIDE DEF t, next
      <3>3. QED  BY <1>3, <3>1, <3>2
    <2>3. QED  BY <2>1, <2>2
  <1>5. Due(i) = InitialMana + t /\ Due(i)' = InitialMana + next  BY DEF Due
  <1> HIDE DEF t, next
  <1>6. QED  BY <1>3, <1>4, <1>5

LEMMA StepLedger == LedgerInv /\ [Next]_vars => LedgerInv'
  <1> SUFFICES ASSUME LedgerInv, [Next]_vars, NEW i \in Issuer PROVE Balanced(i)'
    BY MBInvNext DEF LedgerInv
  <1>0. TypeOK /\ MBInv  BY DEF LedgerInv, MBInv
  <1>1. ASSUME NEW m \in Message, Receive(m) PROVE Balanced(i)'
    <2>1. /\ issued[m].issuer # Self /\ booked' = booked \cup {m}
          /\ UNCHANGED <<issued, burn, scheduled, accessMana, ticks>>
      BY <1>1 DEF Receive, EnqueueMessage
    <2>2. \A k \in Issuer : Paid(k)' = Paid(k)  BY <2>1 DEF Paid
    <2>3. QED  BY <2>1, <2>2, LedgerStays
  <1>2. ASSUME NEW m \in Message, CreateMessage(m) PROVE Balanced(i)'
    BY <1>2, CreateKeepsLedger
  <1>3. ASSUME UNCHANGED <<issued, burn, booked, scheduled, accessMana, ticks>>
        PROVE  Balanced(i)'
    <2>1. \A k \in Issuer : Paid(k)' = Paid(k)  BY <1>3 DEF Paid
    <2>2. QED  BY <1>3, <2>1, LedgerStays
  <1>4. CASE Tick
    <2>1. UNCHANGED <<issued, burn, booked>>  BY <1>4 DEF Tick
    <2>2. accessMana'[i] = (Due(i) + Income(i)) - Total(burn', Paid(i)')
      <3>1. ASSUME NEW m \in Message, ScheduleMessage(m)
            PROVE  accessMana'[i] = (Due(i) + Income(i)) - Total(burn', Paid(i)')
        BY <2>1, <3>1, ScheduleKeepsLedger
      <3>2. CASE /\ accessMana' = [k \in Issuer |-> accessMana[k] + Income(k)]
                 /\ UNCHANGED scheduled
        <4>1. Paid(i)' = Paid(i)  BY <2>1, <3>2 DEF Paid
        <4>2. Total(burn', Paid(i)') = Total(burn, Paid(i))  BY <2>1, <4>1, Zenon
        <4>3. accessMana[i] = Due(i) - Total(burn, Paid(i))  BY DEF LedgerInv, Balanced
        <4>4. Total(burn, Paid(i)) \in Nat  BY <1>0, PaidFinite
        <4>5. Due(i) \in Int /\ Income(i) \in Nat  BY <1>0, LedgerTerms
        <4>6. accessMana'[i] = accessMana[i] + Income(i)  BY <3>2
        <4>7. QED  BY <4>2, <4>3, <4>4, <4>5, <4>6
      <3>3. QED  BY <1>4, <3>1, <3>2 DEF Tick
    <2> DEFINE due == Due(i) + Income(i)
    <2>3. Due(i)' = due  BY <1>0, <1>4, TickPays
    <2>4. accessMana'[i] = due - Total(burn', Paid(i)')  BY <2>2
    <2> HIDE DEF due
    <2>5. QED  BY <2>3, <2>4 DEF Balanced
  <1>5. QED  BY <1>1, <1>2, <1>3, <1>4 DEF Next, MessageConfirmed, vars

LEMMA LedgerInvariance == Spec => []LedgerInv
  BY InitLedger, StepLedger, PTL DEF Spec

LEMMA LedgerHolds == LedgerInv => ManaLedger
  <1> SUFFICES ASSUME LedgerInv, NEW i \in Issuer
               PROVE  accessMana[i] = InitialMana + ticks * Earned[i] - Burnt(Paid(i))
    BY DEF ManaLedger, LedgerInv, MBInv, NoDebt, Paid
  <1> DEFINE t == ticks * Earned[i]
             b == Burnt(Paid(i))
  <1>1. b = Total(burn, Paid(i))  BY DEF Burnt, Total
  <1>2. TypeOK  BY DEF LedgerInv, MBInv
  <1>3. InitialMana \in Nat /\ t \in Nat /\ b \in Nat  BY <1>1, <1>2, LedgerTerms, PaidFinite
  <1>4. accessMana[i] = (InitialMana + t) - b  BY <1>1 DEF LedgerInv, Balanced, Due
  <1> HIDE DEF t, b
  <1>5. accessMana[i] = InitialMana + (t - b)  BY <1>3, <1>4
  <1>6. QED  BY <1>5 DEF t, b

-----------------------------------------------------------------------------
(* What outbids the queue *)

\* BufferManagement does not drop a message that burns more than all others.
LEMMA HighestKept ==
    ASSUME NEW b, NEW m, NEW R, m \in R, \A k \in R \ {m} : b[m] > b[k],
           MaxBuffer > 0, NEW T \in Trims(b, R)
    PROVE  m \in T
  <1>1. CASE Cardinality(R) <= MaxBuffer
    BY <1>1 DEF Trims
  <1>2. CASE ~(Cardinality(R) <= MaxBuffer)
    <2>1. /\ T \subseteq R /\ Cardinality(T) = MaxBuffer
          /\ \A x \in R \ T, k \in T : ~Less(b, x, k)
      BY <1>2 DEF Trims
    <2>2. T # {}  BY <2>1, BufferAssumption, FS_EmptySet
    <2>3. PICK k \in T : TRUE  BY <2>2
    <2> SUFFICES ASSUME m \notin T PROVE FALSE  OBVIOUS
    <2>4. b[m] > b[k]  BY <2>1, <2>3
    <2>5. Less(b, m, k)  BY <2>4 DEF Less
    <2>6. QED  BY <2>1, <2>3, <2>5
  <1>3. QED  BY <1>1, <1>2

GreedyKept ==
    \A m \in Message :
        m \in booked' \ booked /\ m \notin nonReady' /\ MaxBuffer > 0
            /\ (\A k \in ready : burn'[m] > burn[k]) => m \in ready'

\* Only booking adds to `booked`, and what is then ready goes into the queue.
LEMMA BookingKeepsHighest ==
    ASSUME TypeOK, NEW m \in Message, m \notin booked, EnqueueMessage(m),
           \A k \in Message \ {m} : burn'[k] = burn[k]
    PROVE  GreedyKept
  <1> SUFFICES ASSUME m \notin nonReady', MaxBuffer > 0, \A k \in ready : burn'[m] > burn[k]
               PROVE  m \in ready'
    BY DEF EnqueueMessage, GreedyKept
  <1>1. ready' \in Trims(burn', ready \cup {m})  BY DEF EnqueueMessage
  <1>2. \A k \in ready : k \in Message \ {m}  BY DEF TypeOK
  <1>3. \A k \in (ready \cup {m}) \ {m} : burn'[m] > burn'[k]  BY <1>2
  <1>4. QED  BY <1>1, <1>3, HighestKept

LEMMA StepKeepsHighest == MBInv /\ [Next]_vars => GreedyKept
  <1> SUFFICES ASSUME MBInv, [Next]_vars PROVE GreedyKept  OBVIOUS
  <1>0. TypeOK  BY DEF MBInv
  <1>1. ASSUME NEW m \in Message, Receive(m) PROVE GreedyKept
    BY <1>0, <1>1, BookingKeepsHighest DEF Receive, CanBook
  <1>2. ASSUME NEW m \in Message, CreateMessage(m) PROVE GreedyKept
    <2>1. \A k \in Message \ {m} : burn'[k] = burn[k]  BY <1>0, <1>2 DEF CreateMessage, TypeOK
    <2>2. QED  BY <1>0, <1>2, <2>1, BookingKeepsHighest DEF CreateMessage, CanBook
  <1>3. ASSUME UNCHANGED booked PROVE GreedyKept
    BY <1>3 DEF GreedyKept
  <1>4. QED  BY <1>1, <1>2, <1>3 DEF Next, MessageConfirmed, Tick, vars

-----------------------------------------------------------------------------
(* Theorems *)

\* The state keeps its shape: the two buffers hold booked messages.
THEOREM TypeCorrect == Spec => []TypeOK
  <1>1. MBInv => TypeOK  BY DEF MBInv
  <1>2. QED  BY <1>1, Invariance, PTL

\* However many children a message promotes at once, the queue fits the buffer
\* when the handler is done, and no message is in two places (BufferManagement).
THEOREM BufferAlwaysBounded == Spec => []BufferBounded
  <1>1. MBInv => BufferBounded  BY DEF MBInv
  <1>2. QED  BY <1>1, Invariance, PTL

\* The two handlers together miss no promotion (updateChildrenReady).
THEOREM PromotionComplete == Spec => []NothingWaitsReady
  <1>1. MBInv => NothingWaitsReady  BY DEF MBInv
  <1>2. QED  BY <1>1, Invariance, PTL

\* Under each burn policy, CreateMessage spends what the node has at most.
THEOREM NeverInDebt == Spec => []NoDebt
  <1>1. MBInv => NoDebt  BY DEF MBInv
  <1>2. QED  BY <1>1, Invariance, PTL

\* Every message is charged to its issuer exactly once, whatever is dropped,
\* scheduled or confirmed in between: what an issuer has is what it had and
\* earned without the burns of its booked or scheduled messages.
THEOREM LedgerBalanced == Spec => []ManaLedger
  <1>1. QED  BY LedgerInvariance, LedgerHolds, PTL

\* A message that becomes ready as it is booked and outbids the whole queue is
\* not dropped (BufferManagement, Less), for any buffer that is not empty.
THEOREM GreedyNotDropped == Spec => GreedyMessagesKept
  <1>1. MBInv /\ [Next]_vars => [GreedyKept]_vars  BY StepKeepsHighest
  <1>2. QED  BY <1>1, Invariance, PTL DEF Spec, GreedyMessagesKept, GreedyKept

=============================================================================
