----------------------------- MODULE MBScheduler -----------------------------
(***************************************************************************)
(* The mana burn scheduler of one node.  The ready messages are passed on  *)
(* in the order of the mana they burn, and the node keeps an account of    *)
(* the access mana of every issuer: its own it charges when it creates a   *)
(* message, that of the others when it schedules one.                      *)
(*                                                                         *)
(* Handlers run one at a time in the goroutine of the node.  Confirmation  *)
(* comes from the ApprovalManager: any booked message may become confirmed *)
(* at any time.  Mana is counted in whole units.                           *)
(***************************************************************************)
EXTENDS Integers, FiniteSets, FiniteSetsExt

CONSTANTS
    Issuer,        \* PeerIDs
    Self,          \* the node
    InitialMana,
    Earned,        \* what an issuer earns at each tick
    MaxTicks,      \* bound on the ticks that are paid
    MaxBuffer,
    ConfEligible,  \* whether confirmed messages are eligible
    Policies,      \* the burn policies Self may have
    Message,
    Universe       \* the DAGs of messages a run may start from

Genesis == 0

\* `burn` is what a message of another issuer burns; `nano` is what Less
\* compares of the time of issuance.
Content == [strong : SUBSET (Message \cup {Genesis}), weak : SUBSET (Message \cup {Genesis}),
            issuer : Issuer, burn : Nat, nano : Nat]

ASSUME SelfAssumption == Self \in Issuer
ASSUME ManaAssumption ==
    InitialMana \in Nat /\ Earned \in [Issuer -> Nat] /\ MaxTicks \in Nat
ASSUME BufferAssumption == MaxBuffer \in Nat /\ ConfEligible \in BOOLEAN
ASSUME PolicyAssumption == Policies \subseteq {"NoBurn", "Anxious", "Greedy1", "Greedy10"}
ASSUME MessageAssumption == Message \subseteq Nat \ {0} /\ IsFiniteSet(Message)
ASSUME UniverseAssumption ==
    \A u \in Universe :
        /\ u \in [Message -> Content]
        /\ \A m \in Message : \A p \in u[m].strong \cup u[m].weak : p < m

VARIABLES
    issued,      \* the contents of the messages
    policy,      \* the burn policy of Self
    burn,        \* ManaBurnValue
    booked,
    confirmed,
    scheduled,   \* scheduleTime is set
    nonReady,    \* nonReadyMap
    ready,       \* readyQueue
    accessMana,
    ticks        \* how often IncrementAccessMana paid

vars == <<issued, policy, burn, booked, confirmed, scheduled, nonReady, ready, accessMana, ticks>>

-----------------------------------------------------------------------------
(* Storage.isReady *)

Parents(m) == (issued[m].strong \cup issued[m].weak) \ {Genesis}

\* The eligible messages once S are scheduled.
Eligible(S) == IF ConfEligible THEN S \cup confirmed ELSE S

IsReady(m, E) == Parents(m) \subseteq E

-----------------------------------------------------------------------------
(* PriorityQueue *)

\* Less: a message comes before those that burn less, or as much and later;
\* b is what they burn.
Less(b, m, k) == b[m] > b[k] \/ (b[m] = b[k] /\ issued[m].nano < issued[k].nano)

TrimsFirst_X(b, R) ==
    IF Cardinality(R) <= MaxBuffer THEN {R}
    ELSE {T \in SUBSET R : /\ Cardinality(T) = MaxBuffer
                           /\ \A m \in R \ T, k \in T : ~Less(b, k, m)}

\* BufferManagement drops a last message of the queue while it is too long:
\* what can be left of R.
Trims(b, R) ==
    IF Cardinality(R) <= MaxBuffer THEN {R}
    ELSE {T \in SUBSET R : /\ Cardinality(T) = MaxBuffer
                           /\ \A m \in R \ T, k \in T : ~Less(b, m, k)}

GetMaxManaBurn == Max({0} \cup {burn[m] : m \in ready})

-----------------------------------------------------------------------------
(* Handlers *)

PromotedStrong_X(m, E) == {c \in nonReady : m \in issued[c].strong /\ IsReady(c, E)}

\* The children of m that updateChildrenReady moves to the queue.
Promoted(m, E) == {c \in nonReady : m \in Parents(c) /\ IsReady(c, E)}

\* updateChildrenReady of m, with the queue R and the eligible messages E.
UpdateChildrenReady(m, R, E) ==
    /\ nonReady' = nonReady \ Promoted(m, E)
    /\ ready' \in Trims(burn, R \cup Promoted(m, E))

\* EnqueueMessage, when the Booker has booked m.
EnqueueMessage(m) ==
    /\ booked' = booked \cup {m}
    /\ IF IsReady(m, Eligible(scheduled))
       THEN nonReady' = nonReady /\ ready' \in Trims(burn', ready \cup {m})
       ELSE nonReady' = nonReady \cup {m} /\ ready' \in Trims(burn', ready)

CanBook(m) == m \notin booked /\ Parents(m) \subseteq booked

\* A message of another issuer.
Receive(m) ==
    /\ CanBook(m) /\ issued[m].issuer # Self
    /\ UNCHANGED burn
    /\ EnqueueMessage(m)
    /\ UNCHANGED <<issued, policy, confirmed, scheduled, accessMana, ticks>>

BurnValue ==
    CASE policy = "NoBurn" -> 0
      [] policy = "Anxious" -> accessMana[Self]
      [] policy = "Greedy1" -> GetMaxManaBurn + 1
      [] policy = "Greedy10" -> GetMaxManaBurn + 10

\* CreateMessage: the node pays for its message when it creates it.
CreateMessage(m) ==
    /\ CanBook(m) /\ issued[m].issuer = Self
    /\ BurnValue <= accessMana[Self] \/ policy \in {"NoBurn", "Anxious"}
    /\ burn' = [burn EXCEPT ![m] = BurnValue]
    /\ accessMana' = [accessMana EXCEPT ![Self] = @ - BurnValue]
    /\ EnqueueMessage(m)
    /\ UNCHANGED <<issued, policy, confirmed, scheduled, ticks>>

\* The handler of MessageConfirmed.
MessageConfirmed(m) ==
    /\ m \in booked \ confirmed
    /\ confirmed' = confirmed \cup {m}
    /\ IF ConfEligible
       THEN UpdateChildrenReady(m, ready, scheduled \cup confirmed')
       ELSE UNCHANGED <<nonReady, ready>>
    /\ UNCHANGED <<issued, policy, burn, booked, scheduled, accessMana, ticks>>

Charged_X(m) == {issued[m].issuer}

\* Whom ScheduleMessage charges: the node has paid for its own messages.
Charged(m) == {issued[m].issuer} \ {Self}

\* The mana of IncrementAccessMana, at the ticks that are paid.
Income(i) == IF ticks < MaxTicks THEN Earned[i] ELSE 0

\* ScheduleMessage of m, the first of the queue, after IncrementAccessMana.
ScheduleMessage(m) ==
    /\ m \in ready /\ \A k \in ready : ~Less(burn, k, m)
    /\ accessMana' = [i \in Issuer |-> accessMana[i] + Income(i)
                                       - (IF i \in Charged(m) THEN burn[m] ELSE 0)]
    /\ scheduled' = scheduled \cup {m}
    /\ UpdateChildrenReady(m, ready \ {m}, Eligible(scheduled \cup {m}))

\* What the ticker of processMessages does.
Tick ==
    /\ UNCHANGED burn
    /\ \/ \E m \in Message : ScheduleMessage(m)
       \/ /\ ready = {} /\ ticks < MaxTicks
          /\ accessMana' = [i \in Issuer |-> accessMana[i] + Income(i)]
          /\ UNCHANGED <<scheduled, nonReady, ready>>
    /\ ticks' = IF ticks < MaxTicks THEN ticks + 1 ELSE ticks
    /\ UNCHANGED <<issued, policy, booked, confirmed>>

-----------------------------------------------------------------------------

Init ==
    /\ issued \in Universe
    /\ policy \in Policies
    /\ burn = [m \in Message |-> IF issued[m].issuer = Self THEN 0 ELSE issued[m].burn]
    /\ booked = {} /\ confirmed = {} /\ scheduled = {} /\ nonReady = {} /\ ready = {}
    /\ accessMana = [i \in Issuer |-> InitialMana]
    /\ ticks = 0

Next ==
    \/ \E m \in Message : Receive(m) \/ CreateMessage(m) \/ MessageConfirmed(m)
    \/ Tick

\* The ticker fires for ever.
Fairness == WF_vars(Tick)

Spec == Init /\ [][Next]_vars /\ Fairness

-----------------------------------------------------------------------------
(* Properties *)

TypeOK ==
    /\ issued \in Universe /\ policy \in Policies
    /\ burn \in [Message -> Nat]
    /\ booked \subseteq Message /\ confirmed \subseteq booked
    /\ scheduled \subseteq booked /\ nonReady \subseteq booked /\ ready \subseteq booked
    /\ accessMana \in [Issuer -> Int]
    /\ ticks \in 0 .. MaxTicks

Dropped == booked \ (nonReady \cup ready \cup scheduled)

\* However many children a handler promotes at once, the buffer is not left
\* longer than its bound, and no message is in two places or comes back from
\* one it has left.
BufferBounded ==
    /\ Cardinality(ready) <= MaxBuffer
    /\ nonReady \cap ready = {} /\ (nonReady \cup ready) \cap scheduled = {}

Burnt(S) == MapThenSumSet(LAMBDA m : burn[m], S)

\* Every message is charged to its issuer once: the node's own when it is
\* created, whether it is scheduled or dropped later, those of the others when
\* they are scheduled.  What the node has itself never becomes negative.
ManaLedger ==
    /\ \A i \in Issuer :
        LET paid == {m \in IF i = Self THEN booked ELSE scheduled : issued[m].issuer = i}
        IN  accessMana[i] = InitialMana + ticks * Earned[i] - Burnt(paid)
    /\ accessMana[Self] >= 0

\* The messages that wait, themselves or through their parents, for a dropped one.
StuckBelowDrop[m \in Message] == m \in Dropped \/ \E p \in Parents(m) : StuckBelowDrop[p]

\* A booked message is passed on in the end, unless it or a message it depends
\* on was dropped: no handler leaves a child behind that has become ready.
PassedOnUnlessDropped ==
    \A m \in Message : m \in booked ~> m \in scheduled \/ StuckBelowDrop[m]

\* A message that burns more than all those in the queue is not dropped when
\* it arrives: a greedy node does not lose what it has just paid for.
GreedyMessagesKept ==
    [][\A m \in Message :
        m \in booked' \ booked /\ m \notin nonReady' /\ MaxBuffer > 0
            /\ (\A k \in ready : burn'[m] > burn[k]) => m \in ready']_vars

=============================================================================
