------------------------------ MODULE ManaCost ------------------------------
(***************************************************************************)
(* What a message costs under the ICCA+ scheduler.  Time is divided into   *)
(* slots; every node computes the reference mana cost (RMC) of a slot by   *)
(* itself from the messages it has stored, pays it for each message it     *)
(* creates, and does not store a message that pays less.                   *)
(*                                                                         *)
(* One clock serves all nodes.  Messages may take any time to arrive, in   *)
(* any order, more than once or not at all.  Mana and costs are whole      *)
(* numbers of a small unit.  How a refused message delays those that       *)
(* reference it is the subject of Tangle.                                  *)
(***************************************************************************)
EXTENDS Integers, FiniteSets, Sequences

CONSTANTS
    Node,
    LastSlot,          \* bound on the clock
    MaxMessages,       \* bound on the messages created
    MaxMana,           \* bound on the access mana
    Income,            \* what a node earns at each tick
    RMCTime, MinCommittableAge, RMCPeriodUpdate,   \* in slots
    InitialRMC, RMCmin, RMCmax, RMCincrease, RMCdecrease,
    LowerRMCThreshold, UpperRMCThreshold

ASSUME BoundAssumption == {LastSlot, MaxMessages, MaxMana} \subseteq Nat
ASSUME IncomeAssumption == Income \in [Node -> Nat]
ASSUME TimeAssumption ==
    {RMCTime, MinCommittableAge} \subseteq Nat /\ RMCPeriodUpdate \in Nat \ {0}
ASSUME CostAssumption ==
    /\ {InitialRMC, RMCmin, RMCmax, RMCincrease, RMCdecrease} \subseteq Nat
    /\ RMCmin <= InitialRMC /\ InitialRMC <= RMCmax
    /\ {LowerRMCThreshold, UpperRMCThreshold} \subseteq Nat

VARIABLES
    now,        \* the slot of the clock
    issued,     \* the messages created so far, in order
    stored,     \* of each node the messages it has stored
    slotDB,     \* the slots it has an entry for
    rmc,        \* the costs it has computed, or None
    mana,       \* its own access mana
    metered,    \* localMetrics is set up
    skipped,    \* history: the nodes that came to a slot out of turn
    behind      \* history: the nodes that counted without some committable message

vars == <<now, issued, stored, slotDB, rmc, mana, metered, skipped, behind>>

None == -1
Slot == 0 .. LastSlot + RMCPeriodUpdate

-----------------------------------------------------------------------------
(* Storage.NewRMC *)

\* A map yields zero for a slot without an entry.
Cost(n, s) == IF rmc[n][s] = None THEN 0 ELSE rmc[n][s]

CountedSlots_X(s) == s - MinCommittableAge - RMCPeriodUpdate + 1 .. s - MinCommittableAge

\* The slots whose messages decide the cost at the boundary s.
CountedSlots(s) == s - MinCommittableAge - RMCPeriodUpdate .. s - MinCommittableAge - 1

\* MessagesCountInRange
MessagesCount(n, s) == Cardinality({m \in stored[n] : issued[m].slot \in CountedSlots(s)})

IsBoundary(s) == s > RMCTime /\ s % RMCPeriodUpdate = 0

Updated_X(cost, traffic) ==
    IF traffic < LowerRMCThreshold THEN cost - RMCdecrease
    ELSE IF traffic > UpperRMCThreshold THEN cost + RMCincrease ELSE cost

Updated(cost, traffic) ==
    IF traffic < LowerRMCThreshold
    THEN IF cost - RMCdecrease < RMCmin THEN RMCmin ELSE cost - RMCdecrease
    ELSE IF traffic > UpperRMCThreshold
    THEN IF cost + RMCincrease > RMCmax THEN RMCmax ELSE cost + RMCincrease
    ELSE cost

\* The costs of node n after it has computed that of slot s.
NewRMC(n, s) ==
    IF s = 0 THEN [rmc[n] EXCEPT ![0] = InitialRMC]
    ELSE IF IsBoundary(s)
    THEN LET traffic == MessagesCount(n, s) \div RMCPeriodUpdate
         IN  [t \in Slot |-> IF t \in s .. s + RMCPeriodUpdate - 1
                             THEN Updated(Cost(n, s - 1), traffic) ELSE rmc[n][t]]
    ELSE [rmc[n] EXCEPT ![s] = Cost(n, s - 1)]

\* The messages older than the committable age when slot s begins.
Committable(s) == {m \in DOMAIN issued : issued[m].slot < s - MinCommittableAge}

\* Node n comes to slot s, computing its cost if `new`.
Enter(n, s, new) ==
    /\ slotDB' = [slotDB EXCEPT ![n] = @ \cup {s}]
    /\ rmc' = IF new THEN [rmc EXCEPT ![n] = NewRMC(n, s)] ELSE rmc
    /\ skipped' = IF s \notin slotDB[n] /\ slotDB[n] # 0 .. s - 1
                  THEN skipped \cup {n} ELSE skipped
    /\ behind' = IF new /\ IsBoundary(s) /\ ~(Committable(s) \subseteq stored[n])
                 THEN behind \cup {n} ELSE behind

\* Storage.RMC
RMC(n, s) == Enter(n, s, s \notin slotDB[n])

-----------------------------------------------------------------------------
(* Actions *)

AdvanceClock ==
    /\ now < LastSlot
    /\ now' = now + 1
    /\ UNCHANGED <<issued, stored, slotDB, rmc, mana, metered, skipped, behind>>

Burned_X(n) == Cost(n, now)

CanPay(n, cost) == mana[n] >= cost

\* What BurnValue burns: the cost of the slot that RMC has computed.
Burned(n) == IF rmc'[n][now] = None THEN 0 ELSE rmc'[n][now]

\* CreateMessage and, in the same handler, Store of the new message.  The
\* socket holds payloads, and the validators have a ticker, to call it for.
CreateMessage(n) ==
    /\ Len(issued) < MaxMessages
    /\ RMC(n, now)
    /\ IF CanPay(n, Burned(n))
       THEN /\ mana' = [mana EXCEPT ![n] = @ - Burned(n)]
            /\ issued' = Append(issued, [issuer |-> n, slot |-> now, burn |-> Burned(n)])
            /\ stored' = [stored EXCEPT ![n] = @ \cup {Len(issued) + 1}]
       ELSE UNCHANGED <<mana, issued, stored>>
    /\ UNCHANGED <<now, metered>>

\* Store of message m at node n; n knows m no longer when it refuses it.
Store(n, m) ==
    /\ m \notin stored[n]
    /\ LET s == issued[m].slot
       IN  /\ Enter(n, s, rmc[n][s] = None)
           /\ stored' = IF issued[m].burn < rmc'[n][s] THEN stored
                        ELSE [stored EXCEPT ![n] = @ \cup {m}]
    /\ UNCHANGED <<now, issued, mana, metered>>

IncrementAccessMana(n) == mana' = [mana EXCEPT ![n] = @ + Income[n]]

\* The first call of all only sets up the maps of the metrics.
MonitorLocalMetrics(n) ==
    /\ metered' = TRUE
    /\ IF metered THEN RMC(n, now) ELSE UNCHANGED <<slotDB, rmc, skipped, behind>>

\* A tick of the scheduler.
Tick(n) ==
    /\ mana[n] + Income[n] <= MaxMana
    /\ IncrementAccessMana(n)
    /\ MonitorLocalMetrics(n)
    /\ UNCHANGED <<now, issued, stored>>

-----------------------------------------------------------------------------

Init ==
    /\ now = 0
    /\ issued = <<>>
    /\ stored = [n \in Node |-> {}]
    /\ slotDB = [n \in Node |-> {}]
    /\ rmc = [n \in Node |-> [s \in Slot |-> None]]
    /\ mana = [n \in Node |-> 0]
    /\ metered = FALSE
    /\ skipped = {}
    /\ behind = {}

Next ==
    \/ AdvanceClock
    \/ \E n \in Node :
          \/ CreateMessage(n)
          \/ \E m \in DOMAIN issued : Store(n, m)
          \/ Tick(n)

Spec == Init /\ [][Next]_vars

-----------------------------------------------------------------------------
(* Properties *)

TypeOK ==
    /\ now \in 0 .. LastSlot
    /\ issued \in Seq([issuer : Node, slot : 0 .. LastSlot, burn : Nat])
    /\ stored \in [Node -> SUBSET (DOMAIN issued)]
    /\ slotDB \in [Node -> SUBSET (0 .. LastSlot)]
    /\ rmc \in [Node -> [Slot -> Nat \cup {None}]]
    /\ mana \in [Node -> Int]
    /\ metered \in BOOLEAN
    /\ skipped \subseteq Node /\ behind \subseteq Node

Misled == skipped \cup behind

\* Nodes that came to the slots in turn, and had the messages older than the
\* committable age whenever NewRMC counted, have computed the same cost for
\* each slot, although each counted at a time of its own and the messages of
\* the latest slots may have reached one of them and not the other.
SameCost ==
    \A n, k \in Node \ Misled :
        \A s \in slotDB[n] \cap slotDB[k] : rmc[n][s] = rmc[k][s]

\* No node refuses what one that is not misled has paid (Store), not even a node
\* that is misled itself: from a cost that started again from zero, or from
\* too few messages, it computes nothing higher.
PaidMessagesAccepted ==
    \A m \in DOMAIN issued : \A n \in Node :
        issued[m].issuer \notin Misled /\ issued[m].slot \in slotDB[n]
            => issued[m].burn >= rmc[n][issued[m].slot]

\* The cost never exceeds its upper limit, and stays above the lower one unless
\* a slot was skipped, which makes it zero (NewRMC copies the cost of the slot
\* before).
CostInRange ==
    \A n \in Node : \A s \in slotDB[n] :
        /\ rmc[n][s] \in 0 .. RMCmax
        /\ n \notin skipped => rmc[n][s] >= RMCmin

=============================================================================
