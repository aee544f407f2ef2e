---------------------------- MODULE ICCAScheduler ----------------------------
(***************************************************************************)
(* The ICCA+ scheduler of one node: which of the messages it has booked a  *)
(* node passes on to its neighbours, in which order, and which it drops.   *)
(*                                                                         *)
(* A message enters when the Booker books it.  It waits in nonReadyMap     *)
(* until all its parents are eligible, then in the queue of its issuer     *)
(* until a deficit round robin picks it.  Handlers run one at a time in    *)
(* the goroutine of the node; only the loop of BufferManagement, which     *)
(* ends EnqueueMessage, is spread over steps (`trimming`).                 *)
(*                                                                         *)
(* Confirmation comes from the ApprovalManager: here any solid message may *)
(* become confirmed at any time.  Deficits and quanta are whole numbers of *)
(* a small unit, as in DeficitRoundRobin.                                  *)
(***************************************************************************)
EXTENDS Integers, FiniteSets

CONSTANTS
    NodesCount,
    Quantum,       \* bandwidth / SchedulingRate
    Work,          \* the 1 a message costs
    MaxDeficit,
    MaxBuffer,
    ConfEligible,  \* whether confirmed messages are eligible
    Self,          \* the node
    NoBurn,        \* the peers whose burn policy is 0
    Message,
    Universe       \* the DAGs of messages a run may start from

\* The zero value of MessageID: the root of the DAG, never a stored message.
Genesis == 0

Issuer == 0 .. NodesCount - 1

\* `valid`: the colours that meet in the message do not conflict.
\* `nano`: what Less compares, the nanoseconds within the second of issuance.
Content == [strong : SUBSET (Message \cup {Genesis}),
            weak   : SUBSET (Message \cup {Genesis}),
            issuer : Issuer, validation : BOOLEAN, valid : BOOLEAN, nano : Nat]

ASSUME NodesCountAssumption == NodesCount \in Nat \ {0}
ASSUME QuantumAssumption == Quantum \in [Issuer -> Nat \ {0}]
ASSUME WorkAssumption == Work \in Nat \ {0}
ASSUME MaxDeficitAssumption == MaxDeficit \in Nat /\ MaxDeficit >= Work
ASSUME MaxBufferAssumption == MaxBuffer \in Nat
ASSUME PolicyAssumption ==
    ConfEligible \in BOOLEAN /\ Self \in Issuer /\ NoBurn \subseteq Issuer
ASSUME MessageAssumption == Message \subseteq Nat \ {0} /\ IsFiniteSet(Message)
ASSUME UniverseAssumption ==
    \A u \in Universe :
        /\ u \in [Message -> Content]
        /\ \A m \in Message : \A p \in u[m].strong \cup u[m].weak : p < m

VARIABLES
    issued,      \* the contents of the messages
    solid,
    confirmed,
    scheduled,   \* scheduleTime is set
    nonReady,    \* nonReadyMap
    ready,       \* the messages in the issuer queues
    dropped,     \* history: the messages BufferManagement removed
    gossiped,    \* how often MessageScheduled passed a message to the network
    trimming,    \* the loop of BufferManagement is running
    deficits,
    roundRobin   \* the issuer the ring points to

vars == <<issued, solid, confirmed, scheduled, nonReady, ready, dropped,
          gossiped, trimming, deficits, roundRobin>>

-----------------------------------------------------------------------------
(* Storage.isReady and the promotion of children *)

Strong(m) == issued[m].strong \ {Genesis}
Weak(m) == issued[m].weak \ {Genesis}
Parents(m) == Strong(m) \cup Weak(m)

Eligible == IF ConfEligible THEN scheduled \cup confirmed ELSE scheduled

\* Whether m is ready once the messages E are eligible.
IsReady(m, E) == m \in solid /\ Parents(m) \subseteq E

\* (Variants named ..._X are wrong on purpose; the runs must tell them apart.)
PromotedStrong_X(m, E) == {c \in nonReady : m \in Strong(c) /\ IsReady(c, E)}
PromotedAny_X(m, E) == {c \in nonReady : m \in Parents(c)}
PromotedSolid_X(m, E) == {c \in solid : m \in Parents(c) /\ IsReady(c, E)}

\* The children of m that updateChildrenReady moves to the queues once the
\* messages E are eligible.
Promoted(m, E) == {c \in nonReady : m \in Parents(c) /\ IsReady(c, E)}

Queue(i) == {m \in ready : issued[m].issuer = i}
IssuerQueueLen(i) == Cardinality(Queue(i))

\* Less orders a queue by the nanoseconds; the heap breaks ties as it likes.
IsHead(m) ==
    /\ m \in ready
    /\ \A k \in Queue(issued[m].issuer) : issued[m].nano <= issued[k].nano

-----------------------------------------------------------------------------
(* Deficit round robin *)

\* The rounds i has to wait for are Need(i) / Quantum[i].
Need(i) == IF deficits[i] >= Work THEN 0 ELSE Work - deficits[i]

RoundsLess(i, j) == Need(i) * Quantum[j] < Need(j) * Quantum[i]

OnRing(k) == (roundRobin + k) % NodesCount

SelectLastSeen_X ==
    LET best[k \in 0 .. NodesCount] ==
            IF k = 0 THEN -1
            ELSE LET i == OnRing(k - 1)
                 IN  IF IssuerQueueLen(i) > 0 /\ (best[k - 1] = -1 \/ ~RoundsLess(best[k - 1], i))
                     THEN i ELSE best[k - 1]
    IN  best[NodesCount]

\* selectIssuer: one turn of the ring that keeps the best issuer seen so far.
SelectIssuer ==
    LET best[k \in 0 .. NodesCount] ==
            IF k = 0 THEN -1
            ELSE LET i == OnRing(k - 1)
                 IN  IF IssuerQueueLen(i) > 0 /\ (best[k - 1] = -1 \/ RoundsLess(i, best[k - 1]))
                     THEN i ELSE best[k - 1]
    IN  best[NodesCount]

\* incrementDeficit
Plus(x, delta) == IF x + delta > MaxDeficit THEN MaxDeficit ELSE x + delta

\* The issuers the ring passes before it points to s.
Passed(s) == {i \in Issuer : (i - roundRobin) % NodesCount < (s - roundRobin) % NodesCount}

\* Everybody gains the rounds, those passed one more, and s pays.
DeficitsAfter(s) ==
    LET rounds == [i \in Issuer |->
                      Plus(deficits[i], (Need(s) * Quantum[i]) \div Quantum[s])]
        lap == [i \in Issuer |->
                   IF i \in Passed(s) THEN Plus(rounds[i], Quantum[i]) ELSE rounds[i]]
    IN  [lap EXCEPT ![s] = Plus(@, -Work)]

-----------------------------------------------------------------------------
Init ==
    /\ issued \in Universe
    /\ solid = {}
    /\ confirmed = {}
    /\ scheduled = {}
    /\ nonReady = {}
    /\ ready = {}
    /\ dropped = {}
    /\ gossiped = [m \in Message |-> 0]
    /\ trimming = FALSE
    /\ deficits = [i \in Issuer |-> 0]
    /\ roundRobin = 0

Arrives(m) ==
    /\ ~trimming
    /\ m \notin solid
    /\ Parents(m) \subseteq solid
    /\ solid' = solid \cup {m}

\* A message with conflicting colours is solid but never booked.
BecomeInvalid(m) ==
    /\ ~issued[m].valid
    /\ Arrives(m)
    /\ UNCHANGED <<issued, confirmed, scheduled, nonReady, ready, dropped,
                   gossiped, trimming, deficits, roundRobin>>

\* How often EnqueueMessage passes m on before it queues it: once if it is a
\* validation block, once if it is an own message and the node burns nothing.
Skips(m) ==
    (IF issued[m].validation THEN 1 ELSE 0)
    + (IF issued[m].issuer = Self /\ Self \in NoBurn THEN 1 ELSE 0)

\* EnqueueMessage on a message just booked.  No child of it is solid yet, so
\* updateChildrenReady finds nothing.
EnqueueMessage(m) ==
    /\ issued[m].valid
    /\ Arrives(m)
    /\ scheduled' = IF Skips(m) > 0 THEN scheduled \cup {m} ELSE scheduled
    /\ gossiped' = [gossiped EXCEPT ![m] = @ + Skips(m)]
    /\ IF Parents(m) \subseteq Eligible
       THEN ready' = ready \cup {m} /\ UNCHANGED nonReady
       ELSE nonReady' = nonReady \cup {m} /\ UNCHANGED ready
    /\ trimming' = TRUE
    /\ UNCHANGED <<issued, confirmed, dropped, deficits, roundRobin>>

LongestUnscaled_X(i) ==
    \A j \in Issuer : \/ IssuerQueueLen(i) > IssuerQueueLen(j)
                      \/ IssuerQueueLen(i) = IssuerQueueLen(j) /\ j <= i

\* The issuer whose queue is the longest for its quantum, the last of several.
Longest(i) ==
    \A j \in Issuer :
        \/ IssuerQueueLen(i) * Quantum[j] > IssuerQueueLen(j) * Quantum[i]
        \/ IssuerQueueLen(i) * Quantum[j] = IssuerQueueLen(j) * Quantum[i] /\ j <= i

\* One turn of the loop of BufferManagement.
DropHead(m) ==
    /\ trimming
    /\ Cardinality(ready) > MaxBuffer
    /\ Longest(issued[m].issuer) /\ IsHead(m)
    /\ ready' = ready \ {m}
    /\ dropped' = dropped \cup {m}
    /\ UNCHANGED <<issued, solid, confirmed, scheduled, nonReady, gossiped,
                   trimming, deficits, roundRobin>>

BufferTrimmed ==
    /\ trimming
    /\ Cardinality(ready) <= MaxBuffer
    /\ trimming' = FALSE
    /\ UNCHANGED <<issued, solid, confirmed, scheduled, nonReady, ready, dropped,
                   gossiped, deficits, roundRobin>>

\* One tick of the scheduler.  setReady does not run BufferManagement.
ScheduleMessage(m) ==
    /\ ~trimming
    /\ issued[m].issuer = SelectIssuer /\ IsHead(m)
    /\ scheduled' = scheduled \cup {m}
    /\ gossiped' = [gossiped EXCEPT ![m] = @ + 1]
    /\ LET up == Promoted(m, Eligible \cup {m})
       IN  ready' = (ready \ {m}) \cup up /\ nonReady' = nonReady \ up
    /\ deficits' = DeficitsAfter(issued[m].issuer)
    /\ roundRobin' = issued[m].issuer
    /\ UNCHANGED <<issued, solid, confirmed, dropped, trimming>>

ConfirmUnseen_X(m) ==
    /\ ~trimming
    /\ m \in solid \ confirmed
    /\ confirmed' = confirmed \cup {m}
    /\ UNCHANGED <<issued, solid, scheduled, nonReady, ready, dropped, gossiped,
                   trimming, deficits, roundRobin>>

\* The handler of MessageConfirmed.
Confirm(m) ==
    /\ ~trimming
    /\ m \in solid \ confirmed
    /\ confirmed' = confirmed \cup {m}
    /\ LET up == IF ConfEligible THEN Promoted(m, Eligible \cup {m}) ELSE {}
       IN  ready' = ready \cup up /\ nonReady' = nonReady \ up
    /\ UNCHANGED <<issued, solid, scheduled, dropped, gossiped, trimming,
                   deficits, roundRobin>>

Next ==
    \/ \E m \in Message :
          \/ BecomeInvalid(m) \/ EnqueueMessage(m) \/ DropHead(m)
          \/ ScheduleMessage(m) \/ Confirm(m)
    \/ BufferTrimmed

Spec == Init /\ [][Next]_vars

\* BufferManagement loops until it is done, and processMessages calls
\* ScheduleMessage at every tick of the scheduler.
FairSpec ==
    /\ Spec
    /\ WF_vars(BufferTrimmed \/ \E m \in Message : DropHead(m))
    /\ WF_vars(\E m \in Message : ScheduleMessage(m))

-----------------------------------------------------------------------------
(* Properties *)

\* The shape of the state.
TypeOK ==
    /\ issued \in [Message -> Content]
    /\ solid \in SUBSET Message
    /\ confirmed \in SUBSET solid
    /\ scheduled \in SUBSET solid
    /\ nonReady \in SUBSET solid
    /\ ready \in SUBSET (solid \ nonReady)
    /\ dropped \in SUBSET (solid \ (ready \cup nonReady))
    /\ gossiped \in [Message -> Nat]
    /\ trimming \in BOOLEAN
    /\ deficits \in [Issuer -> Int]
    /\ roundRobin \in Issuer

Booked == {m \in solid : issued[m].valid}
Regular == {m \in Message : Skips(m) = 0}

\* Every booked message is passed on, queued, waiting or dropped; none falls
\* between nonReadyMap and the queues.
NoneLost == Booked = scheduled \cup ready \cup nonReady \cup dropped

\* A regular message is passed on at most once, and never one that waits or
\* was dropped.
PassedOnOnce ==
    \A m \in Regular :
        gossiped[m] = IF m \in scheduled \ (ready \cup nonReady \cup dropped) THEN 1 ELSE 0

\* A regular message is queued or passed on only when all its parents are
\* scheduled or, with ConfEligible, confirmed: the node's order of gossip never
\* overtakes the past cone.
ParentsComeFirst ==
    \A m \in ready \cup (scheduled \cap Regular) : Parents(m) \subseteq Eligible

\* A message left in nonReadyMap still has a parent that is not eligible: no
\* order of scheduling and confirming its parents forgets it.
NothingStuck == \A m \in nonReady : ~IsReady(m, Eligible)

\* What a waiting message waits for, however deep in its past cone, is a
\* message still in a queue, or one that was dropped or is invalid.
WaitsForAQueue ==
    \A m \in nonReady :
        \A S \in SUBSET Message :
            m \in S /\ (\A k \in S : Parents(k) \subseteq S) =>
                \E p \in S \ Eligible : p \in ready \cup dropped \/ ~issued[p].valid

\* The sum of f over the issuers.
SumOf(f) ==
    LET sum[k \in 0 .. NodesCount] == IF k = 0 THEN 0 ELSE sum[k - 1] + f[k - 1]
    IN  sum[NodesCount]

\* An issuer only loses messages while it has more of them in the buffer than
\* the share of MaxBuffer that goes with its quantum: whoever floods the
\* buffer pays for it.
OnlyExcessDropped ==
    [][\A m \in dropped' \ dropped :
          LET i == issued[m].issuer
          IN  IssuerQueueLen(i) * SumOf(Quantum) > MaxBuffer * Quantum[i]]_vars

\* The queues are served as DeficitRoundRobin promises.
DRR == INSTANCE DeficitRoundRobin
           WITH backlog <- [i \in Issuer |-> IssuerQueueLen(i)],
                MaxBacklog <- Cardinality(Message)
ImplementsRoundRobin == DRR!RingSpec

\* Why a message may never be passed on: it, or something it rests on that is
\* not eligible, was dropped or is invalid.
Blocked(m) ==
    LET Waits(k) == {k} \cup (Parents(k) \ Eligible)
        below[n \in 0 .. Cardinality(Message)] ==
            IF n = 0 THEN {m} ELSE UNION {Waits(k) : k \in below[n - 1]}
    IN  \E k \in below[Cardinality(Message)] : k \in dropped \/ ~issued[k].valid

\* In the end every solid message has been passed on and is out of the queues,
\* unless something it rests on is lost for good.
AllPassedOn ==
    <>[](\A m \in solid : m \in scheduled \ (ready \cup nonReady) \/ Blocked(m))

=============================================================================
