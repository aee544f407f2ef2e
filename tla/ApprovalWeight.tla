--------------------------- MODULE ApprovalWeight ---------------------------
(***************************************************************************)
(* How one node decides which messages are confirmed and which are         *)
(* orphaned: ApprovalManager.ApproveMessages, the walk of Utils through    *)
(* the past cone of a validation message, and the part of Storage that     *)
(* keeps the accepted tangle time (ATT).                                   *)
(*                                                                         *)
(* The walk is explicit, one action per message it visits, because the     *)
(* verdict on a message depends on the ATT and the ATT moves with every    *)
(* message the same walk has confirmed before.  Utils walks breadth first: *)
(* `queue` is its FIFO queue.  An element of it is a batch of parents that *)
(* were pushed by one `for range` loop over a map, whose order Go leaves   *)
(* open, so any message of the first batch may come next.  `pushed` holds  *)
(* what the walker has seen: without revisits it takes a message once.     *)
(*                                                                         *)
(* All of it runs inside the handler of MessageSolid, hence the guards on  *)
(* Idle.  Nodes do not share any of this state, so one node is modelled.   *)
(***************************************************************************)
EXTENDS Integers, FiniteSets, Sequences, FiniteSetsExt

CONSTANTS
    Peer,               \* the issuers
    Message,
    Weight,             \* consensus weight of each peer
    Bar,                \* ConfirmationThreshold * TotalWeight
    MinCommittableAge,  \* with SlowdownFactor multiplied in
    Universe            \* the DAGs of messages a run may start from

\* The zero value of MessageID: the root of the DAG, never a stored message.
Genesis == 0

Content == [strong : SUBSET (Message \cup {Genesis}),
            weak   : SUBSET (Message \cup {Genesis}),
            issuer : Peer, validation : BOOLEAN, time : Nat]

ASSUME MessageAssumption == Message \subseteq Nat \ {0} /\ IsFiniteSet(Message)
ASSUME WeightAssumption == Weight \in [Peer -> Nat] /\ Bar \in Nat /\ IsFiniteSet(Peer)
ASSUME AgeAssumption == MinCommittableAge \in Nat

\* A message is created after its parents: it has a larger identifier and it
\* is not older.  Times count from the genesis time.
ASSUME UniverseAssumption ==
    \A u \in Universe :
        /\ u \in [Message -> Content]
        /\ \A m \in Message : \A p \in u[m].strong \cup u[m].weak :
              p < m /\ (p # Genesis => u[p].time <= u[m].time)

VARIABLES
    issued,     \* the contents of the messages
    stored,     \* messageDB
    solid,      \* the messages whose metadata says solid
    approvers,  \* the bits of weightSlice: the peers whose weight was added
    weight,     \* the weight in the metadata
    confirmed,  \* confirmationTime is set
    orphaned,   \* orphanTime is set
    att,        \* accepted tangle time
    walker,     \* the validation message ApproveMessages runs for, else Genesis
    queue,
    pushed

vars == <<issued, stored, solid, approvers, weight, confirmed, orphaned, att,
          walker, queue, pushed>>

-----------------------------------------------------------------------------
Strong(m) == issued[m].strong \ {Genesis}
Weak(m) == issued[m].weak \ {Genesis}
Parents(m) == Strong(m) \cup Weak(m)

Idle == walker = Genesis

\* (Variants named ..._X are wrong on purpose; the runs must tell them apart.)
TooOldAtAge_X(m) == issued[m].time <= att - MinCommittableAge
TooOld(m) == issued[m].time < att - MinCommittableAge

\* A stored message that lacks nothing any more is solidified before the node
\* takes the next message from its socket.
Ready == {m \in stored \ solid : Parents(m) \subseteq solid}

Init ==
    /\ issued \in Universe
    /\ stored = {}
    /\ solid = {}
    /\ approvers = [m \in Message |-> {}]
    /\ weight = [m \in Message |-> 0]
    /\ confirmed = {}
    /\ orphaned = {}
    /\ att = 0
    /\ walker = Genesis
    /\ queue = <<>>
    /\ pushed = {}

\* Storage.Store: a message that arrives too late is orphaned at once.
Store(m) ==
    /\ Idle /\ Ready = {}
    /\ m \notin stored
    /\ stored' = stored \cup {m}
    /\ orphaned' = IF TooOld(m) THEN orphaned \cup {m} ELSE orphaned
    /\ UNCHANGED <<issued, solid, approvers, weight, confirmed, att, walker,
                   queue, pushed>>

\* ApproveMessages on a message that just became solid.  Only validation
\* messages approve their past cone.
BecomeSolid(m) ==
    /\ Idle
    /\ m \in Ready
    /\ solid' = solid \cup {m}
    /\ IF issued[m].validation
       THEN walker' = m /\ queue' = <<{m}>> /\ pushed' = {m}
       ELSE UNCHANGED <<walker, queue, pushed>>
    /\ UNCHANGED <<issued, stored, approvers, weight, confirmed, orphaned, att>>

AddToAcceptedSlotLatest_X(m) == att' = issued[m].time

\* The accepted tangle time moves to that of m.
AddToAcceptedSlot(m) == att' = IF issued[m].time > att THEN issued[m].time ELSE att

AcceptAgain_X(m, w) ==
    IF w < Bar THEN UNCHANGED <<confirmed, orphaned, att>>
    ELSE IF TooOld(m)
         THEN orphaned' = orphaned \cup {m} /\ UNCHANGED <<confirmed, att>>
         ELSE confirmed' = confirmed \cup {m} /\ AddToAcceptedSlot(m) /\ UNCHANGED orphaned
AcceptOwnOnly_X(m, w) ==
    IF w < Bar \/ m \in confirmed \cup orphaned \/ (TooOld(m) /\ m # walker)
    THEN UNCHANGED <<confirmed, orphaned, att>>
    ELSE confirmed' = confirmed \cup {m} /\ AddToAcceptedSlot(m) /\ UNCHANGED orphaned

\* The verdict on a message of weight w.
Accept(m, w) ==
    IF w < Bar \/ m \in confirmed \cup orphaned THEN UNCHANGED <<confirmed, orphaned, att>>
    ELSE IF TooOld(m)
         THEN orphaned' = orphaned \cup {m} /\ UNCHANGED <<confirmed, att>>
         ELSE confirmed' = confirmed \cup {m} /\ AddToAcceptedSlot(m) /\ UNCHANGED orphaned

IssuerOf(m) == issued[m].issuer

\* The parents the walk goes on to, the strong ones first.
BatchesStrong_X(m) == <<Strong(m) \ pushed>>
Batches(m) == <<Strong(m) \ pushed, Weak(m) \ (pushed \cup Strong(m))>>

Visited(m) == <<Head(queue) \ {m}>> \o Tail(queue)

\* The walk reaches a message that its issuer has not approved before.
Approve(m) ==
    /\ queue # <<>> /\ m \in Head(queue)
    /\ IssuerOf(walker) \notin approvers[m]
    /\ approvers' = [approvers EXCEPT ![m] = @ \cup {IssuerOf(walker)}]
    /\ weight' = [weight EXCEPT ![m] = @ + Weight[IssuerOf(walker)]]
    /\ Accept(m, weight'[m])
    /\ queue' = Visited(m) \o Batches(m)
    /\ pushed' = pushed \cup Parents(m)
    /\ UNCHANGED <<issued, stored, solid, walker>>

\* It stops at one that was approved already.
AlreadyApproved(m) ==
    /\ queue # <<>> /\ m \in Head(queue)
    /\ IssuerOf(walker) \in approvers[m]
    /\ queue' = Visited(m)
    /\ UNCHANGED <<issued, stored, solid, approvers, weight, confirmed, orphaned,
                   att, walker, pushed>>

BatchDone ==
    /\ queue # <<>> /\ Head(queue) = {}
    /\ queue' = Tail(queue)
    /\ UNCHANGED <<issued, stored, solid, approvers, weight, confirmed, orphaned,
                   att, walker, pushed>>

WalkEnds ==
    /\ ~Idle /\ queue = <<>>
    /\ walker' = Genesis /\ pushed' = {}
    /\ UNCHANGED <<issued, stored, solid, approvers, weight, confirmed, orphaned,
                   att, queue>>

Next ==
    \/ \E m \in Message :
          Store(m) \/ BecomeSolid(m) \/ Approve(m) \/ AlreadyApproved(m)
    \/ BatchDone
    \/ WalkEnds

Spec == Init /\ [][Next]_vars

-----------------------------------------------------------------------------
(* Properties *)

\* The shape of the state.  The walk never leaves the solid messages, whose
\* metadata is all there.
TypeOK ==
    /\ issued \in [Message -> Content]
    /\ stored \in SUBSET Message
    /\ solid \in SUBSET stored
    /\ approvers \in [Message -> SUBSET Peer]
    /\ weight \in [Message -> Nat]
    /\ confirmed \in SUBSET solid
    /\ orphaned \in SUBSET stored
    /\ att \in Nat
    /\ walker \in solid \cup {Genesis}
    /\ queue \in Seq(SUBSET Message)
    /\ pushed \in SUBSET solid

PastClosed(S) == \A m \in S : Parents(m) \subseteq S

\* m lies in the past cone of v, v itself included.
InCone(m, v) == \A S \in SUBSET Message : v \in S /\ PastClosed(S) => m \in S

\* The issuers of the solid validation messages that have m in their past cone.
Approving(m) == {issued[v].issuer : v \in {x \in solid : issued[x].validation /\ InCone(m, x)}}

\* Between two messages, a peer's bit is set on exactly the messages in the
\* past cone of the solid validation messages of that peer: stopping the walk
\* at the first bit that is set loses nobody below it.
ApproversExact == Idle => \A m \in solid : approvers[m] = Approving(m)

\* Between two messages, a message carries the weight of the validators that
\* have it in the past cone of one of their messages, each counted once however
\* many paths and walks lead to it, and none is missed.
WeightOfApprovers ==
    Idle => \A m \in solid : weight[m] = MapThenSumSet(LAMBDA p : Weight[p], Approving(m))

\* No message is both confirmed and orphaned, and once its weight has reached
\* the threshold it is the one or the other.
Decided ==
    /\ confirmed \cap orphaned = {}
    /\ \A m \in confirmed : weight[m] >= Bar
    /\ \A m \in solid : weight[m] >= Bar /\ Bar > 0 => m \in confirmed \cup orphaned

\* Between two messages, everything a confirmed message refers to has been
\* decided as well.
ConfirmedRestsOnDecided ==
    Idle => \A m \in confirmed : Parents(m) \subseteq confirmed \cup orphaned

\* The ATT is the time of the newest confirmed message.
AttIsNewestConfirmed ==
    /\ \A m \in confirmed : issued[m].time <= att
    /\ att # 0 => \E m \in confirmed : issued[m].time = att

\* A message is only orphaned if something sufficiently newer is confirmed.
OrphansAreOld ==
    \A m \in orphaned : \E k \in confirmed :
        issued[m].time < issued[k].time - MinCommittableAge

=============================================================================
