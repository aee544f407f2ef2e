--------------------------- MODULE ApprovalProofs ---------------------------
(***************************************************************************)
(* For every set of peers, all weights and every DAG of messages: whose    *)
(* approval and weight a message carries, what it rests on once it is      *)
(* confirmed, and what the accepted tangle time says.  Then, about Setup,  *)
(* where the weights and the network come from: for every configuration,   *)
(* what the rewiring keeps, who can answer whom, and that the weights add  *)
(* up and the groups of adversaries hold their mana.                       *)
(***************************************************************************)
EXTENDS ApprovalWeight, Setup, SequenceTheorems, InductionLemmas

-----------------------------------------------------------------------------
(* The queue of the walk *)

PendingIn(q) == UNION {q[k] : k \in DOMAIN q}

\* A concatenation holds what its parts hold.
LEMMA PendingConcat ==
    ASSUME NEW q \in Seq(SUBSET Message), NEW r \in Seq(SUBSET Message)
    PROVE  /\ q \o r \in Seq(SUBSET Message)
           /\ PendingIn(q \o r) = PendingIn(q) \cup PendingIn(r)
<1>1. /\ q \o r \in Seq(SUBSET Message) /\ Len(q) \in Nat /\ Len(r) \in Nat
      /\ DOMAIN q = 1 .. Len(q) /\ DOMAIN r = 1 .. Len(r)
      /\ DOMAIN (q \o r) = 1 .. Len(q) + Len(r)
  OBVIOUS
<1>2. \A k \in DOMAIN q : k \in DOMAIN (q \o r) /\ (q \o r)[k] = q[k]
  BY <1>1
<1>3. \A k \in DOMAIN r :
          Len(q) + k \in DOMAIN (q \o r) /\ (q \o r)[Len(q) + k] = r[k]
  BY <1>1
<1>4. \A k \in DOMAIN (q \o r) :
          \/ k \in DOMAIN q /\ (q \o r)[k] = q[k]
          \/ k - Len(q) \in DOMAIN r /\ (q \o r)[k] = r[k - Len(q)]
  BY <1>1
<1>5. PendingIn(q) \subseteq PendingIn(q \o r)
  BY <1>2 DEF PendingIn
<1>6. PendingIn(r) \subseteq PendingIn(q \o r)
  BY <1>3 DEF PendingIn
<1>7. PendingIn(q \o r) \subseteq PendingIn(q) \cup PendingIn(r)
  BY <1>4 DEF PendingIn
<1> QED
  BY <1>1, <1>5, <1>6, <1>7

\* One batch.
LEMMA PendingOne ==
    ASSUME NEW a \in SUBSET Message
    PROVE  <<a>> \in Seq(SUBSET Message) /\ PendingIn(<<a>>) = a
<1>1. <<a>> \in Seq(SUBSET Message) /\ DOMAIN <<a>> = {1} /\ <<a>>[1] = a
  OBVIOUS
<1> QED
  BY <1>1 DEF PendingIn

\* Two batches.
LEMMA PendingTwo ==
    ASSUME NEW a \in SUBSET Message, NEW b \in SUBSET Message
    PROVE  <<a, b>> \in Seq(SUBSET Message) /\ PendingIn(<<a, b>>) = a \cup b
<1>1. /\ <<a, b>> \in Seq(SUBSET Message) /\ DOMAIN <<a, b>> = {1, 2}
      /\ <<a, b>>[1] = a /\ <<a, b>>[2] = b
  OBVIOUS
<1> QED
  BY <1>1 DEF PendingIn

\* A queue splits into its first batch and the rest.
LEMMA PendingSplit ==
    ASSUME NEW q \in Seq(SUBSET Message), q # <<>>
    PROVE  /\ Head(q) \in SUBSET Message
           /\ Tail(q) \in Seq(SUBSET Message)
           /\ PendingIn(q) = Head(q) \cup PendingIn(Tail(q))
<1>1. Head(q) \in SUBSET Message /\ Tail(q) \in Seq(SUBSET Message)
  OBVIOUS
<1>2. q = <<Head(q)>> \o Tail(q)
  OBVIOUS
<1> DEFINE first == <<Head(q)>>
<1>3. first \in Seq(SUBSET Message) /\ PendingIn(first) = Head(q)
  BY <1>1, PendingOne
<1> HIDE DEF first
<1>4. PendingIn(first \o Tail(q)) = PendingIn(first) \cup PendingIn(Tail(q))
  BY <1>1, <1>3, PendingConcat
<1>5. first \o Tail(q) = q
  BY <1>2 DEF first
<1>6. PendingIn(q) = Head(q) \cup PendingIn(Tail(q))
  BY <1>3, <1>4, <1>5
<1> QED
  BY <1>1, <1>6

LEMMA PendingEmpty == PendingIn(<<>>) = {}
  BY DEF PendingIn

\* Visiting m takes it out of the first batch.
LEMMA PendingVisited ==
    ASSUME queue \in Seq(SUBSET Message), queue # <<>>, NEW m
    PROVE  /\ Visited(m) \in Seq(SUBSET Message)
           /\ PendingIn(Visited(m)) \subseteq PendingIn(queue)
           /\ PendingIn(queue) \subseteq PendingIn(Visited(m)) \cup {m}
<1> DEFINE h == Head(queue) \ {m}
           t == Tail(queue)
<1>1. h \in SUBSET Message /\ t \in Seq(SUBSET Message)
      /\ PendingIn(queue) = Head(queue) \cup PendingIn(t)
  BY PendingSplit
<1>2. <<h>> \in Seq(SUBSET Message) /\ PendingIn(<<h>>) = h
  BY <1>1, PendingOne
<1>3. /\ <<h>> \o t \in Seq(SUBSET Message)
      /\ PendingIn(<<h>> \o t) = h \cup PendingIn(t)
  BY <1>1, <1>2, PendingConcat
<1>4. Visited(m) = <<h>> \o t
  BY DEF Visited
<1>5. h \subseteq Head(queue) /\ Head(queue) \subseteq h \cup {m}
  OBVIOUS
<1> HIDE DEF h, t
<1>6. Visited(m) \in Seq(SUBSET Message) /\ PendingIn(Visited(m)) = h \cup PendingIn(t)
  BY <1>3, <1>4
<1> QED
  BY <1>1, <1>5, <1>6

\* The two batches of parents.
LEMMA PendingBatches ==
    ASSUME NEW m, Parents(m) \subseteq Message
    PROVE  /\ Batches(m) \in Seq(SUBSET Message)
           /\ PendingIn(Batches(m)) = Parents(m) \ pushed
<1> DEFINE a == Strong(m) \ pushed
           b == Weak(m) \ (pushed \cup Strong(m))
<1>1. a \in SUBSET Message /\ b \in SUBSET Message /\ a \cup b = Parents(m) \ pushed
  BY DEF Parents
<1>2. Batches(m) = <<a, b>>
  BY DEF Batches
<1> HIDE DEF a, b
<1>3. <<a, b>> \in Seq(SUBSET Message) /\ PendingIn(<<a, b>>) = a \cup b
  BY <1>1, PendingTwo
<1> QED
  BY <1>1, <1>2, <1>3

-----------------------------------------------------------------------------
(* The inductive invariant *)

Waiting == PendingIn(queue)

\* A message becomes solid after its parents.
SolidClosed == PastClosed(solid)

\* A walk runs for a solid validation message, inside its past cone.
WalkInCone ==
    /\ Idle => queue = <<>> /\ pushed = {}
    /\ ~Idle => walker \in solid /\ issued[walker].validation
    /\ Waiting \subseteq pushed
    /\ \A m \in pushed : InCone(m, walker)

\* What the walk has taken from its queue carries the bit of its issuer.
VisitedApproved == pushed \subseteq Waiting \cup {m \in Message : IssuerOf(walker) \in approvers[m]}

\* Bits spread downwards: a parent has those of its child, unless the walk
\* that sets them has not come to it yet.
BitsSpread ==
    \A m \in Message : \A i \in approvers[m] : \A p \in Parents(m) :
        i \in approvers[p] \/ (~Idle /\ i = IssuerOf(walker) /\ p \in pushed)

\* Every bit comes from a validation message above.
BitsJustified ==
    \A m \in Message : \A i \in approvers[m] :
        /\ m \in solid
        /\ \E v \in solid : issued[v].validation /\ IssuerOf(v) = i /\ InCone(m, v)

\* A validation message approves itself, as soon as its walk begins.
ValidationsApprove ==
    \A v \in solid : issued[v].validation =>
        IssuerOf(v) \in approvers[v] \/ (v = walker /\ v \in pushed)

WalkInv ==
    /\ SolidClosed
    /\ WalkInCone
    /\ VisitedApproved
    /\ BitsSpread
    /\ BitsJustified
    /\ ValidationsApprove

\* No verdict twice, and none missed once the weight is there.
VerdictsDecided ==
    /\ confirmed \cap orphaned = {}
    /\ \A m \in confirmed : weight[m] >= Bar
    /\ \A m \in Message : weight[m] >= Bar /\ Bar > 0 => m \in confirmed \cup orphaned

IInv ==
    /\ TypeOK
    /\ WalkInv
    /\ VerdictsDecided
    /\ AttIsNewestConfirmed
    /\ OrphansAreOld

-----------------------------------------------------------------------------
(* The cone *)

LEMMA ParentsAreMessages ==
    ASSUME TypeOK, NEW m \in Message PROVE Parents(m) \subseteq Message
  BY DEF TypeOK, Content, Parents, Strong, Weak

LEMMA GenesisIsNoMessage == Genesis \notin Message
  BY MessageAssumption DEF Genesis

\* Every message is in its own cone.
LEMMA InOwnCone == \A v : InCone(v, v)
  BY DEF InCone

\* A cone holds the parents of its members.
LEMMA ConeClosed ==
    ASSUME NEW m, NEW v, InCone(m, v), NEW p \in Parents(m)
    PROVE  InCone(p, v)
  BY DEF InCone, PastClosed

\* Cones do not change.
LEMMA ConeStays ==
    ASSUME UNCHANGED issued
    PROVE  /\ \A m : Parents(m)' = Parents(m)
           /\ \A m : IssuerOf(m)' = IssuerOf(m)
           /\ \A m, v : InCone(m, v)' <=> InCone(m, v)
           /\ \A S : PastClosed(S)' <=> PastClosed(S)
<1>1. \A m : Parents(m)' = Parents(m) /\ IssuerOf(m)' = IssuerOf(m)
  BY DEF Parents, Strong, Weak, IssuerOf
<1>2. \A S : PastClosed(S)' <=> PastClosed(S)
  BY <1>1 DEF PastClosed
<1> QED
  BY <1>1, <1>2 DEF InCone

\* Between two walks the bits are those of the validation messages above.
LEMMA BitsExact == TypeOK /\ WalkInv => ApproversExact
<1> SUFFICES ASSUME TypeOK, WalkInv, Idle, NEW m \in solid
             PROVE  approvers[m] = {issued[v].issuer : v \in
                        {x \in solid : issued[x].validation /\ InCone(m, x)}}
  BY DEF ApproversExact, Approving
<1> USE DEF WalkInv
<1>1. ASSUME NEW i \in approvers[m]
      PROVE  i \in {issued[v].issuer : v \in
                        {x \in solid : issued[x].validation /\ InCone(m, x)}}
  BY <1>1 DEF BitsJustified, IssuerOf, TypeOK
<1>2. ASSUME NEW v \in solid, issued[v].validation, InCone(m, v)
      PROVE  issued[v].issuer \in approvers[m]
  <2> DEFINE S == {k \in Message : IssuerOf(v) \in approvers[k]}
  <2>1. v \in S
    BY <1>2 DEF ValidationsApprove, WalkInCone, TypeOK
  <2>2. PastClosed(S)
    BY ParentsAreMessages DEF PastClosed, BitsSpread
  <2>3. S \in SUBSET Message
    OBVIOUS
  <2>4. m \in S
    BY <1>2, <2>1, <2>2, <2>3 DEF InCone
  <2> QED
    BY <2>4 DEF IssuerOf
<1> QED
  BY <1>1, <1>2

-----------------------------------------------------------------------------
(* The walk *)

LEMMA StoreKeepsWalk ==
    ASSUME TypeOK, WalkInv, NEW m \in Message, Store(m)
    PROVE  WalkInv'
<1> USE DEF WalkInv, Store
<1>1. UNCHANGED <<issued, solid, approvers, walker, queue, pushed>>
  OBVIOUS
<1>2. Waiting' = Waiting /\ (Idle' <=> Idle)
  BY <1>1 DEF Waiting, PendingIn, Idle
<1>3. SolidClosed' /\ WalkInCone' /\ VisitedApproved'
  BY <1>1, <1>2, ConeStays DEF SolidClosed, WalkInCone, VisitedApproved
<1>4. BitsSpread' /\ BitsJustified' /\ ValidationsApprove'
  BY <1>1, <1>2, ConeStays DEF BitsSpread, BitsJustified, ValidationsApprove
<1> QED
  BY <1>3, <1>4

\* A message that becomes solid starts a walk at itself, or none.
LEMMA BecomeSolidKeepsWalk ==
    ASSUME TypeOK, WalkInv, NEW m \in Message, BecomeSolid(m)
    PROVE  WalkInv'
<1> USE DEF WalkInv, BecomeSolid
<1>0. /\ UNCHANGED <<issued, approvers>> /\ Idle
      /\ solid' = solid \cup {m} /\ Parents(m) \subseteq solid
      /\ queue = <<>> /\ pushed = {} /\ m # Genesis
  BY GenesisIsNoMessage DEF Ready, WalkInCone
<1>1. SolidClosed'
  BY <1>0, ConeStays DEF SolidClosed, PastClosed
<1>2. \A k \in Message : \A i \in approvers[k] : \A p \in Parents(k) : i \in approvers[p]
  BY <1>0 DEF BitsSpread
<1>3. BitsSpread' /\ BitsJustified'
  BY <1>0, <1>2, ConeStays DEF BitsSpread, BitsJustified
<1>4. CASE issued[m].validation
  <2>1. walker' = m /\ queue' = <<{m}>> /\ pushed' = {m} /\ ~Idle'
    BY <1>0, <1>4 DEF Idle
  <2>2. Waiting' = {m}
    BY <2>1, PendingOne DEF Waiting
  <2>3. WalkInCone' /\ VisitedApproved'
    BY <1>0, <1>4, <2>1, <2>2, InOwnCone, ConeStays DEF WalkInCone, VisitedApproved
  <2>4. ValidationsApprove'
    BY <1>0, <2>1, ConeStays DEF ValidationsApprove
  <2> QED
    BY <1>1, <1>3, <2>3, <2>4
<1>5. CASE ~issued[m].validation
  <2>1. UNCHANGED <<walker, queue, pushed>> /\ Idle'
    BY <1>0, <1>5 DEF Idle
  <2>2. Waiting' = {}
    BY <1>0, <2>1, PendingEmpty DEF Waiting
  <2>3. WalkInCone' /\ VisitedApproved'
    BY <1>0, <2>1, <2>2 DEF WalkInCone, VisitedApproved
  <2>4. ValidationsApprove'
    BY <1>0, <1>5, <2>1, ConeStays DEF ValidationsApprove
  <2> QED
    BY <1>1, <1>3, <2>3, <2>4
<1> QED
  BY <1>4, <1>5

\* What both kinds of visits take from the queue.
LEMMA VisitFacts ==
    ASSUME TypeOK, WalkInv, NEW m \in Message, queue # <<>>, m \in Head(queue)
    PROVE  /\ ~Idle /\ m \in pushed /\ m \in solid /\ walker \in solid
           /\ InCone(m, walker) /\ issued[walker].validation
           /\ Parents(m) \subseteq solid
           /\ IssuerOf(walker) \in Peer
<1>1. m \in Waiting
  BY PendingSplit DEF Waiting, TypeOK
<1>2. ~Idle /\ m \in pushed /\ m \in solid /\ InCone(m, walker)
  BY <1>1 DEF WalkInv, WalkInCone, TypeOK
<1>3. walker \in solid /\ issued[walker].validation
  BY <1>2 DEF WalkInv, WalkInCone
<1> QED
  BY <1>2, <1>3 DEF WalkInv, SolidClosed, PastClosed, TypeOK, Content, IssuerOf

LEMMA ApproveKeepsWalk ==
    ASSUME TypeOK, WalkInv, NEW m \in Message, Approve(m)
    PROVE  WalkInv'
<1> USE DEF WalkInv
<1> DEFINE i == IssuerOf(walker)
<1>0. /\ UNCHANGED <<issued, stored, solid, walker>>
      /\ approvers' = [approvers EXCEPT ![m] = @ \cup {i}]
      /\ queue' = Visited(m) \o Batches(m) /\ pushed' = pushed \cup Parents(m)
      /\ queue # <<>> /\ m \in Head(queue)
  BY DEF Approve
<1>1. /\ ~Idle /\ m \in pushed /\ m \in solid /\ walker \in solid
      /\ InCone(m, walker) /\ issued[walker].validation
      /\ Parents(m) \subseteq solid
  BY <1>0, VisitFacts
<1>2. /\ \A k \in Message : approvers'[k] = IF k = m THEN approvers[m] \cup {i} ELSE approvers[k]
      /\ ~Idle'
  BY <1>0, <1>1 DEF TypeOK, Idle
<1>3. /\ Waiting' \subseteq Waiting \cup Parents(m)
      /\ Waiting \subseteq Waiting' \cup {m}
      /\ Parents(m) \subseteq Waiting' \cup pushed
  <2>1. /\ Visited(m) \in Seq(SUBSET Message)
        /\ PendingIn(Visited(m)) \subseteq Waiting
        /\ Waiting \subseteq PendingIn(Visited(m)) \cup {m}
    BY <1>0, PendingVisited DEF TypeOK, Waiting
  <2>2. /\ Batches(m) \in Seq(SUBSET Message)
        /\ PendingIn(Batches(m)) = Parents(m) \ pushed
    BY ParentsAreMessages, PendingBatches
  <2>3. Waiting' = PendingIn(Visited(m)) \cup PendingIn(Batches(m))
    <3>1. Waiting' = PendingIn(queue')
      BY DEF Waiting, PendingIn
    <3> QED
      BY <1>0, <2>1, <2>2, <3>1, PendingConcat
  <2> QED
    BY <2>1, <2>2, <2>3
<1> HIDE DEF i
<1>4. SolidClosed'
  BY <1>0, ConeStays DEF SolidClosed
<1>5. WalkInCone'
  <2>1. \A p \in Parents(m) : InCone(p, walker)
    BY <1>1, ConeClosed
  <2> QED
    BY <1>0, <1>1, <1>2, <1>3, <2>1, ConeStays DEF WalkInCone
<1>6. VisitedApproved'
  <2>1. \A k \in pushed' : k \in Message
    BY <1>0, <1>1 DEF TypeOK
  <2>2. i' = i
    BY <1>0, ConeStays DEF i, IssuerOf
  <2>3. \A k \in pushed' : k \in Waiting' \/ i \in approvers'[k]
    BY <1>0, <1>2, <1>3, <2>1 DEF VisitedApproved, i
  <2> QED
    BY <2>1, <2>2, <2>3 DEF VisitedApproved, i
<1>7. BitsSpread'
  <2> SUFFICES ASSUME NEW k \in Message, NEW j \in approvers'[k], NEW p \in Parents(k)
               PROVE  j \in approvers'[p] \/ (j = i /\ p \in pushed')
    BY <1>0, <1>2, ConeStays DEF BitsSpread, i
  <2>1. p \in Message
    BY ParentsAreMessages
  <2>2. CASE k = m /\ j = i
    BY <1>0, <2>2
  <2>3. CASE j \in approvers[k]
    BY <1>0, <1>2, <2>1, <2>3 DEF BitsSpread, i
  <2> QED
    BY <1>2, <2>2, <2>3
<1>8. BitsJustified'
  <2> SUFFICES ASSUME NEW k \in Message, NEW j \in approvers'[k]
               PROVE  /\ k \in solid
                      /\ \E v \in solid : issued[v].validation /\ IssuerOf(v) = j /\ InCone(k, v)
    BY <1>0, ConeStays DEF BitsJustified
  <2>1. CASE k = m /\ j = i
    BY <1>1, <2>1 DEF i
  <2>2. CASE j \in approvers[k]
    BY <2>2 DEF BitsJustified
  <2> QED
    BY <1>2, <2>1, <2>2
<1>9. ValidationsApprove'
  <2> SUFFICES ASSUME NEW v \in solid, issued[v].validation
               PROVE  IssuerOf(v) \in approvers'[v] \/ (v = walker /\ v \in pushed')
    BY <1>0, ConeStays DEF ValidationsApprove
  <2>1. v \in Message
    BY DEF TypeOK
  <2> QED
    BY <1>0, <1>2, <2>1 DEF ValidationsApprove
<1> QED
  BY <1>4, <1>5, <1>6, <1>7, <1>8, <1>9

\* Steps that only take something from the queue that is not needed there.
LEMMA QueueKeepsWalk ==
    ASSUME TypeOK, WalkInv, ~Idle, UNCHANGED <<issued, solid, approvers, walker, pushed>>,
           Waiting' \subseteq Waiting,
           Waiting \subseteq Waiting' \cup {k \in Message : IssuerOf(walker) \in approvers[k]}
    PROVE  WalkInv'
<1> USE DEF WalkInv
<1>1. ~Idle'
  BY DEF Idle
<1>2. SolidClosed' /\ WalkInCone'
  BY <1>1, ConeStays DEF SolidClosed, WalkInCone
<1>3. VisitedApproved'
  BY ConeStays DEF VisitedApproved
<1>4. BitsSpread' /\ BitsJustified' /\ ValidationsApprove'
  BY <1>1, ConeStays DEF BitsSpread, BitsJustified, ValidationsApprove
<1> QED
  BY <1>2, <1>3, <1>4

LEMMA AlreadyApprovedKeepsWalk ==
    ASSUME TypeOK, WalkInv, NEW m \in Message, AlreadyApproved(m)
    PROVE  WalkInv'
<1>1. /\ queue # <<>> /\ m \in Head(queue) /\ IssuerOf(walker) \in approvers[m]
      /\ queue' = Visited(m)
      /\ UNCHANGED <<issued, solid, approvers, walker, pushed>>
  BY DEF AlreadyApproved
<1>2. ~Idle
  BY <1>1, VisitFacts
<1>3. Waiting' = PendingIn(queue')
  BY DEF Waiting, PendingIn
<1>4. Waiting' \subseteq Waiting /\ Waiting \subseteq Waiting' \cup {m}
  BY <1>1, <1>3, PendingVisited DEF TypeOK, Waiting
<1> QED
  BY <1>1, <1>2, <1>4, QueueKeepsWalk

LEMMA BatchDoneKeepsWalk ==
    ASSUME TypeOK, WalkInv, BatchDone
    PROVE  WalkInv'
<1>1. /\ queue # <<>> /\ Head(queue) = {} /\ queue' = Tail(queue)
      /\ UNCHANGED <<issued, solid, approvers, walker, pushed>>
  BY DEF BatchDone
<1>2. ~Idle
  BY <1>1 DEF WalkInv, WalkInCone
<1>3. Waiting' = PendingIn(queue')
  BY DEF Waiting, PendingIn
<1>4. Waiting' = Waiting
  BY <1>1, <1>3, PendingSplit DEF TypeOK, Waiting
<1> QED
  BY <1>1, <1>2, <1>4, QueueKeepsWalk

LEMMA WalkEndsKeepsWalk ==
    ASSUME TypeOK, WalkInv, WalkEnds
    PROVE  WalkInv'
<1> USE DEF WalkInv
<1>0. /\ ~Idle /\ queue = <<>> /\ queue' = <<>>
      /\ walker' = Genesis /\ pushed' = {} /\ Idle'
      /\ UNCHANGED <<issued, solid, approvers>>
  BY DEF WalkEnds, Idle
<1>1. Waiting = {} /\ Waiting' = {}
  BY <1>0, PendingEmpty DEF Waiting
<1>2. \A k \in pushed : IssuerOf(walker) \in approvers[k]
  BY <1>1 DEF VisitedApproved
<1>3. SolidClosed' /\ WalkInCone' /\ VisitedApproved'
  BY <1>0, <1>1, ConeStays DEF SolidClosed, WalkInCone, VisitedApproved
<1>4. BitsSpread'
  BY <1>0, <1>2, ConeStays DEF BitsSpread
<1>5. BitsJustified' /\ ValidationsApprove'
  BY <1>0, <1>2, ConeStays DEF BitsJustified, ValidationsApprove
<1> QED
  BY <1>3, <1>4, <1>5

-----------------------------------------------------------------------------
(* The verdicts *)

VerdictInv == VerdictsDecided /\ AttIsNewestConfirmed /\ OrphansAreOld

\* The verdict on a message that just reached weight w.
LEMMA AcceptKeeps ==
    ASSUME TypeOK, VerdictInv, NEW m \in solid, NEW w \in Nat, w >= weight[m],
           UNCHANGED issued, weight' = [weight EXCEPT ![m] = w], Accept(m, w)
    PROVE  /\ VerdictInv'
           /\ confirmed' \in SUBSET solid /\ orphaned' \in SUBSET stored /\ att' \in Nat
<1> USE AgeAssumption, WeightAssumption DEF VerdictInv
<1>0. /\ m \in Message /\ m \in stored /\ issued[m].time \in Nat
      /\ \A k \in Message : weight'[k] = IF k = m THEN w ELSE weight[k]
      /\ \A k \in Message : weight[k] \in Nat
  BY DEF TypeOK, Content
<1>1. CASE w < Bar \/ m \in confirmed \cup orphaned
  <2>1. UNCHANGED <<confirmed, orphaned, att>>
    BY <1>1 DEF Accept, AddToAcceptedSlot
  <2>2. VerdictsDecided'
    BY <1>0, <1>1, <2>1 DEF VerdictsDecided, TypeOK
  <2> QED
    BY <2>1, <2>2 DEF AttIsNewestConfirmed, OrphansAreOld, TypeOK
<1>2. CASE w >= Bar /\ m \notin confirmed \cup orphaned /\ TooOld(m)
  <2>1. orphaned' = orphaned \cup {m} /\ UNCHANGED <<confirmed, att>>
    BY <1>0, <1>2 DEF Accept, AddToAcceptedSlot
  <2>2. VerdictsDecided'
    BY <1>0, <1>2, <2>1 DEF VerdictsDecided, TypeOK
  <2>3. issued[m].time < att - MinCommittableAge /\ att # 0
    BY <1>0, <1>2 DEF TooOld, TypeOK
  <2>4. PICK k \in confirmed : issued[k].time = att
    BY <2>3 DEF AttIsNewestConfirmed
  <2>5. OrphansAreOld'
    BY <2>1, <2>3, <2>4 DEF OrphansAreOld
  <2> QED
    BY <1>0, <2>1, <2>2, <2>5 DEF AttIsNewestConfirmed, TypeOK
<1>3. CASE w >= Bar /\ m \notin confirmed \cup orphaned /\ ~TooOld(m)
  <2>1. /\ confirmed' = confirmed \cup {m} /\ UNCHANGED orphaned
        /\ att' = IF issued[m].time > att THEN issued[m].time ELSE att
    BY <1>0, <1>3 DEF Accept, AddToAcceptedSlot
  <2>2. VerdictsDecided'
    BY <1>0, <1>3, <2>1 DEF VerdictsDecided, TypeOK
  <2>3. /\ \A k \in confirmed : issued[k].time \in Nat
        /\ att \in Nat /\ att' \in Nat /\ att <= att' /\ issued[m].time <= att'
    BY <1>0, <2>1 DEF TypeOK, Content
  <2>4. AttIsNewestConfirmed'
    <3>1. \A k \in confirmed' : issued[k].time <= att'
      BY <2>1, <2>3 DEF AttIsNewestConfirmed
    <3>2. att' # 0 => \E k \in confirmed' : issued[k].time = att'
      BY <2>1, <2>3 DEF AttIsNewestConfirmed
    <3> QED
      BY <3>1, <3>2 DEF AttIsNewestConfirmed
  <2>5. OrphansAreOld'
    BY <2>1 DEF OrphansAreOld
  <2> QED
    BY <1>0, <2>1, <2>2, <2>3, <2>4, <2>5 DEF TypeOK
<1> QED
  BY <1>0, <1>1, <1>2, <1>3

LEMMA WeightGrows ==
    ASSUME TypeOK, WalkInv, NEW m \in Message, Approve(m)
    PROVE  /\ weight[m] + Weight[IssuerOf(walker)] \in Nat
           /\ weight[m] + Weight[IssuerOf(walker)] >= weight[m]
           /\ weight' = [weight EXCEPT ![m] = weight[m] + Weight[IssuerOf(walker)]]
           /\ weight'[m] = weight[m] + Weight[IssuerOf(walker)]
<1>1. IssuerOf(walker) \in Peer
  BY VisitFacts DEF Approve
<1> QED
  BY <1>1, WeightAssumption DEF Approve, TypeOK

\* Steps that leave the verdicts alone.
LEMMA VerdictsStay ==
    ASSUME VerdictInv, UNCHANGED <<issued, weight, confirmed, orphaned, att>>
    PROVE  VerdictInv'
  BY DEF VerdictInv, VerdictsDecided, AttIsNewestConfirmed, OrphansAreOld

\* A message that arrives too late is orphaned.
LEMMA StoreKeepsVerdicts ==
    ASSUME TypeOK, VerdictInv, NEW m \in Message, Store(m)
    PROVE  VerdictInv'
<1> USE AgeAssumption DEF VerdictInv
<1>1. /\ UNCHANGED <<issued, weight, confirmed, att>>
      /\ orphaned' = IF TooOld(m) THEN orphaned \cup {m} ELSE orphaned
      /\ m \notin confirmed
      /\ issued[m].time \in Nat
  BY DEF Store, TypeOK, Content
<1>2. VerdictsDecided' /\ AttIsNewestConfirmed'
  BY <1>1 DEF VerdictsDecided, AttIsNewestConfirmed
<1>3. OrphansAreOld'
  <2>1. CASE TooOld(m)
    <3>1. issued[m].time < att - MinCommittableAge /\ att # 0
      BY <1>1, <2>1 DEF TooOld, TypeOK
    <3>2. PICK k \in confirmed : issued[k].time = att
      BY <3>1 DEF AttIsNewestConfirmed
    <3> QED
      BY <1>1, <3>1, <3>2 DEF OrphansAreOld
  <2>2. CASE ~TooOld(m)
    BY <1>1, <2>2 DEF OrphansAreOld
  <2> QED
    BY <2>1, <2>2
<1> QED
  BY <1>2, <1>3

-----------------------------------------------------------------------------
(* Every step *)

LEMMA InitIInv == Init => IInv
<1> SUFFICES ASSUME Init PROVE IInv
  OBVIOUS
<1>1. TypeOK
  <2>1. issued \in [Message -> Content]
    BY UniverseAssumption DEF Init
  <2>2. approvers \in [Message -> SUBSET Peer] /\ weight \in [Message -> Nat]
    BY DEF Init
  <2>3. queue \in Seq(SUBSET Message)
    BY DEF Init
  <2> QED
    BY <2>1, <2>2, <2>3 DEF Init, TypeOK
<1>2. Waiting = {}
  BY PendingEmpty DEF Waiting, Init
<1>3. SolidClosed /\ WalkInCone /\ VisitedApproved
  BY <1>2 DEF Init, SolidClosed, PastClosed, WalkInCone, VisitedApproved, Idle
<1>4. BitsSpread /\ BitsJustified /\ ValidationsApprove
  BY DEF Init, BitsSpread, BitsJustified, ValidationsApprove
<1>5. VerdictsDecided
  BY WeightAssumption DEF Init, VerdictsDecided
<1>6. AttIsNewestConfirmed /\ OrphansAreOld
  BY DEF Init, AttIsNewestConfirmed, OrphansAreOld
<1> QED
  BY <1>1, <1>3, <1>4, <1>5, <1>6 DEF IInv, WalkInv

\* The queue after a visit.
LEMMA QueueType ==
    ASSUME TypeOK, NEW m \in Message, queue # <<>>
    PROVE  /\ Visited(m) \in Seq(SUBSET Message)
           /\ Visited(m) \o Batches(m) \in Seq(SUBSET Message)
           /\ Tail(queue) \in Seq(SUBSET Message)
<1>1. Visited(m) \in Seq(SUBSET Message)
  BY PendingVisited DEF TypeOK
<1>2. Batches(m) \in Seq(SUBSET Message)
  BY ParentsAreMessages, PendingBatches
<1> QED
  BY <1>1, <1>2, PendingConcat, PendingSplit DEF TypeOK

LEMMA StepIInv == IInv /\ [Next]_vars => IInv'
<1> SUFFICES ASSUME IInv, [Next]_vars PROVE IInv'
  OBVIOUS
<1>0. TypeOK /\ WalkInv /\ VerdictInv
  BY DEF IInv, VerdictInv
<1> SUFFICES TypeOK' /\ WalkInv' /\ VerdictInv'
  BY DEF IInv, VerdictInv
<1>1. ASSUME NEW m \in Message, Store(m) PROVE TypeOK' /\ WalkInv' /\ VerdictInv'
  <2>1. TypeOK'
    BY <1>0, <1>1 DEF TypeOK, Store
  <2> QED
    BY <1>0, <1>1, <2>1, StoreKeepsWalk, StoreKeepsVerdicts
<1>2. ASSUME NEW m \in Message, BecomeSolid(m) PROVE TypeOK' /\ WalkInv' /\ VerdictInv'
  <2>1. queue' \in Seq(SUBSET Message)
    BY <1>0, <1>2, PendingOne DEF TypeOK, BecomeSolid
  <2>2. TypeOK'
    BY <1>0, <1>2, <2>1 DEF TypeOK, BecomeSolid, Ready
  <2>3. VerdictInv'
    BY <1>0, <1>2, VerdictsStay DEF BecomeSolid
  <2> QED
    BY <1>0, <1>2, <2>2, <2>3, BecomeSolidKeepsWalk
<1>3. ASSUME NEW m \in Message, Approve(m) PROVE TypeOK' /\ WalkInv' /\ VerdictInv'
  <2>1. /\ queue # <<>> /\ m \in Head(queue)
        /\ Accept(m, weight'[m])
        /\ UNCHANGED <<issued, stored, solid, walker>>
        /\ approvers' = [approvers EXCEPT ![m] = @ \cup {IssuerOf(walker)}]
        /\ queue' = Visited(m) \o Batches(m) /\ pushed' = pushed \cup Parents(m)
    BY <1>3 DEF Approve
  <2>2. m \in solid /\ Parents(m) \subseteq solid /\ IssuerOf(walker) \in Peer
    BY <1>0, <2>1, VisitFacts
  <2> DEFINE w == weight[m] + Weight[IssuerOf(walker)]
  <2>3. w \in Nat /\ w >= weight[m] /\ weight' = [weight EXCEPT ![m] = w] /\ weight'[m] = w
    BY <1>0, <1>3, WeightGrows
  <2> HIDE DEF w
  <2>4. /\ VerdictInv'
        /\ confirmed' \in SUBSET solid /\ orphaned' \in SUBSET stored /\ att' \in Nat
    BY <1>0, <2>1, <2>2, <2>3, AcceptKeeps
  <2>5. queue' \in Seq(SUBSET Message)
    BY <1>0, <2>1, QueueType
  <2>6. weight' \in [Message -> Nat] /\ approvers' \in [Message -> SUBSET Peer]
    BY <1>0, <2>1, <2>2, <2>3 DEF TypeOK
  <2>7. pushed' \in SUBSET solid
    BY <1>0, <2>1, <2>2 DEF TypeOK
  <2>8. TypeOK'
    BY <1>0, <2>1, <2>4, <2>5, <2>6, <2>7 DEF TypeOK
  <2> QED
    BY <1>0, <1>3, <2>4, <2>8, ApproveKeepsWalk
<1>4. ASSUME NEW m \in Message, AlreadyApproved(m) PROVE TypeOK' /\ WalkInv' /\ VerdictInv'
  <2>1. TypeOK'
    BY <1>0, <1>4, QueueType DEF TypeOK, AlreadyApproved
  <2>2. VerdictInv'
    BY <1>0, <1>4, VerdictsStay DEF AlreadyApproved
  <2> QED
    BY <1>0, <1>4, <2>1, <2>2, AlreadyApprovedKeepsWalk
<1>5. CASE BatchDone
  <2>1. Tail(queue) \in Seq(SUBSET Message)
    BY <1>0, <1>5, PendingSplit DEF TypeOK, BatchDone
  <2>2. TypeOK'
    BY <1>0, <1>5, <2>1 DEF TypeOK, BatchDone
  <2>3. VerdictInv'
    BY <1>0, <1>5, VerdictsStay DEF BatchDone
  <2> QED
    BY <1>0, <1>5, <2>2, <2>3, BatchDoneKeepsWalk
<1>6. CASE WalkEnds
  <2>1. TypeOK'
    BY <1>0, <1>6 DEF TypeOK, WalkEnds
  <2>2. VerdictInv'
    BY <1>0, <1>6, VerdictsStay DEF WalkEnds
  <2> QED
    BY <1>0, <1>6, <2>1, <2>2, WalkEndsKeepsWalk
<1>7. CASE UNCHANGED vars
  <2>1. TypeOK'
    BY <1>0, <1>7 DEF TypeOK, vars
  <2>2. VerdictInv'
    BY <1>0, <1>7, VerdictsStay DEF vars
  <2>3. WalkInv'
    BY <1>0, <1>7, ConeStays DEF vars, WalkInv, SolidClosed, WalkInCone, VisitedApproved,
       BitsSpread, BitsJustified, ValidationsApprove, Idle, Waiting, PendingIn
  <2> QED
    BY <2>1, <2>2, <2>3
<1> QED
  BY <1>1, <1>2, <1>3, <1>4, <1>5, <1>6, <1>7 DEF Next

LEMMA Invariance == Spec => []IInv
  BY InitIInv, StepIInv, PTL DEF Spec

-----------------------------------------------------------------------------
(* The weights *)

\* At every moment the weight of a message is that of the peers whose bit it has.
WeightOfBits == \A m \in Message : weight[m] = Total(Weight, approvers[m])

\* A visited message with enough weight has its verdict, also when the threshold
\* is zero, and only visited messages are confirmed.
VisitedJudged ==
    \A m \in Message :
        /\ approvers[m] # {} /\ weight[m] >= Bar => m \in confirmed \cup orphaned
        /\ m \in confirmed => approvers[m] # {}

WeightInv == IInv /\ WeightOfBits /\ VisitedJudged

LEMMA InitWeightInv == Init => WeightInv
<1> SUFFICES ASSUME Init PROVE WeightOfBits /\ VisitedJudged
  BY InitIInv DEF WeightInv
<1>1. ASSUME NEW m \in Message PROVE weight[m] = Total(Weight, approvers[m])
  <2>1. approvers[m] = {} /\ weight[m] = 0
    BY DEF Init
  <2>2. Total(Weight, approvers[m]) = Total(Weight, {})
    BY <2>1, Zenon
  <2> QED
    BY <2>1, <2>2, SumEmpty
<1> QED
  BY <1>1 DEF Init, WeightOfBits, VisitedJudged

LEMMA ApproveKeepsWeights ==
    ASSUME WeightInv, NEW m \in Message, Approve(m)
    PROVE  WeightOfBits' /\ VisitedJudged'
<1> DEFINE i == IssuerOf(walker)
           A == approvers[m]
           w == weight[m] + Weight[i]
<1>0. TypeOK /\ WalkInv
  BY DEF WeightInv, IInv
<1>1. /\ i \notin A /\ approvers' = [approvers EXCEPT ![m] = @ \cup {i}]
      /\ queue # <<>> /\ m \in Head(queue) /\ Accept(m, weight'[m])
  BY DEF Approve
<1>2. i \in Peer /\ A \in SUBSET Peer
  BY <1>0, <1>1, VisitFacts DEF TypeOK
<1>3. w \in Nat /\ weight' = [weight EXCEPT ![m] = w] /\ weight'[m] = w
  BY <1>0, WeightGrows
<1>4. \A k \in Message : /\ weight'[k] = IF k = m THEN w ELSE weight[k]
                        /\ approvers'[k] = IF k = m THEN A \cup {i} ELSE approvers[k]
  BY <1>0, <1>1, <1>3 DEF TypeOK
<1>5. Total(Weight, A \cup {i}) = Total(Weight, A) + Weight[i]
  <2>1. IsFiniteSet(A) /\ \A p \in A \cup {i} : Weight[p] \in Int
    BY <1>2, WeightAssumption, FS_Subset
  <2> HIDE DEF A, i
  <2> QED
    BY <1>1, <2>1, SumAdd
<1> HIDE DEF A, i
<1>6. weight[m] = Total(Weight, A)
  BY DEF WeightInv, WeightOfBits, A
<1>7. w = Total(Weight, A \cup {i})
  BY <1>5, <1>6
<1> HIDE DEF w
<1>8. WeightOfBits'
  <2> SUFFICES ASSUME NEW k \in Message
               PROVE  weight'[k] = Total(Weight, approvers'[k])
    BY DEF WeightOfBits
  <2>1. CASE k = m
    <3>1. approvers'[k] = A \cup {i} /\ weight'[k] = w
      BY <1>4, <2>1
    <3> QED
      BY <1>7, <3>1, Zenon
  <2>2. CASE k # m
    <3>1. approvers'[k] = approvers[k] /\ weight'[k] = weight[k]
      BY <1>4, <2>2
    <3>2. weight[k] = Total(Weight, approvers[k])
      BY DEF WeightInv, WeightOfBits
    <3> QED
      BY <3>1, <3>2, Zenon
  <2> QED
    BY <2>1, <2>2
<1>9. /\ confirmed \subseteq confirmed' /\ confirmed' \subseteq confirmed \cup {m}
      /\ orphaned \subseteq orphaned'
      /\ w >= Bar => m \in confirmed' \cup orphaned'
  BY <1>1, <1>3, WeightAssumption DEF Accept
<1>10. VisitedJudged'
  <2> SUFFICES ASSUME NEW k \in Message
               PROVE  /\ approvers'[k] # {} /\ weight'[k] >= Bar => k \in confirmed' \cup orphaned'
                      /\ k \in confirmed' => approvers'[k] # {}
    BY DEF VisitedJudged
  <2>1. CASE k = m
    BY <1>4, <1>9, <2>1
  <2>2. CASE k # m
    BY <1>4, <1>9, <2>2 DEF WeightInv, VisitedJudged
  <2> QED
    BY <2>1, <2>2
<1> QED
  BY <1>8, <1>10

LEMMA StepWeightInv == WeightInv /\ [Next]_vars => WeightInv'
<1> SUFFICES ASSUME WeightInv, [Next]_vars PROVE WeightOfBits' /\ VisitedJudged'
  BY StepIInv DEF WeightInv
<1>1. ASSUME UNCHANGED <<approvers, weight, confirmed>>, orphaned \subseteq orphaned'
      PROVE  WeightOfBits' /\ VisitedJudged'
  BY <1>1 DEF WeightInv, WeightOfBits, VisitedJudged
<1>2. ASSUME NEW m \in Message, Store(m) PROVE WeightOfBits' /\ VisitedJudged'
  BY <1>1, <1>2 DEF Store
<1> QED
  BY <1>1, <1>2, ApproveKeepsWeights
     DEF Next, BecomeSolid, AlreadyApproved, BatchDone, WalkEnds, vars

LEMMA WeightInvariance == Spec => []WeightInv
  BY InitWeightInv, StepWeightInv, PTL DEF Spec

LEMMA WeightIsOfApprovers == WeightInv => WeightOfApprovers
<1> SUFFICES ASSUME WeightInv, Idle, NEW m \in solid
             PROVE  weight[m] = Total(Weight, Approving(m))
  BY DEF WeightOfApprovers, Total
<1>1. approvers[m] = Approving(m)
  BY BitsExact DEF WeightInv, IInv, ApproversExact
<1>2. weight[m] = Total(Weight, approvers[m])
  BY DEF WeightInv, IInv, TypeOK, WeightOfBits
<1> QED
  BY <1>1, <1>2, Zenon

\* A parent has at least the approvers of its child, hence at least its weight.
LEMMA ParentsAsHeavy ==
    ASSUME WeightInv, Idle, NEW m \in Message, NEW p \in Parents(m)
    PROVE  p \in Message /\ approvers[m] \subseteq approvers[p] /\ weight[p] >= weight[m]
<1>0. p \in Message /\ TypeOK
  BY ParentsAreMessages DEF WeightInv, IInv
<1>1. approvers[m] \subseteq approvers[p]
  BY DEF WeightInv, IInv, WalkInv, BitsSpread
<1>2. approvers[p] \in SUBSET Peer
  BY <1>0 DEF TypeOK
<1>3. IsFiniteSet(approvers[p])
  BY <1>2, WeightAssumption, FS_Subset
<1>4. Total(Weight, approvers[m]) <= Total(Weight, approvers[p])
  <2>1. \A q \in approvers[p] : Weight[q] \in Nat
    BY <1>2, WeightAssumption
  <2> QED
    BY <1>1, <1>3, <2>1, SumSubset
<1>5. weight[m] = Total(Weight, approvers[m]) /\ weight[p] = Total(Weight, approvers[p])
  BY <1>0 DEF WeightInv, WeightOfBits
<1>6. weight[m] \in Nat /\ weight[p] \in Nat
  BY <1>0 DEF TypeOK
<1> QED
  BY <1>0, <1>1, <1>4, <1>5, <1>6

LEMMA RestsOnDecided == WeightInv => ConfirmedRestsOnDecided
<1> SUFFICES ASSUME WeightInv, Idle, NEW m \in confirmed, NEW p \in Parents(m)
             PROVE  p \in confirmed \cup orphaned
  BY DEF ConfirmedRestsOnDecided
<1>1. m \in Message /\ weight[m] \in Nat /\ weight[m] >= Bar
  BY DEF WeightInv, IInv, TypeOK, VerdictsDecided
<1>2. p \in Message /\ approvers[m] \subseteq approvers[p] /\ weight[p] >= weight[m]
  BY <1>1, ParentsAsHeavy
<1>3. approvers[p] # {} /\ weight[p] \in Nat
  BY <1>1, <1>2 DEF WeightInv, VisitedJudged, IInv, TypeOK
<1>4. weight[p] >= Bar
  BY <1>1, <1>2, <1>3, WeightAssumption
<1> QED
  BY <1>2, <1>3, <1>4 DEF WeightInv, VisitedJudged

-----------------------------------------------------------------------------
\* The state keeps its shape; in particular a walk never meets a message that
\* is not solid, whose metadata might be missing.
THEOREM TypeCorrect == Spec => []TypeOK
<1>1. IInv => TypeOK
  BY DEF IInv
<1> QED
  BY <1>1, Invariance, PTL

\* Between two messages a message carries the bits of exactly the issuers of
\* the solid validation messages whose past cone it lies in.
THEOREM ApprovalExact == Spec => []ApproversExact
<1>1. IInv => ApproversExact
  BY BitsExact DEF IInv
<1> QED
  BY <1>1, Invariance, PTL

\* A message is confirmed or orphaned, never both, as soon as its weight
\* reaches the threshold.
THEOREM VerdictReached == Spec => []Decided
<1>1. IInv => Decided
  BY DEF IInv, VerdictsDecided, Decided, TypeOK
<1> QED
  BY <1>1, Invariance, PTL

\* The accepted tangle time is the time of the newest confirmed message.
THEOREM AttExact == Spec => []AttIsNewestConfirmed
<1>1. IInv => AttIsNewestConfirmed
  BY DEF IInv
<1> QED
  BY <1>1, Invariance, PTL

\* No message is orphaned unless something sufficiently newer is confirmed.
THEOREM OrphansJustified == Spec => []OrphansAreOld
<1>1. IInv => OrphansAreOld
  BY DEF IInv
<1> QED
  BY <1>1, Invariance, PTL

\* Between two messages a message carries the weight of exactly the issuers of
\* the solid validation messages above it, each counted once.
THEOREM WeightExact == Spec => []WeightOfApprovers
  BY WeightInvariance, WeightIsOfApprovers, PTL

\* Between two messages, everything a confirmed message refers to is confirmed
\* or orphaned, for any weights and thresholds.
THEOREM ParentsDecided == Spec => []ConfirmedRestsOnDecided
  BY WeightInvariance, RestsOnDecided, PTL

-----------------------------------------------------------------------------
(* The edges of a network that is set up *)

\* The image of a finite set under a function that is one to one on it.
LEMMA ImageSize ==
    ASSUME NEW S, IsFiniteSet(S), NEW f, \A x, y \in S : f[x] = f[y] => x = y
    PROVE  /\ IsFiniteSet({f[x] : x \in S})
           /\ Cardinality({f[x] : x \in S}) = Cardinality(S)
<1> DEFINE T == {f[x] : x \in S}
           g == [x \in S |-> f[x]]
<1>1. g \in Bijection(S, T)
  BY DEF Bijection, Injection, Surjection, IsInjective
<1> HIDE DEF g, T
<1>2. ExistsBijection(S, T)
  BY <1>1 DEF ExistsBijection
<1>3. IsFiniteSet(T) /\ Cardinality(T) = Cardinality(S)
  BY <1>2, FS_Bijection
<1> QED
  BY <1>3 DEF T

\* A graph of the nodes 0 .. N - 1 in which every one has k heads, no node
\* itself and no two nodes each other.
Simple(g, N, k) ==
    /\ g \in [0 .. N - 1 -> SUBSET (0 .. N - 1)]
    /\ \A n \in 0 .. N - 1 :
           /\ IsFiniteSet(g[n]) /\ Cardinality(g[n]) = k /\ n \notin g[n]
           /\ \A h \in g[n] : n \notin g[h]

EdgesOf(g, S) == UNION {{{n, h} : h \in g[n]} : n \in S}

\* Such a graph has N * k edges.
LEMMA EdgeCount ==
    ASSUME NEW N \in Nat, NEW k \in Nat, NEW g, Simple(g, N, k)
    PROVE  Cardinality(EdgesOf(g, 0 .. N - 1)) = N * k
<1>0. \A n \in 0 .. N - 1 :
       /\ IsFiniteSet(g[n]) /\ Cardinality(g[n]) = k /\ n \notin g[n]
       /\ \A h \in g[n] : n \notin g[h]
  BY DEF Simple
<1> DEFINE U(m) == UNION {{{n, h} : h \in g[n]} : n \in 0 .. m - 1}
           G == {m \in 0 .. N : IsFiniteSet(U(m)) /\ Cardinality(U(m)) = m * k}
<1>1. 0 \in G
  <2>1. U(0) = {}
    OBVIOUS
  <2>2. 0 * k = 0 /\ 0 \in 0 .. N
    OBVIOUS
  <2> HIDE DEF U
  <2> QED
    BY <2>1, <2>2, FS_EmptySet
<1>2. ASSUME NEW m \in 0 .. N, m \in G, m < N
      PROVE  m + 1 \in G
  <2> DEFINE E == {{m, h} : h \in g[m]}
             f == [h \in g[m] |-> {m, h}]
  <2>1. m \in 0 .. N - 1 /\ m + 1 \in 0 .. N
    BY <1>2
  <2>2. IsFiniteSet(g[m]) /\ Cardinality(g[m]) = k /\ m \notin g[m]
    BY <1>0, <2>1
  <2>3. IsFiniteSet(E) /\ Cardinality(E) = k
    <3>1. \A x, y \in g[m] : f[x] = f[y] => x = y
      BY <2>2
    <3>2. E = {f[h] : h \in g[m]}
      OBVIOUS
    <3> HIDE DEF f, E
    <3> QED
      BY <2>2, <3>1, <3>2, ImageSize
  <2>4. U(m + 1) = U(m) \cup E
    <3>1. 0 .. (m + 1) - 1 = (0 .. m - 1) \cup {m}
      OBVIOUS
    <3> QED
      BY <3>1
  <2>5. U(m) \cap E = {}
    <3> SUFFICES ASSUME NEW e, e \in U(m), e \in E PROVE FALSE
      OBVIOUS
    <3>1. PICK h \in g[m] : e = {m, h}
      OBVIOUS
    <3>2. PICK n \in 0 .. m - 1 : \E i \in g[n] : e = {n, i}
      OBVIOUS
    <3>22. PICK i \in g[n] : e = {n, i}
      BY <3>2
    <3>3. n # m /\ n \in 0 .. N - 1
      BY <2>1
    <3>4. n = h /\ i = m
      BY <3>1, <3>22, <3>3
    <3> QED
      BY <1>0, <2>1, <3>3, <3>4
  <2> HIDE DEF E, U
  <2>6. /\ IsFiniteSet(U(m) \cup E)
        /\ Cardinality(U(m) \cup E) = Cardinality(U(m)) + Cardinality(E)
    <3>1. IsFiniteSet(U(m)) /\ Cardinality(U(m)) = m * k
      BY <1>2
    <3>2. Cardinality(U(m) \cap E) = 0
      BY <2>5, FS_EmptySet
    <3>3. Cardinality(U(m)) \in Nat /\ Cardinality(E) \in Nat
      BY <2>3, <3>1, FS_CardinalityType
    <3>4. /\ IsFiniteSet(U(m) \cup E)
          /\ Cardinality(U(m) \cup E) = Cardinality(U(m)) + Cardinality(E) - Cardinality(U(m) \cap E)
      BY <2>3, <3>1, FS_Union
    <3> QED
      BY <3>2, <3>3, <3>4
  <2>7. m * k + k = (m + 1) * k
    OBVIOUS
  <2> QED
    BY <1>2, <2>1, <2>3, <2>4, <2>6, <2>7
<1> HIDE DEF G
<1>3. N \in G
  <2>1. 0 .. N \subseteq G
    BY <1>1, <1>2, NumberInduction
  <2> QED
    BY <2>1
<1>4. Cardinality(U(N)) = N * k
  BY <1>3 DEF G
<1> QED
  BY <1>4 DEF EdgesOf

\* What a configuration promises.
LEMMA ConfigFacts ==
    ASSUME config \in Configs
    PROVE  /\ config.nodes \in Nat \ {0} /\ config.halfDegree \in Nat \ {0}
           /\ 2 * config.halfDegree < config.nodes
           /\ IsFiniteSet(Node) /\ Cardinality(Node) = config.nodes /\ None \notin Node
<1>1. /\ config.nodes \in Nat \ {0} /\ config.halfDegree \in Nat \ {0}
      /\ 2 * config.halfDegree < config.nodes
  BY ConfigsAssumption
<1>2. /\ IsFiniteSet(0 .. config.nodes - 1)
      /\ Cardinality(0 .. config.nodes - 1) = IF 0 > config.nodes - 1 THEN 0 ELSE config.nodes - 1 - 0 + 1
  <2>1. config.nodes - 1 \in Int
    BY <1>1
  <2> QED
    BY <2>1, FS_Interval
<1>3. None \notin Node
  BY <1>1 DEF Node, None
<1> QED
  BY <1>1, <1>2, <1>3 DEF Node

\* The heads a node gets first: the halfDegree nodes after it on the ring.
LEMMA After ==
    ASSUME NEW N \in Nat, NEW k \in Nat, 2 * k < N, NEW n \in 0 .. N - 1,
           NEW j \in 1 .. k
    PROVE  (n + j) % N = IF n + j < N THEN n + j ELSE n + j - N
<1>1. n + j \in Nat /\ n + j < 2 * N
  OBVIOUS
<1>2. CASE n + j < N
  BY <1>1, <1>2
<1>3. CASE n + j >= N
  <2>1. (n + j) - N \in 0 .. N - 1
    BY <1>1, <1>3
  <2>2. (n + j) % N = (n + j) - N
    BY <2>1
  <2> QED
    BY <1>3, <2>2
<1> QED
  BY <1>1, <1>2, <1>3

RingOf(N, k) == [n \in 0 .. N - 1 |-> {(n + j) % N : j \in 1 .. k}]

LEMMA Ring ==
    ASSUME NEW N \in Nat, NEW k \in Nat, 2 * k < N
    PROVE  Simple(RingOf(N, k), N, k)
<1> DEFINE g == [n \in 0 .. N - 1 |-> {(n + j) % N : j \in 1 .. k}]
<1>1. \A n \in 0 .. N - 1, j \in 1 .. k :
         (n + j) % N = IF n + j < N THEN n + j ELSE (n + j) - N
  BY After
<1>2. \A n \in 0 .. N - 1 : g[n] \subseteq 0 .. N - 1
  BY <1>1
<1>3. ASSUME NEW n \in 0 .. N - 1
      PROVE  IsFiniteSet(g[n]) /\ Cardinality(g[n]) = k
  <2> DEFINE f == [j \in 1 .. k |-> (n + j) % N]
             S == 1 .. k
  <2>1. \A x, y \in S : f[x] = f[y] => x = y
    <3>1. \A x \in S : f[x] = IF n + x < N THEN n + x ELSE (n + x) - N
      BY <1>1
    <3> HIDE DEF f
    <3> QED
      BY <3>1
  <2>2. g[n] = {f[j] : j \in S}
    OBVIOUS
  <2>3. IsFiniteSet(S) /\ Cardinality(S) = k
    BY FS_Interval
  <2> HIDE DEF f, S
  <2>4. IsFiniteSet({f[j] : j \in S}) /\ Cardinality({f[j] : j \in S}) = Cardinality(S)
    BY <2>1, <2>3, ImageSize
  <2> QED
    BY <2>2, <2>3, <2>4
<1>4. \A n \in 0 .. N - 1 : \A h \in g[n] :
         \E j \in 1 .. k : h = IF n + j < N THEN n + j ELSE (n + j) - N
  BY <1>1
<1>5. \A n \in 0 .. N - 1 : n \notin g[n]
  BY <1>4
<1>6. ASSUME NEW n \in 0 .. N - 1, NEW h \in g[n], n \in g[h] PROVE FALSE
  <2>1. h \in 0 .. N - 1
    BY <1>2
  <2>2. PICK j \in 1 .. k : h = IF n + j < N THEN n + j ELSE (n + j) - N
    BY <1>4
  <2>3. PICK i \in 1 .. k : n = IF h + i < N THEN h + i ELSE (h + i) - N
    BY <1>4, <1>6, <2>1
  <2> QED
    BY <2>2, <2>3
<1>7. g \in [0 .. N - 1 -> SUBSET (0 .. N - 1)]
  BY <1>2
<1>8. g = RingOf(N, k)
  BY DEF RingOf
<1> HIDE DEF g
<1>9. Simple(g, N, k)
  BY <1>3, <1>5, <1>6, <1>7 DEF Simple
<1> QED
  BY <1>8, <1>9

-----------------------------------------------------------------------------
(* The graph of the network *)

Wired == phase \in {"rewire", "spend", "draw", "done"}

\* Each node keeps as many heads as it got, none is itself, and no two nodes
\* are heads of each other.
GraphRight ==
    /\ graph \in [Node -> SUBSET Node]
    /\ Wired => \A n \in Node :
           /\ IsFiniteSet(graph[n]) /\ Cardinality(graph[n]) = config.halfDegree
           /\ n \notin graph[n]
           /\ \A h \in graph[n] : n \notin graph[h]

\* The loops of WattsStrogatz visit edges that the graph has.
LoopsRight ==
    /\ tails \subseteq Node
    /\ edges # {} => phase = "rewire" /\ tail \in Node /\ edges \subseteq graph[tail]
    /\ head # None => head \in edges

NeighborsRight ==
    phase \in {"spend", "draw", "done"} =>
        neighbors = [p \in Node |-> IF config.peeringAll /\ p \in DOMAIN groupOf
                                    THEN Node ELSE Joined(p)]

GraphInv == config \in Configs /\ GraphRight /\ LoopsRight /\ NeighborsRight

LEMMA InitGraph == SetupInit => GraphInv
<1> SUFFICES ASSUME SetupInit PROVE GraphInv
  OBVIOUS
<1> QED
  BY DEF SetupInit, GraphInv, GraphRight, LoopsRight, NeighborsRight, Wired

\* Steps that neither change the graph nor come to another loop.
LEMMA GraphStays ==
    ASSUME GraphInv, UNCHANGED <<config, groupOf, wiring, neighbors>>,
           phase' = phase \/ (phase # "rewire" /\ (Wired' => Wired)),
           phase \notin {"spend", "draw", "done"} => phase' \notin {"spend", "draw", "done"}
    PROVE  GraphInv'
<1>1. Node' = Node /\ \A p : Joined(p)' = Joined(p)
  BY DEF Node, wiring, Joined
<1>2. GraphRight'
  BY <1>1 DEF GraphInv, GraphRight, Wired, wiring
<1>3. LoopsRight'
  BY <1>1 DEF GraphInv, LoopsRight, wiring
<1>4. NeighborsRight'
  BY <1>1 DEF GraphInv, NeighborsRight
<1> QED
  BY <1>2, <1>3, <1>4 DEF GraphInv

\* Rewiring an edge.
LEMMA RewireKeepsGraph ==
    ASSUME GraphInv, NEW n \in Node, NEW again \in BOOLEAN, Rewire(n, again)
    PROVE  GraphInv'
<1>1. /\ head # None /\ n # tail /\ tail \notin graph[n] /\ n \notin graph[tail]
      /\ graph' = [graph EXCEPT ![tail] = (@ \ {head}) \cup {n}]
      /\ edges' = (edges \ {head}) \cup (IF again THEN {n} ELSE {})
      /\ head' = None
      /\ UNCHANGED <<config, phase, creation, tails, tail, neighbors, spenders>>
  BY DEF Rewire, Refused
<1>2. /\ phase = "rewire" /\ tail \in Node /\ edges \subseteq graph[tail] /\ head \in edges
      /\ head \in graph[tail] /\ Wired /\ Wired' /\ Node' = Node /\ tails \subseteq Node
  BY <1>1 DEF GraphInv, LoopsRight, Wired, Node
<1>3. /\ graph \in [Node -> SUBSET Node]
      /\ \A m \in Node :
           /\ IsFiniteSet(graph[m]) /\ Cardinality(graph[m]) = config.halfDegree
           /\ m \notin graph[m]
           /\ \A h \in graph[m] : m \notin graph[h]
  BY <1>2 DEF GraphInv, GraphRight
<1> DEFINE heads == (graph[tail] \ {head}) \cup {n}
<1>4. \A m \in Node : graph'[m] = IF m = tail THEN heads ELSE graph[m]
  BY <1>1, <1>3
<1>5. graph' \in [Node -> SUBSET Node]
  BY <1>1, <1>2, <1>3
<1>6. IsFiniteSet(heads) /\ Cardinality(heads) = config.halfDegree
  <2>1. /\ IsFiniteSet(graph[tail] \ {head})
        /\ Cardinality(graph[tail] \ {head}) = config.halfDegree - 1
    <3>1. /\ IsFiniteSet(graph[tail]) /\ Cardinality(graph[tail]) = config.halfDegree
          /\ head \in graph[tail]
      BY <1>2, <1>3
    <3> QED
      BY <3>1, FS_RemoveElement
  <2>2. config.halfDegree \in Nat
    BY ConfigFacts DEF GraphInv
  <2>3. Cardinality(heads) = Cardinality(graph[tail] \ {head}) + 1 /\ IsFiniteSet(heads)
    BY <1>1, <2>1, FS_AddElement
  <2> QED
    BY <2>1, <2>2, <2>3
<1>7. \A m \in Node : \A h \in graph'[m] : m # h /\ m \notin graph'[h]
  <2> SUFFICES ASSUME NEW m \in Node, NEW h \in graph'[m] PROVE m # h /\ m \notin graph'[h]
    OBVIOUS
  <2>1. h \in Node
    BY <1>5
  <2>2. CASE m = tail
    BY <1>1, <1>3, <1>4, <2>1, <2>2
  <2>3. CASE m # tail
    <3>1. h \in graph[m] /\ m # h /\ m \notin graph[h]
      BY <1>3, <1>4, <2>3
    <3>2. CASE h = tail
      BY <1>1, <1>3, <1>4, <2>1, <3>1, <3>2
    <3>3. CASE h # tail
      BY <1>4, <2>1, <3>1, <3>3
    <3> QED
      BY <3>2, <3>3
  <2> QED
    BY <2>2, <2>3
<1>8. GraphRight'
  <2>1. \A m \in Node : IsFiniteSet(graph'[m]) /\ Cardinality(graph'[m]) = config.halfDegree
    BY <1>3, <1>4, <1>6
  <2>2. \A m \in Node : m \notin graph'[m]
    BY <1>7
  <2> QED
    BY <1>1, <1>2, <1>5, <1>7, <2>1, <2>2 DEF GraphRight
<1>9. LoopsRight'
  <2>1. edges' \subseteq graph'[tail]
    BY <1>1, <1>2, <1>4
  <2> QED
    BY <1>1, <1>2, <2>1 DEF LoopsRight
<1>10. NeighborsRight'
  BY <1>1, <1>2 DEF NeighborsRight
<1> QED
  BY <1>1, <1>8, <1>9, <1>10 DEF GraphInv

LEMMA LatticeMakesGraph == GraphInv /\ Lattice => GraphInv'
<1> SUFFICES ASSUME GraphInv, Lattice PROVE GraphInv'
  OBVIOUS
<1>1. /\ graph' = [n \in Node |-> {(n + j) % config.nodes : j \in 1 .. config.halfDegree}]
      /\ tails' = Node /\ phase = "create" /\ phase' = "rewire"
      /\ UNCHANGED <<config, creation, tail, edges, head, neighbors, spenders>>
  BY DEF Lattice
<1>2. /\ config.nodes \in Nat /\ config.halfDegree \in Nat /\ 2 * config.halfDegree < config.nodes
  BY ConfigFacts DEF GraphInv
<1>3. /\ graph' \in [Node -> SUBSET Node]
      /\ \A n \in Node :
           /\ IsFiniteSet(graph'[n]) /\ Cardinality(graph'[n]) = config.halfDegree
           /\ n \notin graph'[n] /\ \A h \in graph'[n] : n \notin graph'[h]
  <2>1. graph' = RingOf(config.nodes, config.halfDegree)
    BY <1>1 DEF RingOf, Node
  <2>2. Simple(graph', config.nodes, config.halfDegree)
    BY <1>2, <2>1, Ring
  <2> QED
    BY <2>2 DEF Simple, Node
<1>4. Node' = Node
  BY <1>1 DEF Node
<1>5. GraphRight'
  BY <1>1, <1>3, <1>4 DEF GraphRight
<1>6. LoopsRight' /\ NeighborsRight'
  BY <1>1, <1>4 DEF GraphInv, LoopsRight, NeighborsRight
<1> QED
  BY <1>1, <1>5, <1>6 DEF GraphInv

\* The loops go on: a node, or an edge, is next.
LEMMA LoopsKeepGraph ==
    ASSUME GraphInv, NEW n \in Node, Visit(n) \/ Keep(n) \/ StartRewiring(n)
    PROVE  GraphInv'
<1>1. UNCHANGED <<config, phase, creation, graph, neighbors>> /\ phase = "rewire" /\ head = None
  BY DEF Visit, Keep, StartRewiring
<1>2. Node' = Node /\ Wired' = Wired
  BY <1>1 DEF Node, Wired
<1>3. GraphRight' /\ NeighborsRight'
  BY <1>1, <1>2 DEF GraphInv, GraphRight, NeighborsRight
<1>4. LoopsRight'
  <2>1. CASE Visit(n)
    BY <1>1, <1>2, <2>1 DEF Visit, GraphInv, LoopsRight
  <2>2. CASE Keep(n)
    BY <1>1, <1>2, <2>2 DEF Keep, GraphInv, LoopsRight
  <2>3. CASE StartRewiring(n)
    BY <1>1, <1>2, <2>3 DEF StartRewiring, GraphInv, LoopsRight
  <2> QED
    BY <2>1, <2>2, <2>3
<1> QED
  BY <1>1, <1>3, <1>4 DEF GraphInv

LEMMA ConnectKeepsGraph == GraphInv /\ ConnectPeers => GraphInv'
<1> SUFFICES ASSUME GraphInv, ConnectPeers PROVE GraphInv'
  OBVIOUS
<1>1. /\ phase = "rewire" /\ edges = {} /\ head = None /\ phase' \in {"spend", "done"}
      /\ neighbors' = [p \in Node |-> IF config.peeringAll /\ p \in DOMAIN groupOf
                                      THEN Node ELSE Joined(p)]
      /\ UNCHANGED <<config, creation, wiring, spenders>>
  BY DEF ConnectPeers
<1>2. Node' = Node /\ (\A p : Joined(p)' = Joined(p)) /\ groupOf' = groupOf
  BY <1>1 DEF Node, Joined, wiring, creation
<1>3. GraphRight' /\ LoopsRight'
  BY <1>1, <1>2 DEF GraphInv, GraphRight, LoopsRight, Wired, wiring
<1>4. NeighborsRight'
  BY <1>1, <1>2 DEF NeighborsRight
<1> QED
  BY <1>1, <1>3, <1>4 DEF GraphInv

LEMMA StepGraph == GraphInv /\ [SetupNext]_setupVars => GraphInv'
<1> SUFFICES ASSUME GraphInv, [SetupNext]_setupVars PROVE GraphInv'
  OBVIOUS
<1>1. CASE ConfigureNodes
  <2>1. /\ phase = "configure" /\ phase' \in {"create", "panicked"}
        /\ UNCHANGED <<config, wiring, neighbors>>
    BY <1>1 DEF ConfigureNodes
  <2>2. Node' = Node
    BY <2>1 DEF Node
  <2> QED
    BY <2>1, <2>2 DEF GraphInv, GraphRight, LoopsRight, NeighborsRight, Wired, wiring
<1>2. ASSUME CreatePeer \/ NameIssuers \/ (\E p \in Node : DrawPeer(p)) \/ SpendAccidentally
             \/ SpendOnPurpose \/ Redraw \/ UNCHANGED setupVars
      PROVE  GraphInv'
  <2>1. /\ UNCHANGED <<config, groupOf, wiring, neighbors>>
        /\ phase' = phase \/ (phase # "rewire" /\ (Wired' => Wired))
        /\ phase \notin {"spend", "draw", "done"} => phase' \notin {"spend", "draw", "done"}
    BY <1>2 DEF CreatePeer, NameIssuers, DrawPeer, SpendAccidentally, SpendOnPurpose, Redraw,
                setupVars, creation, wiring, Wired
  <2> QED
    BY <2>1, GraphStays
<1> QED
  BY <1>1, <1>2, RewireKeepsGraph, LatticeMakesGraph, LoopsKeepGraph, ConnectKeepsGraph DEF SetupNext

LEMMA GraphInvariance == SetupSpec => []GraphInv
  BY InitGraph, StepGraph, PTL DEF SetupSpec

\* However the edges are drawn, none is lost, doubled or turned back on its
\* node (WattsStrogatz, whose loops visit maps that they change).
THEOREM EdgesAlwaysKept == SetupSpec => []EdgesKept
<1>1. GraphInv => EdgesKept
  <2> SUFFICES ASSUME GraphInv, phase = "rewire" PROVE EdgesKept
    BY DEF EdgesKept
  <2>1. Simple(graph, config.nodes, config.halfDegree)
    BY DEF GraphInv, GraphRight, Wired, Simple, Node
  <2>2. Cardinality(EdgesOf(graph, Node)) = config.nodes * config.halfDegree
    <3>1. config.nodes \in Nat /\ config.halfDegree \in Nat
      BY ConfigFacts DEF GraphInv
    <3> QED
      BY <2>1, <3>1, EdgeCount DEF Node
  <2> DEFINE P == {{n, h} : n \in Node, h \in Node}
  <2>3. P \cap EdgesOf(graph, Node) = EdgesOf(graph, Node)
    <3>1. \A n \in Node : \A h \in graph[n] : h \in Node
      BY <2>1 DEF Simple, Node
    <3> QED
      BY <3>1 DEF EdgesOf
  <2>4. \A n \in Node : n \notin graph[n]
    BY <2>1 DEF Simple, Node
  <2>5. Cardinality(P \cap EdgesOf(graph, Node)) = config.nodes * config.halfDegree
    <3> HIDE DEF P
    <3> QED
      BY <2>2, <2>3, Zenon
  <2> QED
    BY <2>4, <2>5 DEF EdgesKept, EdgesOf
<1> QED
  BY <1>1, GraphInvariance, PTL

\* Every peer has at least halfDegree neighbours, and the neighbours of all
\* but the adversaries that peer with everybody have them as neighbours
\* (ConnectPeers, ApplyNeighborsAdversaryNodes).
THEOREM NeighborsAnswerable == SetupSpec => []AnswerableNeighbors
<1>1. GraphInv => AnswerableNeighbors
  <2> SUFFICES ASSUME GraphInv, phase \in {"spend", "draw", "done"}, NEW p \in Node
               PROVE  /\ Cardinality(neighbors[p]) >= config.halfDegree
                      /\ \A q \in neighbors[p] :
                             p \in neighbors[q] \/ (config.peeringAll /\ p \in DOMAIN groupOf)
    BY DEF AnswerableNeighbors
  <2>1. /\ graph \in [Node -> SUBSET Node]
        /\ \A n \in Node : IsFiniteSet(graph[n]) /\ Cardinality(graph[n]) = config.halfDegree
    BY DEF GraphInv, GraphRight, Wired
  <2>2. \A n \in Node : neighbors[n] = IF config.peeringAll /\ n \in DOMAIN groupOf
                                       THEN Node ELSE Joined(n)
    BY DEF GraphInv, NeighborsRight
  <2>3. /\ config.nodes \in Nat /\ config.halfDegree \in Nat /\ config.halfDegree < config.nodes
        /\ IsFiniteSet(Node) /\ Cardinality(Node) = config.nodes
    BY ConfigFacts DEF GraphInv
  <2>4. Cardinality(neighbors[p]) >= config.halfDegree
    <3>1. Joined(p) \in SUBSET Node /\ graph[p] \in SUBSET Joined(p)
      BY <2>1 DEF Joined
    <3>2. IsFiniteSet(Joined(p))
      BY <2>3, <3>1, FS_Subset
    <3>3. Cardinality(graph[p]) <= Cardinality(Joined(p)) /\ Cardinality(Joined(p)) \in Nat
      BY <3>1, <3>2, FS_Subset, FS_CardinalityType
    <3> QED
      BY <2>1, <2>2, <2>3, <3>3
  <2>5. ASSUME NEW q \in neighbors[p], ~(config.peeringAll /\ p \in DOMAIN groupOf)
        PROVE  p \in neighbors[q]
    <3>1. q \in Joined(p) /\ q \in Node
      BY <2>1, <2>2, <2>5 DEF Joined
    <3>2. p \in Joined(q)
      BY <3>1 DEF Joined
    <3> QED
      BY <2>2, <3>1, <3>2
  <2> QED
    BY <2>4, <2>5
<1> QED
  BY <1>1, GraphInvariance, PTL

-----------------------------------------------------------------------------
(* Arithmetic of the weights *)

LEMMA Division ==
    ASSUME NEW a \in Nat, NEW b \in Nat \ {0}
    PROVE  /\ a \div b \in Nat
           /\ b * (a \div b) <= a /\ a < b * (a \div b) + b
  OBVIOUS

\* Powers are positive, those of one are one.
LEMMA PowerType ==
    ASSUME NEW b \in Nat \ {0}, NEW k \in Nat
    PROVE  Power(b, k) \in Nat \ {0} /\ (b = 1 => Power(b, k) = 1)
<1> DEFINE V == Nat \ {0}
           h == [n \in 1 .. k |-> [x \in V |-> b * x]]
           Fits(g) == g = [n \in 0 .. k |-> IF n = 0 THEN 1 ELSE b * g[n - 1]]
           power == CHOOSE g : Fits(g)
<1>1. \E g : Fits(g)
  <2>1. h \in [1 .. k -> [V -> V]] /\ 1 \in V
    OBVIOUS
  <2>2. \A n \in 1 .. k, x \in V : h[n][x] = b * x
    OBVIOUS
  <2> HIDE DEF h, V
  <2>3. PICK g \in [0 .. k -> V] : Stepwise(g, 1, h, k)
    BY <2>1, NumberRecursion
  <2>4. \A n \in 0 .. k : g[n] = IF n = 0 THEN 1 ELSE b * g[n - 1]
    BY <2>2, <2>3 DEF Stepwise
  <2>5. Fits(g)
    BY <2>3, <2>4
  <2> QED
    BY <2>5
<1>2. Power(b, k) = power[k]
  BY DEF Power
<1>3. Fits(power)
  BY <1>1, Zenon
<1>4. \A n \in 0 .. k : power[n] = IF n = 0 THEN 1 ELSE b * power[n - 1]
  <2> HIDE DEF power
  <2> QED
    BY <1>3
<1> HIDE DEF power
<1> DEFINE G == {n \in 0 .. k : power[n] \in Nat \ {0} /\ (b = 1 => power[n] = 1)}
<1>5. 0 \in G
  BY <1>4
<1>6. ASSUME NEW n \in 0 .. k, n \in G, n < k PROVE n + 1 \in G
  <2>1. n + 1 \in 0 .. k /\ power[n + 1] = b * power[n]
    BY <1>4, <1>6
  <2>2. power[n] \in Nat \ {0} /\ (b = 1 => power[n] = 1)
    BY <1>6
  <2>3. b * power[n] \in Nat \ {0} /\ (b = 1 => b * power[n] = 1)
    BY <2>2
  <2> QED
    BY <2>1, <2>3
<1>7. k \in G
  <2> HIDE DEF G
  <2>1. 0 .. k \subseteq G
    BY <1>5, <1>6, NumberInduction
  <2> QED
    BY <2>1
<1> QED
  BY <1>2, <1>7

\* One number up to a bound more.
LEMMA IntervalStep ==
    ASSUME NEW a \in Int, NEW n \in Int, a <= n
    PROVE  /\ a .. n = (a .. n - 1) \cup {n} /\ n \notin a .. n - 1
           /\ IsFiniteSet(a .. n - 1) /\ IsFiniteSet(a .. n)
<1>1. IsFiniteSet(a .. n)
  BY FS_Interval
<1>2. a .. n = (a .. n - 1) \cup {n} /\ n \notin a .. n - 1
  OBVIOUS
<1>3. IsFiniteSet(a .. n - 1)
  BY <1>1, <1>2, FS_Subset
<1> QED
  BY <1>1, <1>2, <1>3

\* The sum of a constant.
LEMMA SumConstant ==
    ASSUME NEW S, IsFiniteSet(S), NEW f, NEW c \in Int, \A x \in S : f[x] = c
    PROVE  Total(f, S) = Cardinality(S) * c
<1> DEFINE G == {T \in SUBSET S : Total(f, T) = Cardinality(T) * c}
<1>1. {} \in G
  <2>1. Total(f, {}) = 0 /\ Cardinality({}) = 0 /\ 0 * c = 0
    BY SumEmpty, FS_EmptySet
  <2> QED
    BY <2>1
<1>2. ASSUME NEW T \in SUBSET S, NEW x \in S \ T, T \in G PROVE T \cup {x} \in G
  <2>1. IsFiniteSet(T) /\ Cardinality(T) \in Nat
    BY FS_Subset, FS_CardinalityType
  <2>2. Cardinality(T \cup {x}) = Cardinality(T) + 1
    BY <2>1, FS_AddElement
  <2>3. Total(f, T \cup {x}) = Total(f, T) + f[x]
    BY <2>1, SumAdd
  <2>4. (Cardinality(T) + 1) * c = Cardinality(T) * c + c
    BY <2>1
  <2>5. Total(f, T \cup {x}) = Cardinality(T \cup {x}) * c
    BY <1>2, <2>2, <2>3, <2>4
  <2> QED
    BY <2>5
<1>3. S \in G
  <2> HIDE DEF G
  <2> QED
    BY <1>1, <1>2, FiniteSetInduction
<1> QED
  BY <1>3

\* An inequality of the values, each times a constant, is one of the sums.
LEMMA SumScaled ==
    ASSUME NEW S, IsFiniteSet(S), NEW f, NEW h, NEW c \in Int, NEW d \in Int,
           \A x \in S : f[x] \in Int /\ h[x] \in Int /\ c * f[x] <= d * h[x]
    PROVE  c * Total(f, S) <= d * Total(h, S)
<1> DEFINE G == {T \in SUBSET S : c * Total(f, T) <= d * Total(h, T)}
<1>1. {} \in G
  <2>1. Total(f, {}) = 0 /\ Total(h, {}) = 0 /\ c * 0 = 0 /\ d * 0 = 0
    BY SumEmpty
  <2> QED
    BY <2>1
<1>2. ASSUME NEW T \in SUBSET S, NEW x \in S \ T, T \in G PROVE T \cup {x} \in G
  <2>1. IsFiniteSet(T)
    BY FS_Subset
  <2>2. Total(f, T) \in Int /\ Total(h, T) \in Int
    BY <2>1, SumType
  <2>3. /\ Total(f, T \cup {x}) = Total(f, T) + f[x]
        /\ Total(h, T \cup {x}) = Total(h, T) + h[x]
    BY <2>1, SumAdd
  <2>4. /\ c * (Total(f, T) + f[x]) = c * Total(f, T) + c * f[x]
        /\ d * (Total(h, T) + h[x]) = d * Total(h, T) + d * h[x]
    BY <2>2
  <2>5. c * (Total(f, T) + f[x]) <= d * (Total(h, T) + h[x])
    BY <1>2, <2>2, <2>4
  <2> QED
    BY <2>3, <2>5
<1>3. S \in G
  <2> HIDE DEF G
  <2> QED
    BY <1>1, <1>2, FiniteSetInduction
<1> QED
  BY <1>3

\* The same values one number further on.
Next1(S) == {x + 1 : x \in S}

LEMMA SumShift ==
    ASSUME NEW S \in SUBSET Int, IsFiniteSet(S), NEW f, NEW h,
           \A x \in S : f[x] \in Int /\ h[x + 1] = f[x]
    PROVE  Total(h, Next1(S)) = Total(f, S)
<1> DEFINE G == {T \in SUBSET S : IsFiniteSet(Next1(T)) /\ Total(h, Next1(T)) = Total(f, T)}
<1>1. {} \in G
  <2>1. Next1({}) = {}
    BY DEF Next1
  <2>2. Total(h, Next1({})) = Total(f, {}) /\ IsFiniteSet(Next1({}))
    BY <2>1, SumEmpty, FS_EmptySet
  <2> QED
    BY <2>2
<1>2. ASSUME NEW T \in SUBSET S, NEW x \in S \ T, T \in G PROVE T \cup {x} \in G
  <2>1. IsFiniteSet(T) /\ IsFiniteSet(Next1(T))
    BY <1>2, FS_Subset
  <2>2. Next1(T \cup {x}) = Next1(T) \cup {x + 1} /\ x + 1 \notin Next1(T)
    BY DEF Next1
  <2>3. \A y \in Next1(T) \cup {x + 1} : h[y] \in Int
    BY DEF Next1
  <2>4. /\ Total(h, Next1(T) \cup {x + 1}) = Total(h, Next1(T)) + h[x + 1]
        /\ IsFiniteSet(Next1(T) \cup {x + 1})
    <3> DEFINE y == x + 1
               U == Next1(T)
    <3>1. /\ IsFiniteSet(U) /\ y \notin U
          /\ \A z \in U \cup {y} : h[z] \in Int
      BY <2>1, <2>2, <2>3
    <3> HIDE DEF y, U
    <3>2. Total(h, U \cup {y}) = Total(h, U) + h[y]
      BY <3>1, SumAdd
    <3>3. IsFiniteSet(U \cup {y})
      BY <3>1, FS_AddElement
    <3> QED
      BY <3>2, <3>3 DEF y, U
  <2>5. Total(f, T \cup {x}) = Total(f, T) + f[x]
    BY <2>1, SumAdd
  <2>6. Total(h, Next1(T)) = Total(f, T) /\ h[x + 1] = f[x]
    BY <1>2
  <2>7. Total(h, Next1(T \cup {x})) = Total(f, T \cup {x}) /\ IsFiniteSet(Next1(T \cup {x}))
    BY <2>2, <2>4, <2>5, <2>6
  <2> QED
    BY <2>7
<1>3. S \in G
  <2> HIDE DEF G
  <2> QED
    BY <1>1, <1>2, FiniteSetInduction
<1> QED
  BY <1>3

-----------------------------------------------------------------------------
(* The distributions *)

LEMMA Domain ==
    ASSUME NEW n \in Nat
    PROVE  IsFiniteSet(0 .. n - 1) /\ Cardinality(0 .. n - 1) = n
<1>1. n - 1 \in Int
  OBVIOUS
<1>2. /\ IsFiniteSet(0 .. n - 1)
      /\ Cardinality(0 .. n - 1) = IF 0 > n - 1 THEN 0 ELSE n - 1 - 0 + 1
  BY <1>1, FS_Interval
<1> QED
  BY <1>2

\* What the first node gets makes up for all that the others lost.
LEMMA Remainder ==
    ASSUME NEW n \in Nat \ {0}, NEW w \in [0 .. n - 1 -> Nat], NEW total \in Nat,
           Total(w, 0 .. n - 1) <= total
    PROVE  /\ WithRemainder(w, total) \in [0 .. n - 1 -> Nat]
           /\ Total(WithRemainder(w, total), 0 .. n - 1) = total
<1> DEFINE D == 0 .. n - 1
           s == Total(w, D)
           v == [w EXCEPT ![0] = @ + total - s]
<1>1. IsFiniteSet(D) /\ 0 \in D /\ DOMAIN w = D
  <2>1. 0 \in D /\ DOMAIN w = D /\ n \in Nat
    OBVIOUS
  <2>2. IsFiniteSet(D)
    BY Domain
  <2> QED
    BY <2>1, <2>2
<1>2. s \in Nat
  <2>1. \A x \in D : w[x] \in Nat
    OBVIOUS
  <2> HIDE DEF D
  <2> QED
    BY <1>1, <2>1, SumType
<1>3. WithRemainder(w, total) = v
  BY <1>1 DEF WithRemainder, Sum, Total
<1> HIDE DEF s
<1>4. /\ v \in [D -> Nat] /\ v[0] = w[0] + (total - s) /\ w[0] \in Nat
      /\ \A x \in D \ {0} : v[x] = w[x]
  BY <1>1, <1>2 DEF s
<1>5. \A x \in D : v[x] \in Int /\ w[x] \in Int
  BY <1>4
<1> HIDE DEF D, v
<1>6. Total(v, D) = v[0] + Total(v, D \ {0}) /\ Total(w, D) = w[0] + Total(w, D \ {0})
  <2>1. Total(v, D) = v[0] + Total(v, D \ {0})
    BY <1>1, <1>5, SumTake
  <2>2. Total(w, D) = w[0] + Total(w, D \ {0})
    BY <1>1, <1>5, SumTake
  <2> QED
    BY <2>1, <2>2
<1>7. IsFiniteSet(D \ {0})
  BY <1>1, FS_Subset
<1>8. Total(v, D \ {0}) = Total(w, D \ {0}) /\ Total(w, D \ {0}) \in Int
  <2> DEFINE E == D \ {0}
  <2>1. \A x \in E : v[x] \in Int /\ v[x] = w[x] /\ w[x] \in Int
    BY <1>4, <1>5
  <2> HIDE DEF E
  <2>2. Total(v, E) = Total(w, E)
    BY <1>7, <2>1, SumEqual DEF E
  <2>3. Total(w, E) \in Int
    BY <1>7, <2>1, SumType DEF E
  <2> QED
    BY <2>2, <2>3 DEF E
<1>9. Total(v, D) = total
  BY <1>2, <1>4, <1>6, <1>8 DEF s
<1> QED
  BY <1>3, <1>4, <1>9 DEF D

\* Zipf's weights make up the whole units of the total, if it is one unit at
\* least: with less all the raw weights are zero, and so is their sum, by which
\* the code divides.
LEMMA ZIPFWeights ==
    ASSUME config.zipf \in Nat, NEW n \in Nat \ {0}, NEW hundredths \in Nat, hundredths >= 100
    PROVE  /\ ZIPFDistribution(n, hundredths) \in [0 .. n - 1 -> Nat]
           /\ Total(ZIPFDistribution(n, hundredths), 0 .. n - 1) = hundredths \div 100
<1> DEFINE D == 0 .. n - 1
           raw == [i \in D |-> hundredths \div (100 * Power(i + 1, config.zipf))]
           R == Total(raw, D)
           w == [i \in D |-> (raw[i] * hundredths) \div (100 * R)]
           total == hundredths \div 100
<1>1. IsFiniteSet(D) /\ 0 \in D
  <2>1. 0 \in D
    OBVIOUS
  <2>2. IsFiniteSet(D)
    BY Domain
  <2> QED
    BY <2>1, <2>2
<1>2. \A i \in D : raw[i] \in Nat
  <2> SUFFICES ASSUME NEW i \in D PROVE raw[i] \in Nat
    OBVIOUS
  <2>1. Power(i + 1, config.zipf) \in Nat \ {0}
    BY PowerType
  <2> DEFINE p == Power(i + 1, config.zipf)
  <2> HIDE DEF p
  <2>2. 100 * p \in Nat \ {0}
    BY <2>1 DEF p
  <2>3. hundredths \div (100 * p) \in Nat
    BY <2>2, Division
  <2> QED
    BY <2>3 DEF p
<1>3. raw[0] >= 1
  <2>1. Power(0 + 1, config.zipf) = 1
    BY PowerType
  <2>2. raw[0] = hundredths \div (100 * 1)
    BY <1>1, <2>1
  <2> HIDE DEF raw
  <2> QED
    BY <2>2
<1>4. R \in Nat \ {0}
  <2> HIDE DEF raw, D
  <2>1. Total(raw, D) = raw[0] + Total(raw, D \ {0})
    BY <1>1, <1>2, SumTake
  <2>2. IsFiniteSet(D \ {0})
    BY <1>1, FS_Subset
  <2>3. Total(raw, D \ {0}) \in Nat
    BY <1>2, <2>2, SumType
  <2> QED
    BY <1>1, <1>2, <1>3, <2>1, <2>3
<1>5. /\ DOMAIN raw = D
      /\ ZIPFDistribution(n, hundredths) = WithRemainder(w, total)
  BY DEF ZIPFDistribution, Sum, Total
<1> HIDE DEF raw, R
<1>6. 100 * R \in Nat \ {0}
  BY <1>4
<1>7. \A i \in D : w[i] \in Nat /\ (100 * R) * w[i] <= hundredths * raw[i]
  <2> SUFFICES ASSUME NEW i \in D PROVE w[i] \in Nat /\ (100 * R) * w[i] <= hundredths * raw[i]
    OBVIOUS
  <2> DEFINE a == raw[i] * hundredths
             b == 100 * R
  <2>1. w[i] = a \div b
    OBVIOUS
  <2>2. a \in Nat /\ a = hundredths * raw[i]
    BY <1>2
  <2>3. b \in Nat \ {0}
    BY <1>6
  <2> HIDE DEF a, b, w
  <2>4. a \div b \in Nat /\ b * (a \div b) <= a
    BY <2>2, <2>3, Division
  <2> QED
    BY <2>1, <2>2, <2>4 DEF b
<1>8. w \in [D -> Nat]
  BY <1>7
<1> HIDE DEF w, D
<1>9. \A i \in D : w[i] \in Int /\ raw[i] \in Int /\ (100 * R) * w[i] <= hundredths * raw[i]
  BY <1>2, <1>7
<1>10. (100 * R) * Total(w, D) <= hundredths * Total(raw, D)
  <2> DEFINE c == 100 * R
  <2>1. c \in Int /\ hundredths \in Int
    BY <1>6
  <2>2. \A i \in D : w[i] \in Int /\ raw[i] \in Int /\ c * w[i] <= hundredths * raw[i]
    BY <1>9
  <2> HIDE DEF c
  <2>3. c * Total(w, D) <= hundredths * Total(raw, D)
    BY <1>1, <2>1, <2>2, SumScaled
  <2> QED
    BY <2>3 DEF c
<1>11. Total(w, D) \in Nat
  BY <1>1, <1>7, SumType
<1>12. 100 * Total(w, D) <= hundredths
  <2> DEFINE s == Total(w, D)
             k == 100 * s
  <2>1. k \in Nat /\ (100 * R) * s = R * k /\ hundredths * R = R * hundredths
    BY <1>4, <1>11
  <2>2. R * k <= R * hundredths
    BY <1>10, <2>1 DEF R
  <2> HIDE DEF k, s
  <2>3. k <= hundredths
    BY <1>4, <2>1, <2>2
  <2> QED
    BY <2>3 DEF k, s
<1>13. total \in Nat /\ Total(w, D) <= total
  BY <1>11, <1>12
<1> HIDE DEF total
<1>14. WithRemainder(w, total) \in [D -> Nat] /\ Total(WithRemainder(w, total), D) = total
  BY <1>8, <1>13, Remainder DEF D
<1> QED
  BY <1>5, <1>14 DEF D, total

\* An entry is inserted, and the sum is more by as much.
LEMMA InsertedWeights ==
    ASSUME NEW n \in Nat, NEW w \in [0 .. n - 1 -> Nat], NEW e \in Nat, NEW at \in 0 .. n
    PROVE  /\ Inserted(w, e, at) \in [0 .. n -> Nat]
           /\ Total(Inserted(w, e, at), 0 .. n) = Total(w, 0 .. n - 1) + e
<1> DEFINE v == [i \in 0 .. n |-> IF i < at THEN w[i] ELSE IF i = at THEN e ELSE w[i - 1]]
           A == 0 .. at - 1
           B == at .. n - 1
           C == at + 1 .. n
<1>1. Inserted(w, e, at) = v
  <2>1. Cardinality(DOMAIN w) = n
    BY Domain
  <2> QED
    BY <2>1 DEF Inserted
<1>2. v \in [0 .. n -> Nat]
  OBVIOUS
<1>3. /\ \A x \in A : v[x] = w[x] /\ w[x] \in Int
      /\ v[at] = e
      /\ \A x \in B : w[x] \in Int /\ v[x + 1] = w[x]
  OBVIOUS
<1>4. /\ IsFiniteSet(A) /\ IsFiniteSet(B) /\ IsFiniteSet(C)
  <2>1. at - 1 \in Int /\ n - 1 \in Int /\ at + 1 \in Int
    OBVIOUS
  <2> QED
    BY <2>1, FS_Interval
<1>5. /\ 0 .. n - 1 = A \cup B /\ A \cap B = {}
      /\ 0 .. n = (A \cup C) \cup {at} /\ A \cap C = {} /\ at \notin A \cup C
  <2>1. 0 .. n - 1 = A \cup B /\ A \cap B = {}
    OBVIOUS
  <2>2. 0 .. n = (A \cup C) \cup {at} /\ A \cap C = {} /\ at \notin A \cup C
    OBVIOUS
  <2> HIDE DEF A, B, C
  <2> QED
    BY <2>1, <2>2
<1>6. Total(v, C) = Total(w, B)
  <2>1. C = Next1(B) /\ B \in SUBSET Int
    <3>1. B \in SUBSET Int /\ Next1(B) \subseteq C
      BY DEF Next1
    <3>2. \A y \in C : y - 1 \in B /\ y = (y - 1) + 1
      OBVIOUS
    <3> QED
      BY <3>1, <3>2 DEF Next1
  <2> HIDE DEF v, B, C
  <2> QED
    BY <1>3, <1>4, <2>1, SumShift
<1>7. /\ \A x \in A \cup B : w[x] \in Int
      /\ \A x \in (A \cup C) \cup {at} : v[x] \in Int
  BY <1>2, <1>3, <1>5
<1> HIDE DEF v, A, B, C
<1>8. Total(w, A \cup B) = Total(w, A) + Total(w, B)
  BY <1>4, <1>5, <1>7, SumDisjoint
<1>9. IsFiniteSet(A \cup C)
  BY <1>4, FS_Union
<1>10. Total(v, (A \cup C) \cup {at}) = Total(v, A \cup C) + v[at]
  BY <1>5, <1>7, <1>9, SumAdd
<1>11. Total(v, A \cup C) = Total(v, A) + Total(v, C)
  BY <1>4, <1>5, <1>7, SumDisjoint
<1>12. Total(v, A) = Total(w, A)
  BY <1>3, <1>4, <1>7, SumEqual
<1>13. Total(v, 0 .. n) = Total(w, 0 .. n - 1) + e
  BY <1>3, <1>5, <1>6, <1>8, <1>10, <1>11, <1>12
<1> QED
  BY <1>1, <1>2, <1>13

\* The validators share the total.
LEMMA EqualWeights ==
    ASSUME config.nodes \in Nat \ {0}, config.validators \in 0 .. config.nodes, config.total \in Nat
    PROVE  /\ EqualDistribution \in [Node -> Nat]
           /\ Total(EqualDistribution, Node) = config.total
<1> DEFINE n == config.nodes
           v == config.validators
           c == config.total \div v
           w == [i \in 0 .. n - 1 |-> IF i < v THEN c ELSE 0]
           A == 0 .. v - 1
           B == v .. n - 1
<1>1. EqualDistribution = WithRemainder(w, config.total) /\ Node = 0 .. n - 1
  BY DEF EqualDistribution, Node
<1>2. v # 0 => c \in Nat /\ v * c <= config.total
  BY Division
<1> HIDE DEF c
<1>3. w \in [0 .. n - 1 -> Nat]
  BY <1>2
<1>4. 0 .. n - 1 = A \cup B /\ A \cap B = {}
  OBVIOUS
<1>5. IsFiniteSet(A) /\ Cardinality(A) = v /\ IsFiniteSet(B)
  <2>1. n - 1 \in Int /\ v \in Nat
    OBVIOUS
  <2> HIDE DEF v, n
  <2>2. IsFiniteSet(B)
    BY <2>1, FS_Interval
  <2>3. IsFiniteSet(A) /\ Cardinality(A) = v
    BY <2>1, Domain
  <2> QED
    BY <2>2, <2>3
<1>6. Total(w, A) <= config.total
  <2>1. CASE v = 0
    <3>1. A = {}
      BY <2>1
    <3> HIDE DEF A, w
    <3> QED
      BY <3>1, SumEmpty
  <2>2. CASE v # 0
    <3>1. \A x \in A : w[x] = c
      OBVIOUS
    <3>2. c \in Int /\ v * c <= config.total
      BY <1>2, <2>2
    <3> HIDE DEF A, w, v
    <3>3. Total(w, A) = Cardinality(A) * c
      BY <1>5, <3>1, <3>2, SumConstant
    <3> QED
      BY <1>5, <3>2, <3>3
  <2> QED
    BY <2>1, <2>2
<1>7. Total(w, B) = 0
  <2>1. \A x \in B : w[x] = 0
    OBVIOUS
  <2>2. Cardinality(B) \in Nat
    BY <1>5, FS_CardinalityType
  <2> HIDE DEF B, w
  <2>3. Total(w, B) = Cardinality(B) * 0
    BY <1>5, <2>1, SumConstant
  <2> QED
    BY <2>2, <2>3
<1>8. \A x \in A \cup B : w[x] \in Nat
  BY <1>3, <1>4
<1>9. Total(w, 0 .. n - 1) <= config.total
  <2> HIDE DEF A, B, w, n
  <2>1. Total(w, A \cup B) = Total(w, A) + Total(w, B)
    BY <1>4, <1>5, <1>8, SumDisjoint
  <2>2. Total(w, A) \in Nat
    BY <1>5, <1>8, SumType
  <2>3. Total(w, 0 .. n - 1) = Total(w, A \cup B)
    BY <1>4, Zenon
  <2> QED
    BY <1>6, <1>7, <2>1, <2>2, <2>3
<1>10. n \in Nat \ {0} /\ config.total \in Nat
  OBVIOUS
<1> HIDE DEF w, n
<1> QED
  BY <1>1, <1>3, <1>9, <1>10, Remainder

-----------------------------------------------------------------------------
(* The groups *)

\* The sum of the first n values.
Prefix(f, n) == Total(f, 1 .. n)

LEMMA PrefixFacts ==
    ASSUME NEW n \in Nat, NEW f, \A k \in 1 .. n : f[k] \in Nat
    PROVE  /\ Prefix(f, 0) = 0
           /\ \A k \in 0 .. n : Prefix(f, k) \in Nat
           /\ \A k \in 1 .. n : Prefix(f, k) = Prefix(f, k - 1) + f[k]
           /\ \A k, m \in 0 .. n : k <= m => Prefix(f, k) <= Prefix(f, m)
<1>1. Prefix(f, 0) = 0
  <2>1. 1 .. 0 = {}
    OBVIOUS
  <2> QED
    BY <2>1, SumEmpty, Zenon DEF Prefix
<1>2. ASSUME NEW k \in 0 .. n PROVE Prefix(f, k) \in Nat
  <2>1. IsFiniteSet(1 .. k)
    BY FS_Interval
  <2>2. \A x \in 1 .. k : f[x] \in Nat
    OBVIOUS
  <2> QED
    BY <2>1, <2>2, SumType DEF Prefix
<1>3. ASSUME NEW k \in 1 .. n PROVE Prefix(f, k) = Prefix(f, k - 1) + f[k]
  <2> DEFINE S == 1 .. k - 1
  <2>1. 1 .. k = S \cup {k} /\ k \notin S /\ IsFiniteSet(S)
    <3>1. k \in Int /\ 1 \in Int /\ 1 <= k
      OBVIOUS
    <3> QED
      BY <3>1, IntervalStep
  <2>2. \A x \in S \cup {k} : f[x] \in Int
    OBVIOUS
  <2> HIDE DEF S
  <2>3. Total(f, S \cup {k}) = Total(f, S) + f[k]
    BY <2>1, <2>2, SumAdd
  <2>4. Total(f, 1 .. k) = Total(f, S) + f[k]
    BY <2>1, <2>3, Zenon
  <2> QED
    BY <2>4, Zenon DEF Prefix, S
<1>4. ASSUME NEW k \in 0 .. n, NEW m \in 0 .. n, k <= m PROVE Prefix(f, k) <= Prefix(f, m)
  <2> DEFINE S == 1 .. k
             T == 1 .. m
  <2>1. S \in SUBSET T /\ \A x \in T : f[x] \in Nat
    BY <1>4
  <2>2. IsFiniteSet(T)
    BY FS_Interval
  <2> HIDE DEF S, T
  <2>3. Total(f, S) <= Total(f, T)
    BY <2>1, <2>2, SumSubset
  <2> QED
    BY <2>3, Zenon DEF Prefix, S, T
<1> QED
  BY <1>1, <1>2, <1>3, <1>4

GroupTotal == Len(AdversaryTypes)

\* The shares of the first n groups.
PercentTo(n) == Prefix(GroupPercent, n)

LEMMA GroupTypes ==
    ASSUME config \in Configs
    PROVE  /\ GroupTotal \in Nat /\ (config.mode # "Adversary" => GroupTotal = 0)
           /\ DOMAIN AdversaryGroups = 1 .. GroupTotal
           /\ GroupCount \in [1 .. GroupTotal -> Nat]
           /\ GroupPercent \in [1 .. GroupTotal -> Nat]
           /\ \A g \in 1 .. GroupTotal : /\ AdversaryGroups[g].count = GroupCount[g]
                                         /\ AdversaryGroups[g].percent = GroupPercent[g]
<1> DEFINE types == AdversaryTypes
           mana == Fitting(config.mana, types)
           counts == Fitting(config.counts, types)
<1>1. /\ config.types \in Seq(STRING) /\ config.mana \in Seq(Nat) /\ config.counts \in Seq(Nat)
  BY ConfigsAssumption
<1>2. types \in Seq(STRING) /\ (config.mode # "Adversary" => types = <<>>)
  <2>1. <<>> \in Seq(STRING) /\ config.types \in Seq(STRING)
    BY <1>1
  <2>2. Fitting(config.types, config.colors) \in Seq(STRING)
    BY <2>1 DEF Fitting
  <2> QED
    BY <2>1, <2>2 DEF AdversaryTypes
<1>3. ASSUME NEW list \in Seq(Nat), Fitting(list, types) # <<>>, NEW g \in DOMAIN types
      PROVE  Fitting(list, types)[g] \in Nat
  <2>1. Fitting(list, types) = list /\ Len(list) = Len(types)
    BY <1>3 DEF Fitting
  <2>2. g \in 1 .. Len(list)
    BY <1>2, <2>1
  <2> QED
    BY <2>1, <2>2
<1> HIDE DEF types
<1>4. /\ DOMAIN AdversaryGroups = DOMAIN types
      /\ \A g \in DOMAIN types :
            /\ AdversaryGroups[g].count = IF counts = <<>> THEN 1 ELSE counts[g]
            /\ AdversaryGroups[g].percent = IF mana = <<>> THEN 1 ELSE mana[g]
  BY DEF AdversaryGroups, types
<1>5. GroupTotal \in Nat /\ DOMAIN types = 1 .. GroupTotal
  BY <1>2 DEF GroupTotal, types
<1>6. config.mode # "Adversary" => GroupTotal = 0
  BY <1>2 DEF GroupTotal, types
<1>7. \A g \in DOMAIN types : counts # <<>> => counts[g] \in Nat
  BY <1>1, <1>3
<1>8. \A g \in DOMAIN types : mana # <<>> => mana[g] \in Nat
  BY <1>1, <1>3
<1> HIDE DEF counts, mana
<1>9. /\ GroupCount \in [1 .. GroupTotal -> Nat]
      /\ \A g \in 1 .. GroupTotal : AdversaryGroups[g].count = GroupCount[g]
  BY <1>4, <1>5, <1>7 DEF GroupCount
<1>10. /\ GroupPercent \in [1 .. GroupTotal -> Nat]
       /\ \A g \in 1 .. GroupTotal : AdversaryGroups[g].percent = GroupPercent[g]
  BY <1>4, <1>5, <1>8 DEF GroupPercent
<1> QED
  BY <1>4, <1>5, <1>6, <1>9, <1>10

LEMMA GroupPrefixes ==
    ASSUME config \in Configs
    PROVE  /\ CountTo(0) = 0 /\ PercentTo(0) = 0
           /\ CountTo(GroupTotal) = AdversaryCount /\ PercentTo(GroupTotal) = AdversaryPercent
           /\ \A g \in 0 .. GroupTotal : CountTo(g) \in Nat /\ PercentTo(g) \in Nat
           /\ \A g \in 1 .. GroupTotal : /\ CountTo(g) = CountTo(g - 1) + GroupCount[g]
                                         /\ PercentTo(g) = PercentTo(g - 1) + GroupPercent[g]
           /\ \A g, h \in 0 .. GroupTotal : g <= h => CountTo(g) <= CountTo(h)
<1>1. /\ GroupTotal \in Nat
      /\ \A g \in 1 .. GroupTotal : GroupCount[g] \in Nat /\ GroupPercent[g] \in Nat
      /\ DOMAIN GroupCount = 1 .. GroupTotal /\ DOMAIN GroupPercent = 1 .. GroupTotal
  BY GroupTypes
<1>2. /\ CountTo(GroupTotal) = AdversaryCount /\ PercentTo(GroupTotal) = AdversaryPercent
  BY <1>1, Zenon DEF CountTo, PercentTo, Prefix, AdversaryCount, AdversaryPercent, Sum, Total
<1> DEFINE n == GroupTotal
           c == GroupCount
           p == GroupPercent
<1>3. n \in Nat /\ (\A g \in 1 .. n : c[g] \in Nat) /\ (\A g \in 1 .. n : p[g] \in Nat)
  BY <1>1
<1> HIDE DEF n, c, p
<1>4. /\ Prefix(c, 0) = 0 /\ (\A g \in 0 .. n : Prefix(c, g) \in Nat)
      /\ (\A g \in 1 .. n : Prefix(c, g) = Prefix(c, g - 1) + c[g])
      /\ \A g, h \in 0 .. n : g <= h => Prefix(c, g) <= Prefix(c, h)
  BY <1>3, PrefixFacts
<1>5. /\ Prefix(p, 0) = 0 /\ (\A g \in 0 .. n : Prefix(p, g) \in Nat)
      /\ (\A g \in 1 .. n : Prefix(p, g) = Prefix(p, g - 1) + p[g])
  BY <1>3, PrefixFacts
<1> QED
  <2>1. \A g : CountTo(g) = Prefix(c, g)
    BY Zenon DEF CountTo, Prefix, Total, c
  <2> QED
    BY <1>2, <1>4, <1>5, <2>1 DEF PercentTo, n, c, p

\* Each adversary belongs to one group.
LEMMA GroupFound ==
    ASSUME config \in Configs, NEW x \in 0 .. AdversaryCount - 1
    PROVE  \E g \in 1 .. GroupTotal :
              /\ CountTo(g - 1) <= x /\ x < CountTo(g)
              /\ \A h \in 1 .. GroupTotal : CountTo(h - 1) <= x /\ x < CountTo(h) => h = g
<1>1. GroupTotal \in Nat
  BY GroupTypes
<1> DEFINE B == {g \in 0 .. GroupTotal : x < CountTo(g)}
<1>2. GroupTotal \in B
  <2>1. CountTo(GroupTotal) = AdversaryCount /\ AdversaryCount \in Nat
    BY <1>1, GroupPrefixes
  <2> QED
    BY <1>1, <2>1
<1>3. PICK g \in B : \A k \in B : g <= k
  <2>1. B \in SUBSET Nat /\ B # {}
    BY <1>1, <1>2
  <2> HIDE DEF B
  <2> QED
    BY <2>1, LeastNumber
<1>4. g # 0
  BY <1>3, GroupPrefixes
<1>5. g \in 1 .. GroupTotal /\ g - 1 \in 0 .. GroupTotal /\ g - 1 \notin B
  BY <1>1, <1>3, <1>4
<1>6. CountTo(g - 1) \in Nat
  BY <1>5, GroupPrefixes
<1>7. CountTo(g - 1) <= x /\ x < CountTo(g)
  BY <1>3, <1>5, <1>6
<1>8. ASSUME NEW h \in 1 .. GroupTotal, CountTo(h - 1) <= x, x < CountTo(h) PROVE h = g
  <2>1. /\ \A a, b \in 0 .. GroupTotal : a <= b => CountTo(a) <= CountTo(b)
        /\ \A a \in 0 .. GroupTotal : CountTo(a) \in Nat
    BY GroupPrefixes
  <2>2. h - 1 \in 0 .. GroupTotal /\ h \in 0 .. GroupTotal /\ g \in 0 .. GroupTotal
    BY <1>1, <1>5
  <2>3. CASE h < g
    <3>1. h <= g - 1
      BY <1>5, <2>3
    <3> QED
      BY <1>5, <1>7, <1>8, <2>1, <2>2, <3>1
  <2>4. CASE g < h
    <3>1. g <= h - 1
      BY <1>5, <2>4
    <3> QED
      BY <1>7, <1>8, <2>1, <2>2, <3>1
  <2> QED
    BY <1>5, <2>3, <2>4
<1> QED
  BY <1>5, <1>7, <1>8

\* The identifiers that a group gets.
Members(count, g) == {i \in count .. (count + AdversaryCount) - 1 : GroupMap(count)[i] = g}

LEMMA GroupMapRight ==
    ASSUME config \in Configs, NEW count \in Nat
    PROVE  /\ AdversaryCount \in Nat
           /\ DOMAIN GroupMap(count) = count .. (count + AdversaryCount) - 1
           /\ \A i \in count .. (count + AdversaryCount) - 1 :
                 /\ GroupMap(count)[i] \in 1 .. GroupTotal
                 /\ \A g \in 1 .. GroupTotal :
                       GroupMap(count)[i] = g <=> /\ count + CountTo(g - 1) <= i
                                                  /\ i < count + CountTo(g)
<1>1. /\ AdversaryCount \in Nat /\ GroupTotal \in Nat
      /\ \A g \in 0 .. GroupTotal : CountTo(g) \in Nat
  BY GroupTypes, GroupPrefixes
<1> DEFINE D == count .. count + AdversaryCount - 1
           In(i, g) == i - count \in CountTo(g - 1) .. CountTo(g) - 1
<1>2. DOMAIN AdversaryGroups = 1 .. GroupTotal
  BY GroupTypes
<1>3. GroupMap(count) = [i \in D |-> CHOOSE g \in DOMAIN AdversaryGroups : In(i, g)]
  BY DEF GroupMap
<1>4. D = count .. (count + AdversaryCount) - 1
  BY <1>1
<1>5. ASSUME NEW i \in D
      PROVE  /\ GroupMap(count)[i] \in 1 .. GroupTotal
             /\ \A g \in 1 .. GroupTotal :
                   GroupMap(count)[i] = g <=> /\ count + CountTo(g - 1) <= i
                                              /\ i < count + CountTo(g)
  <2> DEFINE x == i - count
  <2>1. x \in 0 .. AdversaryCount - 1 /\ i \in Nat
    BY <1>1
  <2>2. \A g \in 1 .. GroupTotal : g - 1 \in 0 .. GroupTotal /\ g \in 0 .. GroupTotal
    BY <1>1
  <2>3. \A g \in 1 .. GroupTotal : CountTo(g - 1) \in Nat /\ CountTo(g) \in Nat
    BY <1>1, <2>2
  <2>4. \A g \in 1 .. GroupTotal : In(i, g) <=> CountTo(g - 1) <= x /\ x < CountTo(g)
    BY <2>1, <2>3
  <2>5. \A g \in 1 .. GroupTotal :
           In(i, g) <=> count + CountTo(g - 1) <= i /\ i < count + CountTo(g)
    BY <2>1, <2>3, <2>4
  <2>6. PICK g \in 1 .. GroupTotal :
               /\ CountTo(g - 1) <= x /\ x < CountTo(g)
               /\ \A h \in 1 .. GroupTotal : CountTo(h - 1) <= x /\ x < CountTo(h) => h = g
    <3> HIDE DEF x
    <3> QED
      BY <2>1, GroupFound
  <2>7. In(i, g) /\ \A h \in 1 .. GroupTotal : In(i, h) => h = g
    BY <2>4, <2>6
  <2> HIDE DEF In, D
  <2>8. GroupMap(count)[i] = CHOOSE h \in DOMAIN AdversaryGroups : In(i, h)
    BY <1>3, Zenon
  <2>9. GroupMap(count)[i] = g
    <3>1. g \in DOMAIN AdversaryGroups /\ \A h \in DOMAIN AdversaryGroups : In(i, h) => h = g
      BY <1>2, <2>7, Zenon
    <3> QED
      BY <2>7, <2>8, <3>1, Zenon
  <2> QED
    BY <2>5, <2>7, <2>9
<1> HIDE DEF In
<1> QED
  BY <1>1, <1>3, <1>4, <1>5

\* A group has as many members as it was given.
LEMMA MembersRight ==
    ASSUME config \in Configs, NEW count \in Nat, NEW g \in 1 .. GroupTotal
    PROVE  /\ Members(count, g) = count + CountTo(g - 1) .. (count + CountTo(g)) - 1
           /\ IsFiniteSet(Members(count, g)) /\ Cardinality(Members(count, g)) = GroupCount[g]
<1>1. /\ CountTo(g) = CountTo(g - 1) + GroupCount[g] /\ CountTo(g - 1) \in Nat
      /\ CountTo(g) \in Nat /\ CountTo(g) <= AdversaryCount /\ GroupCount[g] \in Nat
      /\ AdversaryCount \in Nat
  <2>1. GroupTotal \in Nat /\ GroupCount[g] \in Nat
    BY GroupTypes
  <2>2. g - 1 \in 0 .. GroupTotal /\ g \in 0 .. GroupTotal /\ GroupTotal \in 0 .. GroupTotal
        /\ g <= GroupTotal
    BY <2>1
  <2> QED
    BY <2>1, <2>2, GroupPrefixes
<1>2. \A i \in count .. (count + AdversaryCount) - 1 :
          GroupMap(count)[i] = g <=> count + CountTo(g - 1) <= i /\ i < count + CountTo(g)
  BY GroupMapRight
<1> DEFINE a == count + CountTo(g - 1)
           b == (count + CountTo(g)) - 1
<1>3. Members(count, g) = a .. b
  BY <1>1, <1>2 DEF Members
<1>4. a \in Int /\ b \in Int /\ b - a + 1 = GroupCount[g]
  BY <1>1
<1>5. IsFiniteSet(a .. b) /\ Cardinality(a .. b) = GroupCount[g]
  <2> HIDE DEF a, b
  <2>1. IsFiniteSet(a .. b) /\ Cardinality(a .. b) = IF a > b THEN 0 ELSE b - a + 1
    BY <1>4, FS_Interval
  <2> QED
    BY <1>1, <1>4, <2>1
<1> QED
  BY <1>3, <1>5

-----------------------------------------------------------------------------
(* What the generators return *)

HonestCount == config.nodes - AdversaryCount

\* A group holds its share but for less than a unit per member.
LEMMA GroupHolds ==
    ASSUME config \in Configs, NEW count \in Nat, NEW g \in 1 .. GroupTotal, GroupCount[g] > 0,
           NEW w, \A i \in Members(count, g) : w[i] = GroupWeight(g)
    PROVE  /\ Total(w, Members(count, g)) \in Nat /\ GroupWeight(g) \in Nat
           /\ 100 * Total(w, Members(count, g)) <= GroupPercent[g] * config.total
           /\ 100 * (Total(w, Members(count, g)) + GroupCount[g]) > GroupPercent[g] * config.total
<1> DEFINE c == GroupCount[g]
           q == GroupPercent[g] * config.total
           W == GroupWeight(g)
           M == Members(count, g)
<1>1. config.total \in Nat
  BY ConfigsAssumption
<1>2. c \in Nat \ {0} /\ GroupPercent[g] \in Nat
      /\ AdversaryGroups[g].count = c /\ AdversaryGroups[g].percent = GroupPercent[g]
  BY GroupTypes
<1>3. q \in Nat
  BY <1>1, <1>2
<1>4. W = q \div (100 * c)
  BY <1>2 DEF GroupWeight
<1> HIDE DEF c, q, W
<1>5. 100 * c \in Nat \ {0}
  BY <1>2
<1>6. W \in Nat /\ (100 * c) * W <= q /\ q < (100 * c) * W + 100 * c
  BY <1>3, <1>4, <1>5, Division
<1>7. IsFiniteSet(M) /\ Cardinality(M) = c /\ \A i \in M : w[i] = W
  BY MembersRight DEF c, W
<1> HIDE DEF M
<1>8. Total(w, M) = c * W
  <2>1. W \in Int
    BY <1>6
  <2>2. Total(w, M) = Cardinality(M) * W
    BY <1>7, <2>1, SumConstant
  <2> QED
    BY <1>7, <2>2
<1>9. c * W \in Nat /\ (100 * c) * W = 100 * (c * W) /\ 100 * (c * W + c) = 100 * (c * W) + 100 * c
  BY <1>2, <1>6
<1>10. Total(w, M) \in Nat /\ 100 * Total(w, M) <= q /\ 100 * (Total(w, M) + c) > q
  BY <1>6, <1>8, <1>9
<1> QED
  BY <1>6, <1>10 DEF M, q, c, W

\* The groups together hold their shares but for a unit per adversary.
LEMMA GroupsHold ==
    ASSUME config \in Configs, NEW count \in Nat, NEW w,
           \A g \in 1 .. GroupTotal :
               GroupCount[g] > 0 /\ \A i \in Members(count, g) : w[i] = GroupWeight(g)
    PROVE  /\ Total(w, count .. (count + AdversaryCount) - 1) \in Nat
           /\ 100 * Total(w, count .. (count + AdversaryCount) - 1) <= AdversaryPercent * config.total
           /\ 100 * (Total(w, count .. (count + AdversaryCount) - 1) + AdversaryCount)
              >= AdversaryPercent * config.total
<1> DEFINE S(g) == count .. (count + CountTo(g)) - 1
           T(g) == Total(w, S(g))
           Holds(g) == /\ IsFiniteSet(S(g)) /\ (\A i \in S(g) : w[i] \in Nat) /\ T(g) \in Nat
                       /\ 100 * T(g) <= PercentTo(g) * config.total
                       /\ 100 * (T(g) + CountTo(g)) >= PercentTo(g) * config.total
           G == {g \in 0 .. GroupTotal : Holds(g)}
<1>0. config.total \in Nat /\ GroupTotal \in Nat
  BY ConfigsAssumption, GroupTypes
<1>1. 0 \in G
  <2>1. S(0) = {} /\ CountTo(0) = 0 /\ PercentTo(0) = 0
    BY GroupPrefixes
  <2>2. T(0) = 0 /\ IsFiniteSet(S(0))
    BY <2>1, SumEmpty, FS_EmptySet
  <2>3. 0 * config.total = 0
    BY <1>0
  <2> HIDE DEF S, T
  <2>4. Holds(0)
    BY <2>1, <2>2, <2>3
  <2> QED
    BY <1>0, <2>4
<1>2. ASSUME NEW h \in 0 .. GroupTotal, h \in G, h < GroupTotal PROVE h + 1 \in G
  <2> DEFINE g == h + 1
             M == Members(count, g)
  <2>1. g \in 1 .. GroupTotal /\ g - 1 = h /\ g \in 0 .. GroupTotal
    BY <1>0, <1>2
  <2> HIDE DEF g
  <2>2. /\ CountTo(g) = CountTo(h) + GroupCount[g] /\ PercentTo(g) = PercentTo(h) + GroupPercent[g]
        /\ CountTo(h) \in Nat /\ CountTo(g) \in Nat /\ PercentTo(h) \in Nat
        /\ GroupCount[g] \in Nat /\ GroupPercent[g] \in Nat
    BY <2>1, GroupPrefixes, GroupTypes
  <2>3. M = count + CountTo(h) .. (count + CountTo(g)) - 1 /\ IsFiniteSet(M)
    BY <2>1, MembersRight
  <2>4. Total(w, M) \in Nat /\ GroupWeight(g) \in Nat
        /\ 100 * Total(w, M) <= GroupPercent[g] * config.total
        /\ 100 * (Total(w, M) + GroupCount[g]) > GroupPercent[g] * config.total
    BY <2>1, GroupHolds
  <2>5. S(g) = S(h) \cup M /\ S(h) \cap M = {}
    BY <2>2, <2>3
  <2>6. \A i \in M : w[i] \in Nat
    BY <2>1, <2>4
  <2>7. Holds(h)
    BY <1>2
  <2> HIDE DEF S, M
  <2>8. Total(w, S(h) \cup M) = Total(w, S(h)) + Total(w, M) /\ IsFiniteSet(S(h) \cup M)
    <3>1. \A i \in S(h) \cup M : w[i] \in Int
      BY <2>6, <2>7
    <3>2. IsFiniteSet(S(h) \cup M)
      BY <2>3, <2>7, FS_Union
    <3> QED
      BY <2>3, <2>5, <2>7, <3>1, <3>2, SumDisjoint
  <2>9. T(g) = T(h) + Total(w, M) /\ IsFiniteSet(S(g)) /\ \A i \in S(g) : w[i] \in Nat
    BY <2>5, <2>6, <2>7, <2>8
  <2>10. PercentTo(g) * config.total = PercentTo(h) * config.total + GroupPercent[g] * config.total
    BY <1>0, <2>2
  <2> DEFINE a == PercentTo(h) * config.total
             b == GroupPercent[g] * config.total
  <2>11. a \in Nat /\ b \in Nat
    BY <1>0, <2>2
  <2>12. /\ T(g) \in Nat /\ 100 * T(g) <= a + b /\ 100 * (T(g) + CountTo(g)) >= a + b
    <3>1. T(h) \in Nat /\ 100 * T(h) <= a /\ 100 * (T(h) + CountTo(h)) >= a
      BY <2>7
    <3> HIDE DEF T, a, b
    <3> QED
      BY <2>2, <2>4, <2>9, <2>11, <3>1 DEF b
  <2>13. Holds(g)
    <3> HIDE DEF T
    <3> QED
      BY <2>9, <2>10, <2>12
  <2>14. g \in G
    BY <2>1, <2>13
  <2> QED
    BY <2>14 DEF g
<1>3. GroupTotal \in G
  <2> HIDE DEF G
  <2>1. 0 .. GroupTotal \subseteq G
    BY <1>0, <1>1, <1>2, NumberInduction
  <2> QED
    BY <1>0, <2>1
<1>4. Holds(GroupTotal)
  BY <1>3
<1>5. CountTo(GroupTotal) = AdversaryCount /\ PercentTo(GroupTotal) = AdversaryPercent
  BY GroupPrefixes
<1> QED
  BY <1>4, <1>5

\* What ConfigureWeights promises.
ConfiguredRight(w) ==
    /\ w \in [Node -> Nat]
    /\ config.total - Total(w, Node) \in 0 .. AdversaryCount + 1
    /\ \A g \in 1 .. GroupTotal : \A i \in Members(HonestCount, g) : w[i] = GroupWeight(g)
    /\ HonestCount \in Nat

LEMMA AdversaryWeights ==
    ASSUME config \in Configs, SharesLeft, ~ConfiguringPanics, config.mode = "Adversary",
           groupOf' = GroupMap(HonestCount)
    PROVE  ConfiguredRight(ConfiguredWeights)
<1> DEFINE count == HonestCount
           hundredths == config.total * (100 - AdversaryPercent)
           z == ZIPFDistribution(count, hundredths)
           w == [i \in Node |-> IF i < count THEN z[i] ELSE GroupWeight(GroupMap(count)[i])]
           A == 0 .. count - 1
           B == count .. (count + AdversaryCount) - 1
<1>1. /\ config.nodes \in Nat /\ config.total \in Nat /\ config.zipf \in Nat
  BY ConfigsAssumption
<1>2. AdversaryCount \in Nat /\ AdversaryPercent \in Nat /\ GroupTotal \in Nat
  BY GroupTypes, GroupPrefixes
<1>3. AdversaryCount < config.nodes
  BY <1>1, <1>2 DEF ConfiguringPanics
<1>4. count \in Nat \ {0} /\ count + AdversaryCount = config.nodes
  BY <1>1, <1>2, <1>3 DEF HonestCount
<1>5. ConfiguredWeights = w
  BY Zenon DEF ConfiguredWeights, HonestCount
<1>6. hundredths \in Nat /\ hundredths >= 100
  BY <1>1, <1>2 DEF SharesLeft
<1>7. z \in [A -> Nat] /\ Total(z, A) = hundredths \div 100
  <2> HIDE DEF count, hundredths
  <2> QED
    BY <1>1, <1>4, <1>6, ZIPFWeights
<1> HIDE DEF z, count
<1>8. Node = A \cup B /\ A \cap B = {} /\ Node = 0 .. config.nodes - 1
  BY <1>2, <1>4 DEF Node
<1>9. \A g \in 1 .. GroupTotal : GroupCount[g] > 0 /\ Members(count, g) \subseteq B
  BY GroupTypes DEF SharesLeft, Members
<1>10. \A i \in A : i \in Node /\ i < count
  BY <1>4, <1>8
<1>11. \A i \in B : i \in Node /\ ~(i < count) /\ GroupMap(count)[i] \in 1 .. GroupTotal
  BY <1>4, <1>8, GroupMapRight
<1>12. /\ \A i \in A : w[i] = z[i]
       /\ \A i \in B : w[i] = GroupWeight(GroupMap(count)[i])
  BY <1>10, <1>11
<1>13. \A g \in 1 .. GroupTotal : \A i \in Members(count, g) : w[i] = GroupWeight(g)
  BY <1>9, <1>12 DEF Members
<1>14. DOMAIN w = Node
  OBVIOUS
<1> HIDE DEF A, w, hundredths
<1>15. /\ Total(w, B) \in Nat
       /\ 100 * Total(w, B) <= AdversaryPercent * config.total
       /\ 100 * (Total(w, B) + AdversaryCount) >= AdversaryPercent * config.total
  BY <1>4, <1>9, <1>13, GroupsHold
<1> HIDE DEF B
<1>16. \A i \in B : w[i] \in Nat
  <2> SUFFICES ASSUME NEW i \in B PROVE w[i] \in Nat
    OBVIOUS
  <2> DEFINE g == GroupMap(count)[i]
  <2>1. g \in 1 .. GroupTotal /\ GroupCount[g] > 0
    BY <1>9, <1>11
  <2>2. GroupWeight(g) \in Nat
    <3> HIDE DEF g
    <3> QED
      BY <1>4, <1>9, <1>13, <2>1, GroupHolds
  <2> QED
    BY <1>12, <2>2
<1>17. \A i \in A : w[i] \in Nat /\ w[i] = z[i]
  BY <1>7, <1>12
<1>18. w \in [Node -> Nat]
  <2>1. w = [i \in Node |-> w[i]]
    BY DEF w
  <2> QED
    BY <1>8, <1>16, <1>17, <2>1
<1>19. IsFiniteSet(A) /\ IsFiniteSet(B)
  <2>1. (count + AdversaryCount) - 1 \in Int /\ count \in Int
    BY <1>2, <1>4
  <2>2. IsFiniteSet(B)
    BY <2>1, FS_Interval DEF B
  <2>3. IsFiniteSet(A)
    BY <1>4, Domain DEF A
  <2> QED
    BY <2>2, <2>3
<1>20. Total(w, A) = hundredths \div 100
  BY <1>7, <1>17, <1>19, SumEqual
<1>21. Total(w, Node) = Total(w, A) + Total(w, B)
  <2>1. \A i \in A \cup B : w[i] \in Int
    BY <1>16, <1>17
  <2> QED
    BY <1>8, <1>19, <2>1, SumDisjoint
<1>22. config.total - Total(w, Node) \in 0 .. AdversaryCount + 1
  <2> DEFINE s == hundredths \div 100
             t == Total(w, B)
             share == AdversaryPercent * config.total
  <2>1. hundredths + share = 100 * config.total
    BY <1>1, <1>2 DEF hundredths
  <2>2. s \in Nat /\ 100 * s <= hundredths /\ hundredths < 100 * s + 100
    BY <1>6
  <2>3. share \in Nat /\ t \in Nat /\ 100 * t <= share /\ 100 * (t + AdversaryCount) >= share
    BY <1>1, <1>2, <1>15
  <2>4. Total(w, Node) = s + t
    BY <1>20, <1>21
  <2> HIDE DEF s, t, share
  <2> QED
    BY <1>1, <1>2, <1>6, <2>1, <2>2, <2>3, <2>4
<1> QED
  BY <1>4, <1>5, <1>13, <1>18, <1>22 DEF ConfiguredRight, count

\* The other modes have no groups.
LEMMA OtherWeights ==
    ASSUME config \in Configs, SharesLeft, ~ConfiguringPanics, config.mode # "Adversary"
    PROVE  ConfiguredRight(ConfiguredWeights)
<1>1. /\ config.nodes \in Nat \ {0} /\ config.total \in Nat \ {0} /\ config.zipf \in Nat
      /\ config.validators \in 0 .. config.nodes
      /\ config.attacker \in 0 .. config.nodes - 1 /\ config.attackerPercent \in 0 .. 100
      /\ config.mode \in {"None", "Accidental", "Blowball"}
  BY ConfigsAssumption
<1>2. GroupTotal = 0 /\ AdversaryCount = 0
  BY GroupTypes, GroupPrefixes
<1>3. HonestCount = config.nodes /\ (\A g \in 1 .. GroupTotal : FALSE)
  BY <1>1, <1>2 DEF HonestCount
<1> DEFINE w == ConfiguredWeights
<1>4. SUFFICES w \in [Node -> Nat] /\ config.total - Total(w, Node) \in 0 .. 1
  BY <1>1, <1>2, <1>3 DEF ConfiguredRight
<1>5. CASE config.mode = "None"
  <2>1. w = EqualDistribution
    BY <1>5 DEF ConfiguredWeights
  <2>2. w \in [Node -> Nat] /\ Total(w, Node) = config.total
    BY <1>1, <2>1, EqualWeights
  <2> HIDE DEF w
  <2> QED
    BY <1>1, <2>2
<1>6. CASE config.mode = "Accidental"
  <2> DEFINE n == config.nodes
             hundredths == config.total * 100
  <2>1. w = ZIPFDistribution(n, hundredths)
    BY <1>6 DEF ConfiguredWeights
  <2>2. n \in Nat \ {0} /\ hundredths \in Nat /\ hundredths >= 100
        /\ hundredths \div 100 = config.total /\ Node = 0 .. n - 1
    BY <1>1 DEF Node
  <2> HIDE DEF w, n, hundredths
  <2>3. w \in [0 .. n - 1 -> Nat] /\ Total(w, 0 .. n - 1) = hundredths \div 100
    BY <1>1, <2>1, <2>2, ZIPFWeights
  <2> QED
    BY <1>1, <2>2, <2>3
<1>7. CASE config.mode = "Blowball"
  <2> DEFINE n == config.nodes - 1
             hundredths == config.total * (100 - config.attackerPercent)
             z == ZIPFDistribution(n, hundredths)
             e == AttackerWeight
             at == config.attacker
             s == hundredths \div 100
  <2>1. w = Inserted(z, e, at)
    BY <1>7 DEF ConfiguredWeights
  <2>2. n \in Nat \ {0} /\ Node = 0 .. n /\ at \in 0 .. n
    BY <1>1, <1>7 DEF Node, ConfiguringPanics
  <2>3. hundredths \in Nat /\ hundredths >= 100
    BY <1>1, <1>7 DEF SharesLeft
  <2>4. e \in Nat /\ 100 * e <= config.attackerPercent * config.total
        /\ config.attackerPercent * config.total < 100 * e + 100
    <3>1. config.attackerPercent * config.total \in Nat
      BY <1>1
    <3> QED
      BY <3>1, Division DEF AttackerWeight
  <2>5. hundredths + config.attackerPercent * config.total = 100 * config.total
        /\ config.attackerPercent * config.total \in Nat
    BY <1>1
  <2>6. s \in Nat /\ 100 * s <= hundredths /\ hundredths < 100 * s + 100
    BY <2>3
  <2> HIDE DEF w, n, hundredths, z, e, at, s
  <2>7. z \in [0 .. n - 1 -> Nat] /\ Total(z, 0 .. n - 1) = s
    BY <1>1, <2>2, <2>3, ZIPFWeights DEF z, s
  <2>8. w \in [0 .. n -> Nat] /\ Total(w, 0 .. n) = s + e
    <3>1. n \in Nat
      BY <2>2
    <3>2. z \in [0 .. n - 1 -> Nat] /\ e \in Nat /\ at \in 0 .. n
      BY <2>2, <2>4, <2>7
    <3>3. Inserted(z, e, at) \in [0 .. n -> Nat]
      BY <3>1, <3>2, InsertedWeights
    <3>4. Total(Inserted(z, e, at), 0 .. n) = Total(z, 0 .. n - 1) + e
      BY <3>1, <3>2, InsertedWeights
    <3> QED
      BY <2>1, <2>7, <3>3, <3>4
  <2>9. Total(w, Node) = s + e /\ w \in [Node -> Nat]
    BY <2>2, <2>8
  <2>10. config.total - (s + e) \in 0 .. 1
    <3> DEFINE a == config.attackerPercent * config.total
               t == config.total
    <3>1. a \in Nat /\ t \in Nat /\ hundredths + a = 100 * t /\ 100 * e <= a /\ a < 100 * e + 100
      BY <1>1, <2>4, <2>5
    <3> HIDE DEF a, t
    <3>2. t - (s + e) \in 0 .. 1
      BY <2>3, <2>4, <2>6, <3>1
    <3> QED
      BY <3>2 DEF t
  <2> QED
    BY <2>9, <2>10
<1> QED
  BY <1>1, <1>5, <1>6, <1>7

-----------------------------------------------------------------------------
(* The peers *)

WeightsRight ==
    phase \notin {"configure", "panicked"} =>
        groupOf = GroupMap(HonestCount) /\ ConfiguredRight(nodeWeights)

\* The peers created so far, the first ones, and what is known of them.
PeersRight ==
    /\ \E m \in 0 .. config.nodes : DOMAIN kinds = 0 .. m - 1
    /\ phase = "configure" => DOMAIN kinds = {}
    /\ DOMAIN distribution.weights = DOMAIN kinds
    /\ \A p \in DOMAIN kinds : distribution.weights[p] = nodeWeights[p]
    /\ distribution.total = Total(nodeWeights, DOMAIN kinds)
    /\ \/ distribution.largest = 0
       \/ \E p \in DOMAIN kinds : distribution.largest = nodeWeights[p]
    /\ distribution.largest \in Nat
    /\ \A p \in DOMAIN kinds : nodeWeights[p] <= distribution.largest
    /\ \A p \in DOMAIN kinds :
           kinds[p] = IF p \in DOMAIN groupOf THEN AdversaryGroups[groupOf[p]].type ELSE "Honest"

WeightsInv == config \in Configs /\ SharesLeft /\ WeightsRight /\ PeersRight

LEMMA InitWeights == SetupInit /\ SharesLeft => WeightsInv
<1> SUFFICES ASSUME SetupInit, SharesLeft PROVE WeightsInv
  OBVIOUS
<1>1. config \in Configs /\ phase = "configure" /\ kinds = Nothing
      /\ distribution = [weights |-> Nothing, total |-> 0, largest |-> 0]
  BY DEF SetupInit
<1>2. DOMAIN kinds = {} /\ DOMAIN distribution.weights = {} /\ 0 .. 0 - 1 = {}
      /\ distribution.total = 0 /\ distribution.largest = 0
  BY <1>1 DEF Nothing
<1>3. Total(nodeWeights, {}) = 0
  BY SumEmpty
<1>4. 0 \in 0 .. config.nodes
  BY <1>1, ConfigFacts
<1>5. PeersRight
  BY <1>2, <1>3, <1>4 DEF PeersRight
<1>6. WeightsRight
  BY <1>1 DEF WeightsRight
<1> QED
  BY <1>1, <1>5, <1>6 DEF WeightsInv

LEMMA GroupSums ==
    /\ AdversaryCount = Total(GroupCount, DOMAIN GroupCount)
    /\ AdversaryPercent = Total(GroupPercent, DOMAIN GroupPercent)
  BY Zenon DEF AdversaryCount, AdversaryPercent, Sum, Total

LEMMA CountSums == \A n : CountTo(n) = Total(GroupCount, 1 .. n)
  BY Zenon DEF CountTo, Total

\* The configuration, and what is made of it alone, stay.
LEMMA SameConfig ==
    ASSUME config' = config
    PROVE  /\ Node' = Node /\ AdversaryGroups' = AdversaryGroups /\ GroupTotal' = GroupTotal
           /\ AdversaryCount' = AdversaryCount /\ HonestCount' = HonestCount
           /\ GroupMap(HonestCount)' = GroupMap(HonestCount)
           /\ \A g : Members(HonestCount, g)' = Members(HonestCount, g)
           /\ \A g : GroupWeight(g)' = GroupWeight(g)
           /\ SharesLeft' = SharesLeft
<1>1. AdversaryTypes' = AdversaryTypes /\ Node' = Node
  BY DEF AdversaryTypes, Fitting, Node
<1>2. AdversaryGroups' = AdversaryGroups /\ GroupTotal' = GroupTotal
  BY <1>1 DEF AdversaryGroups, GroupTotal, Fitting
<1>3. GroupCount' = GroupCount /\ GroupPercent' = GroupPercent
  BY <1>2 DEF GroupCount, GroupPercent
<1>4. AdversaryCount' = AdversaryCount /\ AdversaryPercent' = AdversaryPercent
  <2>1. (/\ AdversaryCount = Total(GroupCount, DOMAIN GroupCount)
         /\ AdversaryPercent = Total(GroupPercent, DOMAIN GroupPercent))'
    BY GroupSums, PTL
  <2> QED
    BY <1>3, <2>1, GroupSums
<1>5. HonestCount' = HonestCount
  BY <1>4 DEF HonestCount
<1>6. GroupMap(HonestCount)' = GroupMap(HonestCount)
  <2>1. (\A n : CountTo(n) = Total(GroupCount, 1 .. n))'
    BY CountSums, PTL
  <2>2. \A n : CountTo(n)' = CountTo(n)
    BY <1>3, <2>1, CountSums
  <2> QED
    BY <1>2, <1>4, <1>5, <2>2 DEF GroupMap
<1>7. \A g : Members(HonestCount, g)' = Members(HonestCount, g)
  BY <1>4, <1>5, <1>6 DEF Members
<1>8. \A g : GroupWeight(g)' = GroupWeight(g)
  BY <1>2 DEF GroupWeight
<1>9. SharesLeft' = SharesLeft
  BY <1>2, <1>4 DEF SharesLeft
<1> QED
  BY <1>1, <1>2, <1>4, <1>5, <1>6, <1>7, <1>8, <1>9

LEMMA SameWeights ==
    ASSUME config' = config, nodeWeights' = nodeWeights
    PROVE  ConfiguredRight(nodeWeights)' = ConfiguredRight(nodeWeights)
<1>1. Total(nodeWeights, Node)' = Total(nodeWeights, Node)
  BY SameConfig
<1> QED
  BY <1>1, SameConfig DEF ConfiguredRight

LEMMA WeightsStay ==
    ASSUME WeightsInv, UNCHANGED <<config, groupOf, kinds, distribution, nodeWeights>>,
           phase' = phase \/ (phase \notin {"configure", "panicked"} /\ phase' # "configure")
    PROVE  WeightsInv'
<1>1. /\ Node' = Node /\ AdversaryGroups' = AdversaryGroups /\ SharesLeft'
      /\ GroupMap(HonestCount)' = GroupMap(HonestCount)
      /\ ConfiguredRight(nodeWeights)' = ConfiguredRight(nodeWeights)
  BY SameConfig, SameWeights DEF WeightsInv
<1>2. WeightsRight'
  BY <1>1 DEF WeightsInv, WeightsRight
<1>3. PeersRight'
  <2>1. Total(nodeWeights, DOMAIN kinds)' = Total(nodeWeights, DOMAIN kinds)
    OBVIOUS
  <2> QED
    BY <1>1, <2>1 DEF WeightsInv, PeersRight
<1> QED
  BY <1>1, <1>2, <1>3 DEF WeightsInv

LEMMA ConfigureMakesWeights == WeightsInv /\ ConfigureNodes => WeightsInv'
<1> SUFFICES ASSUME WeightsInv, ConfigureNodes PROVE WeightsInv'
  OBVIOUS
<1>1. /\ phase = "configure" /\ config \in Configs /\ SharesLeft /\ DOMAIN kinds = {}
      /\ UNCHANGED <<config, kinds, distribution>>
  BY DEF ConfigureNodes, WeightsInv, PeersRight
<1>2. CASE ConfiguringPanics
  <2>1. phase' = "panicked" /\ UNCHANGED <<nodeWeights, groupOf>>
    BY <1>2 DEF ConfigureNodes
  <2>2. WeightsRight'
    BY <2>1 DEF WeightsRight
  <2>3. PeersRight'
    BY <1>1, <2>1, SameConfig DEF WeightsInv, PeersRight
  <2> QED
    BY <1>1, <2>2, <2>3, SameConfig DEF WeightsInv
<1>3. CASE ~ConfiguringPanics
  <2>1. /\ phase' = "create" /\ groupOf' = GroupMap(HonestCount)
        /\ nodeWeights' = ConfiguredWeights
    BY <1>3 DEF ConfigureNodes, HonestCount
  <2>2. ConfiguredRight(ConfiguredWeights)
    BY <1>1, <1>3, <2>1, AdversaryWeights, OtherWeights
  <2>3. WeightsRight'
    <3>1. ConfiguredRight(nodeWeights)'
      <4>1. Total(nodeWeights, Node)' = Total(ConfiguredWeights, Node)
        BY <1>1, <2>1, SameConfig
      <4> QED
        BY <1>1, <2>1, <2>2, <4>1, SameConfig DEF ConfiguredRight
    <3> QED
      BY <1>1, <2>1, <3>1, SameConfig DEF WeightsRight
  <2>4. PeersRight'
    <3>1. Total(nodeWeights, {}) = 0 /\ Total(nodeWeights', {}) = 0
      BY SumEmpty
    <3>2. Total(nodeWeights, DOMAIN kinds)' = 0 /\ distribution.total = 0
      BY <1>1, <3>1 DEF WeightsInv, PeersRight
    <3> QED
      BY <1>1, <2>1, <3>2 DEF WeightsInv, PeersRight
  <2> QED
    BY <1>1, <2>3, <2>4, SameConfig DEF WeightsInv
<1> QED
  BY <1>2, <1>3

LEMMA CreateKeepsWeights == WeightsInv /\ CreatePeer => WeightsInv'
<1> SUFFICES ASSUME WeightsInv, CreatePeer PROVE WeightsInv'
  OBVIOUS
<1> DEFINE i == Cardinality(DOMAIN kinds)
<1>1. /\ phase = "create" /\ i < config.nodes
      /\ UNCHANGED <<config, nodeWeights, nodeBandwidth, groupOf, wiring, neighbors, spenders>>
  BY DEF CreatePeer
<1>2. CASE i \in DOMAIN groupOf /\ groupOf[i] > Len(config.speedups)
  <2>1. phase' = "panicked" /\ UNCHANGED <<kinds, distribution>>
    BY <1>2 DEF CreatePeer
  <2> QED
    BY <1>1, <2>1, WeightsStay
<1>3. CASE ~(i \in DOMAIN groupOf /\ groupOf[i] > Len(config.speedups))
  <2> DEFINE kind == IF i \in DOMAIN groupOf THEN AdversaryGroups[groupOf[i]].type ELSE "Honest"
             w == nodeWeights[i]
  <2>1. /\ kinds' = Extend(kinds, i, kind) /\ distribution' = SetWeight(distribution, i, w)
        /\ UNCHANGED phase
    BY <1>3 DEF CreatePeer
  <2>2. PICK m \in 0 .. config.nodes : DOMAIN kinds = 0 .. m - 1
    BY DEF WeightsInv, PeersRight
  <2>3. config.nodes \in Nat /\ m \in Nat
    BY ConfigFacts DEF WeightsInv
  <2>4. i = m /\ IsFiniteSet(DOMAIN kinds)
    BY <2>2, <2>3, Domain
  <2>5. i \notin DOMAIN kinds /\ DOMAIN kinds' = DOMAIN kinds \cup {i}
        /\ DOMAIN kinds \cup {i} = 0 .. (m + 1) - 1 /\ m + 1 \in 0 .. config.nodes
        /\ DOMAIN kinds \cup {i} \subseteq Node
    <3>1. DOMAIN kinds' = DOMAIN kinds \cup {i}
      BY <2>1 DEF Extend
    <3>2. m < config.nodes
      BY <1>1, <2>4
    <3> HIDE DEF i
    <3> QED
      BY <2>2, <2>3, <2>4, <3>1, <3>2 DEF Node
  <2> HIDE DEF i
  <2>6. /\ \A p \in DOMAIN kinds : kinds'[p] = kinds[p]
        /\ kinds'[i] = kind
    BY <2>1, <2>5 DEF Extend
  <2>7. nodeWeights \in [Node -> Nat]
    BY <1>1 DEF WeightsInv, WeightsRight, ConfiguredRight
  <2>8. w \in Nat /\ \A p \in DOMAIN kinds \cup {i} : nodeWeights[p] \in Nat
    BY <2>5, <2>7
  <2>9. /\ distribution'.weights = Extend(distribution.weights, i, w)
        /\ distribution'.total = distribution.total + w
        /\ distribution'.largest = IF w > distribution.largest THEN w ELSE distribution.largest
    BY <2>1 DEF SetWeight
  <2>10. /\ DOMAIN distribution'.weights = DOMAIN kinds'
         /\ \A p \in DOMAIN kinds' : distribution'.weights[p] = nodeWeights'[p]
    BY <1>1, <2>5, <2>9 DEF WeightsInv, PeersRight, Extend
  <2>11. distribution'.total = Total(nodeWeights', DOMAIN kinds')
    <3>1. Total(nodeWeights, DOMAIN kinds \cup {i}) = Total(nodeWeights, DOMAIN kinds) + nodeWeights[i]
      BY <2>4, <2>5, <2>8, SumAdd
    <3> QED
      BY <1>1, <2>5, <2>9, <3>1 DEF WeightsInv, PeersRight
  <2>12. /\ \/ distribution.largest = 0
            \/ \E p \in DOMAIN kinds : distribution.largest = nodeWeights[p]
         /\ distribution.largest \in Nat
         /\ \A p \in DOMAIN kinds : nodeWeights[p] <= distribution.largest
    BY DEF WeightsInv, PeersRight
  <2>13. /\ \/ distribution'.largest = 0
            \/ \E p \in DOMAIN kinds' : distribution'.largest = nodeWeights'[p]
         /\ distribution'.largest \in Nat
         /\ \A p \in DOMAIN kinds' : nodeWeights'[p] <= distribution'.largest
    <3>1. nodeWeights' = nodeWeights
      BY <1>1
    <3>2. CASE w > distribution.largest
      BY <2>5, <2>8, <2>9, <2>12, <3>1, <3>2
    <3>3. CASE ~(w > distribution.largest)
      BY <2>5, <2>8, <2>9, <2>12, <3>1, <3>3
    <3> QED
      BY <3>2, <3>3
  <2>14. \A p \in DOMAIN kinds' :
            kinds'[p] = IF p \in DOMAIN groupOf' THEN AdversaryGroups'[groupOf'[p]].type ELSE "Honest"
    <3>1. groupOf' = groupOf /\ AdversaryGroups' = AdversaryGroups
      BY <1>1, SameConfig
    <3>2. \A p \in DOMAIN kinds :
             kinds[p] = IF p \in DOMAIN groupOf THEN AdversaryGroups[groupOf[p]].type ELSE "Honest"
      BY DEF WeightsInv, PeersRight
    <3> QED
      BY <2>5, <2>6, <3>1, <3>2
  <2>15. \E n \in 0 .. config'.nodes : DOMAIN kinds' = 0 .. n - 1
    BY <1>1, <2>5
  <2>16. PeersRight'
    <3>1. phase' # "configure"
      BY <1>1, <2>1
    <3> HIDE DEF w, kind
    <3> QED
      BY <2>10, <2>11, <2>13, <2>14, <2>15, <3>1 DEF PeersRight
  <2>17. WeightsRight'
    BY <1>1, <2>1, SameConfig, SameWeights DEF WeightsInv, WeightsRight
  <2> QED
    BY <1>1, <2>16, <2>17, SameConfig DEF WeightsInv
<1> QED
  BY <1>2, <1>3

LEMMA StepWeights == WeightsInv /\ [SetupNext]_setupVars => WeightsInv'
<1> SUFFICES ASSUME WeightsInv, [SetupNext]_setupVars PROVE WeightsInv'
  OBVIOUS
<1>1. ASSUME \/ Lattice
             \/ \E n \in Node : Visit(n) \/ Keep(n) \/ StartRewiring(n)
             \/ \E n \in Node, again \in BOOLEAN : Rewire(n, again)
             \/ Redraw \/ ConnectPeers \/ NameIssuers
             \/ \E p \in Node : DrawPeer(p)
             \/ SpendAccidentally \/ SpendOnPurpose \/ UNCHANGED setupVars
      PROVE  WeightsInv'
  <2>1. /\ UNCHANGED <<config, groupOf, kinds, distribution, nodeWeights>>
        /\ phase' = phase \/ (phase \notin {"configure", "panicked"} /\ phase' # "configure")
    BY <1>1 DEF Lattice, Visit, Keep, StartRewiring, Rewire, Redraw, ConnectPeers, NameIssuers,
                DrawPeer, SpendAccidentally, SpendOnPurpose, setupVars, creation
  <2> QED
    BY <2>1, WeightsStay
<1> QED
  BY <1>1, ConfigureMakesWeights, CreateKeepsWeights DEF SetupNext

LEMMA WeightsInvariance == SetupSpec /\ SharesLeft => []WeightsInv
  BY InitWeights, StepWeights, PTL DEF SetupSpec

\* Once all the peers are there: the invariant in terms of what they hold.
LEMMA AllCreated ==
    ASSUME WeightsInv, Created
    PROVE  /\ config \in Configs /\ SharesLeft /\ groupOf = GroupMap(HonestCount)
           /\ ConfiguredRight(nodeWeights)
           /\ DOMAIN kinds = Node /\ DOMAIN distribution.weights = Node
           /\ \A p \in Node : distribution.weights[p] = nodeWeights[p] /\ nodeWeights[p] \in Nat
  BY DEF WeightsInv, Created, WeightsRight, PeersRight, ConfiguredRight

\* Whatever the mode, the peers' weights are the whole weight of the
\* configuration, less one unit per adversary and one more at most, and the
\* running total and maximum of the distribution are those of the weights.
THEOREM WeightsAlwaysAddUp == SetupSpec /\ SharesLeft => []WeightsAddUp
<1>1. WeightsInv => WeightsAddUp
  <2> SUFFICES ASSUME WeightsInv, Created
               PROVE  /\ distribution.total = Sum(distribution.weights)
                      /\ distribution.largest = Largest(distribution.weights)
                      /\ config.total - distribution.total \in 0 .. AdversaryCount + 1
    BY DEF WeightsAddUp
  <2> DEFINE w == distribution.weights
             largest == distribution.largest
             S == {0} \cup {w[p] : p \in DOMAIN w}
  <2>1. /\ DOMAIN kinds = Node /\ DOMAIN w = Node /\ config \in Configs
        /\ ConfiguredRight(nodeWeights)
        /\ \A p \in Node : w[p] = nodeWeights[p] /\ nodeWeights[p] \in Nat
    BY AllCreated
  <2>2. distribution.total = Total(nodeWeights, Node)
    BY <2>1 DEF WeightsInv, PeersRight
  <2>3. Total(w, Node) = Total(nodeWeights, Node)
    <3>1. IsFiniteSet(Node)
      BY <2>1, ConfigFacts
    <3>2. \A p \in Node : w[p] \in Int /\ w[p] = nodeWeights[p]
      BY <2>1
    <3> HIDE DEF w
    <3> QED
      BY <3>1, <3>2, SumEqual
  <2>4. Sum(w) = Total(w, Node)
    BY <2>1, Zenon DEF Sum, Total
  <2>5. largest = Largest(w)
    <3>1. largest \in S /\ \A x \in S : largest >= x /\ x \in Nat
      BY <2>1 DEF WeightsInv, PeersRight
    <3> HIDE DEF S, largest, w
    <3>2. largest \in Nat /\ \A x \in S : x >= largest => x = largest
      BY <3>1
    <3>3. Max(S) = CHOOSE x \in S : \A y \in S : x >= y
      BY DEF Max
    <3>4. Max(S) = largest
      BY <3>1, <3>2, <3>3
    <3> QED
      BY <3>4 DEF Largest, S
  <2>6. config.total - Total(nodeWeights, Node) \in 0 .. AdversaryCount + 1
    BY <2>1 DEF ConfiguredRight
  <2> QED
    BY <2>2, <2>3, <2>4, <2>5, <2>6
<1> QED
  BY <1>1, WeightsInvariance, PTL

\* A group has as many nodes as it was given, all of its type, and they hold
\* its share of the total but for less than a unit each; the others are honest.
THEOREM GroupsAlwaysHoldTheirMana == SetupSpec /\ SharesLeft => []GroupsHoldTheirMana
<1>1. WeightsInv => GroupsHoldTheirMana
  <2> SUFFICES ASSUME WeightsInv, Created PROVE GroupsHoldTheirMana
    BY Zenon DEF GroupsHoldTheirMana
  <2>1. /\ config \in Configs /\ SharesLeft /\ groupOf = GroupMap(HonestCount)
        /\ ConfiguredRight(nodeWeights)
        /\ DOMAIN kinds = Node /\ DOMAIN distribution.weights = Node
        /\ \A p \in Node : distribution.weights[p] = nodeWeights[p] /\ nodeWeights[p] \in Nat
    BY AllCreated
  <2>2. /\ HonestCount \in Nat /\ AdversaryCount \in Nat /\ config.nodes \in Nat
        /\ DOMAIN groupOf = HonestCount .. (HonestCount + AdversaryCount) - 1
        /\ HonestCount + AdversaryCount = config.nodes
    <3>1. HonestCount \in Nat /\ config.nodes \in Nat
      BY <2>1, ConfigFacts DEF ConfiguredRight
    <3>2. /\ AdversaryCount \in Nat
          /\ DOMAIN GroupMap(HonestCount) = HonestCount .. (HonestCount + AdversaryCount) - 1
      BY <2>1, <3>1, GroupMapRight
    <3>3. HonestCount + AdversaryCount = config.nodes
      BY <3>1, <3>2 DEF HonestCount
    <3> QED
      BY <2>1, <3>1, <3>2, <3>3
  <2>3. DOMAIN groupOf \subseteq Node
    BY <2>2 DEF Node
  <2>4. \A p \in Node :
           kinds[p] = IF p \in DOMAIN groupOf THEN AdversaryGroups[groupOf[p]].type ELSE "Honest"
    BY <2>1 DEF WeightsInv, PeersRight
  <2>5. ASSUME NEW g \in DOMAIN AdversaryGroups
        PROVE  LET members == {p \in Node : p \in DOMAIN groupOf /\ groupOf[p] = g}
                   held == MapThenSumSet(LAMBDA p : distribution.weights[p], members)
               IN  /\ Cardinality(members) = AdversaryGroups[g].count
                   /\ \A p \in members : kinds[p] = AdversaryGroups[g].type
                   /\ 100 * held <= AdversaryGroups[g].percent * config.total
                   /\ 100 * (held + AdversaryGroups[g].count) > AdversaryGroups[g].percent * config.total
    <3> DEFINE members == {p \in Node : p \in DOMAIN groupOf /\ groupOf[p] = g}
               M == Members(HonestCount, g)
               held == Total(distribution.weights, members)
    <3>1. /\ g \in 1 .. GroupTotal /\ AdversaryGroups[g].count = GroupCount[g]
          /\ AdversaryGroups[g].percent = GroupPercent[g] /\ GroupCount[g] > 0
      BY <2>1, GroupTypes DEF SharesLeft
    <3>2. members = M
      BY <2>1, <2>2, <2>3 DEF Members
    <3>3. IsFiniteSet(M) /\ Cardinality(M) = GroupCount[g]
      BY <2>1, <2>2, <3>1, MembersRight
    <3>4. \A p \in M : nodeWeights[p] = GroupWeight(g)
      BY <2>1, <3>1 DEF ConfiguredRight
    <3>5. /\ 100 * Total(nodeWeights, M) <= GroupPercent[g] * config.total
          /\ 100 * (Total(nodeWeights, M) + GroupCount[g]) > GroupPercent[g] * config.total
      BY <2>1, <2>2, <3>1, <3>4, GroupHolds
    <3>6. Total(distribution.weights, M) = Total(nodeWeights, M)
      <4>1. \A p \in M : distribution.weights[p] \in Int /\ distribution.weights[p] = nodeWeights[p]
        BY <2>1, <3>2
      <4> HIDE DEF M
      <4> QED
        BY <3>3, <4>1, SumEqual
    <3>7. \A p \in members : kinds[p] = AdversaryGroups[g].type
      BY <2>4
    <3>8. /\ Cardinality(members) = AdversaryGroups[g].count
          /\ 100 * held <= AdversaryGroups[g].percent * config.total
          /\ 100 * (held + AdversaryGroups[g].count) > AdversaryGroups[g].percent * config.total
      <4> HIDE DEF members, M
      <4> QED
        BY <3>1, <3>2, <3>3, <3>5, <3>6
    <3>9. held = MapThenSumSet(LAMBDA p : distribution.weights[p], members)
      BY Zenon DEF Total
    <3> HIDE DEF held, members
    <3> QED
      BY <3>7, <3>8, <3>9, Zenon DEF members
  <2>6. \A p \in Node \ DOMAIN groupOf : kinds[p] = "Honest"
    BY <2>4
  <2> QED
    BY <2>5, <2>6, Zenon DEF GroupsHoldTheirMana
<1> QED
  BY <1>1, WeightsInvariance, PTL

=============================================================================
