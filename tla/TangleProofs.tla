---------------------------- MODULE TangleProofs ----------------------------
(***************************************************************************)
(* Proofs about Tangle, for any set of nodes and any DAG of messages, and, *)
(* at the end, about the metrics of Gossip, for any network.               *)
(***************************************************************************)
EXTENDS Tangle, FiniteSetTheorems, SequenceTheorems, WellFoundedInduction, TLAPS

\* The network of Gossip, of which Tangle shows how one node makes messages
\* solid: the messages, and the variables of the same name, are Tangle's.
CONSTANTS Peer, Networks
VARIABLES net, packets, panicked, storedMessageMap, confirmedMessageMap,
          undisseminated, disseminated, unconfirmed, partiallyConfirmed, fullyConfirmed

Network == INSTANCE Gossip WITH Universe <- Networks

-----------------------------------------------------------------------------
(* The stack of loops *)

\* The first loop of a stack and the ones below it hold all pending messages.
LEMMA PendingHeadTail ==
    ASSUME NEW f \in Seq(SUBSET Message), f # <<>>
    PROVE  /\ Head(f) \in SUBSET Message
           /\ Tail(f) \in Seq(SUBSET Message)
           /\ PendingIn(f) = Head(f) \cup PendingIn(Tail(f))
<1>1. Head(f) = f[1] /\ 1 \in DOMAIN f /\ Head(f) \in SUBSET Message
    OBVIOUS
<1>2. /\ Tail(f) \in Seq(SUBSET Message)
      /\ DOMAIN Tail(f) = 1 .. Len(f) - 1
      /\ \A i \in 1 .. Len(f) - 1 : Tail(f)[i] = f[i + 1]
    OBVIOUS
<1>3. DOMAIN f = 1 .. Len(f) /\ Len(f) \in Nat
    OBVIOUS
<1>4. \A i \in DOMAIN f : i = 1 \/ (i - 1 \in DOMAIN Tail(f) /\ f[i] = Tail(f)[i - 1])
    BY <1>2, <1>3
<1>5. \A i \in DOMAIN Tail(f) : i + 1 \in DOMAIN f /\ Tail(f)[i] = f[i + 1]
    BY <1>2, <1>3
<1>6. PendingIn(f) \subseteq Head(f) \cup PendingIn(Tail(f))
    BY <1>1, <1>4 DEF PendingIn
<1>7. Head(f) \subseteq PendingIn(f)
    BY <1>1 DEF PendingIn
<1>8. PendingIn(Tail(f)) \subseteq PendingIn(f)
    BY <1>5 DEF PendingIn
<1> QED BY <1>1, <1>2, <1>6, <1>7, <1>8

\* Starting a loop over s adds the members of s to the pending messages.
LEMMA PendingPush ==
    ASSUME NEW f \in Seq(SUBSET Message), NEW s \in SUBSET Message
    PROVE  /\ <<s>> \o f \in Seq(SUBSET Message)
           /\ PendingIn(<<s>> \o f) = s \cup PendingIn(f)
<1> DEFINE g == <<s>> \o f
<1>1. g \in Seq(SUBSET Message) /\ g # <<>> /\ Head(g) = s /\ Tail(g) = f
    OBVIOUS
<1> QED BY <1>1, PendingHeadTail

\* BecomeSolid starts three loops at once.
LEMMA PendingPushThree ==
    \A f, a, b, c :
        /\ f \in Seq(SUBSET Message)
        /\ a \in SUBSET Message /\ b \in SUBSET Message /\ c \in SUBSET Message
        =>
        /\ <<a, b, c>> \o f \in Seq(SUBSET Message)
        /\ PendingIn(<<a, b, c>> \o f) = a \cup b \cup c \cup PendingIn(f)
<1> SUFFICES ASSUME NEW f, NEW a, NEW b, NEW c, f \in Seq(SUBSET Message),
                    a \in SUBSET Message, b \in SUBSET Message, c \in SUBSET Message
             PROVE  /\ <<a, b, c>> \o f \in Seq(SUBSET Message)
                    /\ PendingIn(<<a, b, c>> \o f) = a \cup b \cup c \cup PendingIn(f)
    OBVIOUS
<1> DEFINE g == <<c>> \o f
           h == <<b, c>> \o f
           k == <<a, b, c>> \o f
<1>1. /\ g \in Seq(SUBSET Message)
      /\ PendingIn(g) = c \cup PendingIn(f)
    BY PendingPush
<1>2. h \in Seq(SUBSET Message) /\ h # <<>> /\ Head(h) = b /\ Tail(h) = g
    OBVIOUS
<1>3. k \in Seq(SUBSET Message) /\ k # <<>> /\ Head(k) = a /\ Tail(k) = h
    OBVIOUS
<1>4. PendingIn(h) = b \cup PendingIn(g)
    BY <1>2, PendingHeadTail
<1>5. PendingIn(k) = a \cup PendingIn(h)
    BY <1>3, PendingHeadTail
<1> QED BY <1>1, <1>3, <1>4, <1>5

-----------------------------------------------------------------------------
(* The inductive invariant *)

\* A message is only marked when all of its parents are.
SolidClosed ==
    \A n \in Node : solid[n] \subseteq stored[n] /\ PastClosed(solid[n])

\* Loops run only while a message is being processed, over stored messages.
LoopsRunForCurrent ==
    \A n \in Node :
        /\ Idle(n) => frames[n] = <<>>
        /\ ~Idle(n) => current[n] \in stored[n]
        /\ Pending(n) \subseteq stored[n]

\* What could become solid is still going to be visited.
NothingLeftBehind ==
    \A n \in Node : \A m \in stored[n] \ solid[n] :
        ParentsSolid(n, m) => m \in Pending(n)

\* Whoever has been visited has requested its missing parents.
VisitedHaveRequested ==
    \A n \in Node : \A m \in stored[n] :
        m \in Pending(n) \/ MissingParents(n, m) \subseteq requested[n]

\* Only the request for the message being processed may be out of date.
RequestsHaveReason ==
    \A n \in Node : \A p \in requested[n] :
        /\ \E m \in stored[n] : p \in Parents(m)
        /\ p \in stored[n] => p = current[n]

\* A colour is computed once and stays what the parents' colours make it.
ColorsLocal ==
    \A n \in Node : \A m \in solid[n] : color[n][m] = InheritedColor(n, m)

IInv ==
    /\ SolidClosed
    /\ LoopsRunForCurrent
    /\ NothingLeftBehind
    /\ VisitedHaveRequested
    /\ RequestsHaveReason
    /\ ColorsLocal
    /\ ColorsAgree

-----------------------------------------------------------------------------
(* Facts about the messages *)

\* What TypeOK and the assumptions on the DAG give about parents.
LEMMA ParentFacts ==
    ASSUME TypeOK, NEW m \in Message
    PROVE  /\ Strong(m) \subseteq Parents(m)
           /\ Parents(m) \subseteq Message
           /\ \A p \in Parents(m) : p \in Nat /\ m \in Nat /\ p < m
           /\ m # Genesis
<1>1. issued \in [Message -> Content]
    BY DEF TypeOK
<1>2. \A p \in issued[m].strong \cup issued[m].weak : p < m
    BY DEF TypeOK
<1>3. issued[m] \in Content
    BY <1>1
<1>4. issued[m].strong \subseteq Message \cup {Genesis}
      /\ issued[m].weak \subseteq Message \cup {Genesis}
    BY <1>3 DEF Content
<1> QED BY <1>2, <1>4, MessageAssumption DEF Parents, Strong, Weak, Genesis

\* Booking yields a colour or UndefinedColor.
LEMMA InheritedColorType ==
    ASSUME TypeOK, NEW n \in Node, NEW m \in Message
    PROVE  InheritedColor(n, m) \in Colors
<1>1. issued[m].payload \in Colors
    <2>1. issued[m] \in Content
        BY DEF TypeOK
    <2> QED BY <2>1 DEF Content
<1>2. \A p \in Strong(m) : color[n][p] \in Colors
    BY ParentFacts DEF TypeOK
<1>3. ColorsMeeting(n, m) \subseteq Color
    BY <1>1, <1>2 DEF ColorsMeeting, Colors
<1>4. CASE ColorsMeeting(n, m) = {} \/ Conflicting(n, m)
    BY <1>4 DEF InheritedColor, Colors
<1>5. CASE ~(ColorsMeeting(n, m) = {} \/ Conflicting(n, m))
    <2>1. \E c \in Color : c \in ColorsMeeting(n, m)
        BY <1>3, <1>5
    <2>2. (CHOOSE c \in Color : c \in ColorsMeeting(n, m)) \in Color
        BY <2>1
    <2> QED BY <1>5, <2>2 DEF InheritedColor, Colors
<1> QED BY <1>4, <1>5

-----------------------------------------------------------------------------
(* Type correctness *)

LEMMA TypeOK_Store ==
    ASSUME TypeOK, NEW n \in Node, NEW m \in Message, Store(n, m)
    PROVE  TypeOK'
<1>1. <<{m}>> \in Seq(SUBSET Message)
    OBVIOUS
<1> QED BY <1>1 DEF TypeOK, Store

LEMMA TypeOK_BecomeSolid ==
    ASSUME TypeOK, NEW n \in Node, NEW m \in Message, BecomeSolid(n, m)
    PROVE  TypeOK'
<1> DEFINE f == frames[n]
<1>1. f \in Seq(SUBSET Message) /\ f # <<>>
    BY DEF TypeOK, BecomeSolid
<1>2. Head(f) \in SUBSET Message /\ Tail(f) \in Seq(SUBSET Message)
    BY <1>1, PendingHeadTail
<1>3. /\ StrongChildren(n, m) \in SUBSET Message
      /\ WeakChildren(n, m) \in SUBSET Message
      /\ Head(f) \ {m} \in SUBSET Message
    BY <1>2 DEF TypeOK, StrongChildren, WeakChildren
<1>4. <<StrongChildren(n, m), WeakChildren(n, m), Head(f) \ {m}>> \o Tail(f)
        \in Seq(SUBSET Message)
    BY <1>2, <1>3, PendingPushThree
<1>5. frames' \in [Node -> Seq(SUBSET Message)]
    BY <1>4 DEF TypeOK, BecomeSolid
<1>6. InheritedColor(n, m) \in Colors
    BY InheritedColorType
<1>7. color' \in [Node -> [Message -> Colors]]
    BY <1>6 DEF TypeOK, BecomeSolid
<1>8. solid' \in [Node -> SUBSET Message]
    BY DEF TypeOK, BecomeSolid
<1> QED BY <1>5, <1>7, <1>8 DEF TypeOK, BecomeSolid

LEMMA TypeOK_NotYetSolid ==
    ASSUME TypeOK, NEW n \in Node, NEW m \in Message, NotYetSolid(n, m)
    PROVE  TypeOK'
<1> DEFINE f == frames[n]
<1>1. f \in Seq(SUBSET Message) /\ f # <<>>
    BY DEF TypeOK, NotYetSolid
<1>2. Head(f) \in SUBSET Message /\ Tail(f) \in Seq(SUBSET Message)
    BY <1>1, PendingHeadTail
<1>3. <<Head(f) \ {m}>> \o Tail(f) \in Seq(SUBSET Message)
    BY <1>2, PendingPush
<1>4. frames' \in [Node -> Seq(SUBSET Message)]
    BY <1>3 DEF TypeOK, NotYetSolid
<1>5. requested' \in [Node -> SUBSET Message]
    BY ParentFacts DEF TypeOK, NotYetSolid, MissingParents
<1> QED BY <1>4, <1>5 DEF TypeOK, NotYetSolid

LEMMA TypeOK_LoopEnds ==
    ASSUME TypeOK, NEW n \in Node, LoopEnds(n)
    PROVE  TypeOK'
<1>1. frames[n] \in Seq(SUBSET Message) /\ frames[n] # <<>>
    BY DEF TypeOK, LoopEnds
<1>2. Tail(frames[n]) \in Seq(SUBSET Message)
    BY <1>1, PendingHeadTail
<1> QED BY <1>2 DEF TypeOK, LoopEnds

LEMMA TypeOK_StopRequest ==
    ASSUME TypeOK, NEW n \in Node, StopRequest(n)
    PROVE  TypeOK'
BY DEF TypeOK, StopRequest

LEMMA TypeOK_Init == Init => TypeOK
BY UniverseAssumption DEF Init, TypeOK, Colors

LEMMA TypeOK_Next == TypeOK /\ [Next]_vars => TypeOK'
<1> SUFFICES ASSUME TypeOK, [Next]_vars PROVE TypeOK'
    OBVIOUS
<1>1. CASE UNCHANGED vars
    BY <1>1 DEF TypeOK, vars
<1>2. CASE Next
    <2>1. PICK n \in Node :
            \/ \E m \in Message :
                   Store(n, m) \/ BecomeSolid(n, m) \/ NotYetSolid(n, m)
            \/ LoopEnds(n)
            \/ StopRequest(n)
        BY <1>2 DEF Next
    <2> QED
        BY <2>1, TypeOK_Store, TypeOK_BecomeSolid, TypeOK_NotYetSolid,
           TypeOK_LoopEnds, TypeOK_StopRequest
<1> QED BY <1>1, <1>2

\* The state of every node keeps its shape: stored, solid and requested hold
\* messages only (never Genesis), and Solidify's stack holds loops over messages.
THEOREM TypeCorrect == Spec => []TypeOK
<1>1. Init => TypeOK
    BY TypeOK_Init
<1>2. TypeOK /\ [Next]_vars => TypeOK'
    BY TypeOK_Next
<1> QED BY <1>1, <1>2, PTL DEF Spec

-----------------------------------------------------------------------------
(* Preservation of the inductive invariant, action by action *)

LEMMA IInv_Init == Init => IInv
<1> SUFFICES ASSUME Init PROVE IInv
    OBVIOUS
<1> USE DEF Init
<1>1. \A n \in Node : Pending(n) = {}
    BY DEF Pending, PendingIn
<1>2. SolidClosed
    BY DEF SolidClosed, PastClosed
<1>3. LoopsRunForCurrent
    BY <1>1 DEF LoopsRunForCurrent, Idle
<1>4. NothingLeftBehind /\ VisitedHaveRequested /\ RequestsHaveReason
    BY DEF NothingLeftBehind, VisitedHaveRequested, RequestsHaveReason
<1>5. ColorsLocal /\ ColorsAgree
    BY DEF ColorsLocal, ColorsAgree
<1> QED BY <1>2, <1>3, <1>4, <1>5 DEF IInv

\* The inherited colour only depends on the colours of the strong parents.
LEMMA InheritedColorLocal ==
    ASSUME NEW n1 \in Node, NEW n2 \in Node, NEW m \in Message,
           \A p \in Strong(m) : color[n1][p] = color[n2][p]
    PROVE  InheritedColor(n1, m) = InheritedColor(n2, m)
<1>1. ColorsMeeting(n1, m) = ColorsMeeting(n2, m)
    BY DEF ColorsMeeting
<1> QED BY <1>1 DEF InheritedColor, Conflicting

\* A step that leaves the colours of the strong parents alone leaves the
\* inherited colour alone.
LEMMA InheritedColorStable ==
    ASSUME NEW n \in Node, NEW m \in Message, issued' = issued,
           \A p \in Strong(m) : color'[n][p] = color[n][p]
    PROVE  InheritedColor(n, m)' = InheritedColor(n, m)
<1>1. Strong(m)' = Strong(m)
    BY DEF Strong
<1>2. ColorsMeeting(n, m)' = ColorsMeeting(n, m)
    BY <1>1 DEF ColorsMeeting
<1> QED BY <1>2 DEF InheritedColor, Conflicting

LEMMA IInv_Store ==
    ASSUME TypeOK, IInv, NEW n \in Node, NEW m \in Message, Store(n, m)
    PROVE  IInv'
<1> USE DEF IInv
<1>1. \A x \in Message : Parents(x)' = Parents(x) /\ Strong(x)' = Strong(x)
    BY DEF Store, Parents, Strong, Weak
<1>2. /\ \A k \in Node \ {n} : /\ stored'[k] = stored[k]
                              /\ Pending(k)' = Pending(k)
                              /\ current'[k] = current[k]
                              /\ frames'[k] = frames[k]
      /\ stored'[n] = stored[n] \cup {m}
      /\ current'[n] = m
      /\ frames'[n] = <<{m}>>
      /\ solid' = solid /\ color' = color /\ requested' = requested
    BY DEF Store, TypeOK, Pending
<1>3. Pending(n)' = {m} /\ Pending(n) = {}
    <2>1. Pending(n)' = {m}
        BY <1>2 DEF Pending, PendingIn
    <2>2. frames[n] = <<>>
        BY DEF Store, LoopsRunForCurrent
    <2> QED BY <2>1, <2>2 DEF Pending, PendingIn
<1>4. \A k \in Node : stored[k] \subseteq Message /\ solid[k] \subseteq Message
    BY DEF TypeOK
<1>5. SolidClosed'
    BY <1>1, <1>2, <1>4 DEF SolidClosed, PastClosed
<1>6. LoopsRunForCurrent'
    BY <1>2, <1>3, ParentFacts DEF LoopsRunForCurrent, Idle
<1>7. NothingLeftBehind'
    BY <1>1, <1>2, <1>3, <1>4 DEF NothingLeftBehind, ParentsSolid
<1>8. VisitedHaveRequested'
    BY <1>1, <1>2, <1>3, <1>4 DEF VisitedHaveRequested, MissingParents
<1>9. RequestsHaveReason'
    <2>1. \A p \in requested[n] : p \notin stored[n]
        BY <1>4, ParentFacts DEF RequestsHaveReason, Store, Idle
    <2>2. \A k \in Node : \A x \in stored[k] : x \in stored'[k] /\ Parents(x)' = Parents(x)
        BY <1>1, <1>2, <1>4
    <2>3. ASSUME NEW k \in Node, NEW p \in requested[k]
          PROVE  \E x \in stored'[k] : p \in Parents(x)'
        BY <2>2 DEF RequestsHaveReason
    <2>4. ASSUME NEW k \in Node, NEW p \in requested[k], p \in stored'[k]
          PROVE  p = current'[k]
        BY <1>2, <2>1, <2>4 DEF RequestsHaveReason
    <2> QED BY <1>2, <2>3, <2>4 DEF RequestsHaveReason
<1>10. ColorsLocal'
    BY <1>2, <1>4, InheritedColorStable DEF ColorsLocal, Store
<1>11. ColorsAgree'
    BY <1>2 DEF ColorsAgree
<1> QED BY <1>5, <1>6, <1>7, <1>8, <1>9, <1>10, <1>11

LEMMA IInv_BecomeSolid ==
    ASSUME TypeOK, IInv, NEW n \in Node, NEW m \in Message, BecomeSolid(n, m)
    PROVE  IInv'
<1> USE DEF IInv
<1> DEFINE f == frames[n]
<1>1. \A x \in Message : Parents(x)' = Parents(x) /\ Strong(x)' = Strong(x)
    BY DEF BecomeSolid, Parents, Strong, Weak
<1>2. /\ \A k \in Node \ {n} : /\ solid'[k] = solid[k]
                              /\ Pending(k)' = Pending(k)
                              /\ color'[k] = color[k]
                              /\ frames'[k] = frames[k]
      /\ solid'[n] = solid[n] \cup {m}
      /\ color'[n] = [color[n] EXCEPT ![m] = InheritedColor(n, m)]
      /\ frames'[n] = <<StrongChildren(n, m), WeakChildren(n, m), Head(f) \ {m}>> \o Tail(f)
      /\ stored' = stored /\ current' = current /\ requested' = requested
    BY DEF BecomeSolid, TypeOK, Pending
<1>3. \A k \in Node : stored[k] \subseteq Message /\ solid[k] \subseteq Message
    BY DEF TypeOK
<1>4. /\ f \in Seq(SUBSET Message) /\ f # <<>>
      /\ m \in Head(f) /\ m \notin solid[n] /\ Parents(m) \subseteq solid[n]
    BY DEF TypeOK, BecomeSolid, ParentsSolid
<1>5. /\ Pending(n) = Head(f) \cup PendingIn(Tail(f))
      /\ Pending(n)' = StrongChildren(n, m) \cup WeakChildren(n, m)
                          \cup (Head(f) \ {m}) \cup PendingIn(Tail(f))
    <2>1. /\ Head(f) \in SUBSET Message /\ Tail(f) \in Seq(SUBSET Message)
          /\ Pending(n) = Head(f) \cup PendingIn(Tail(f))
        BY <1>4, PendingHeadTail DEF Pending
    <2> DEFINE strong == StrongChildren(n, m)
               weak == WeakChildren(n, m)
               rest == Head(f) \ {m}
               below == Tail(f)
    <2>2. /\ strong \in SUBSET Message /\ weak \in SUBSET Message
          /\ rest \in SUBSET Message /\ below \in Seq(SUBSET Message)
        BY <1>3, <2>1 DEF StrongChildren, WeakChildren
    <2>3. Pending(n)' = PendingIn(<<strong, weak, rest>> \o below)
        BY <1>2 DEF Pending
    <2>4. PendingIn(<<strong, weak, rest>> \o below)
            = strong \cup weak \cup rest \cup PendingIn(below)
        <3> HIDE DEF strong, weak, rest, below
        <3> QED BY <2>2, PendingPushThree
    <2> QED BY <2>1, <2>3, <2>4
<1>6. m \in stored[n] /\ Pending(n) \subseteq stored[n]
    BY <1>4, <1>5 DEF LoopsRunForCurrent
<1>7. \A c \in stored[n] : m \in Parents(c) => c \in Pending(n)'
    BY <1>5 DEF StrongChildren, WeakChildren, Parents
<1>8. Pending(n) \subseteq Pending(n)' \cup {m}
    BY <1>5
<1>9. SolidClosed'
    BY <1>1, <1>2, <1>3, <1>4, <1>6 DEF SolidClosed, PastClosed
<1>10. LoopsRunForCurrent'
    <2>1. Pending(n)' \subseteq stored[n]
        BY <1>5, <1>6 DEF StrongChildren, WeakChildren
    <2>2. ~Idle(n)
        BY <1>4 DEF LoopsRunForCurrent
    <2>3. \A k \in Node : Idle(k)' = Idle(k)
        BY <1>2 DEF Idle
    <2> QED BY <1>2, <2>1, <2>2, <2>3 DEF LoopsRunForCurrent
<1>11. NothingLeftBehind'
    <2> SUFFICES ASSUME NEW k \in Node, NEW x \in stored[k] \ solid'[k],
                        Parents(x) \subseteq solid'[k]
                 PROVE  x \in Pending(k)'
        BY <1>1, <1>2, <1>3 DEF NothingLeftBehind, ParentsSolid
    <2>1. CASE k # n
        BY <1>2, <2>1 DEF NothingLeftBehind, ParentsSolid
    <2>2. CASE k = n /\ m \in Parents(x)
        BY <1>7, <2>2
    <2>3. CASE k = n /\ m \notin Parents(x)
        BY <1>2, <1>8, <2>3 DEF NothingLeftBehind, ParentsSolid
    <2> QED BY <2>1, <2>2, <2>3
<1>12. VisitedHaveRequested'
    <2>1. MissingParents(n, m) = {}
        BY <1>4 DEF MissingParents, SolidClosed
    <2>2. \A k \in Node : \A x \in stored[k] : MissingParents(k, x)' = MissingParents(k, x)
        BY <1>1, <1>2, <1>3 DEF MissingParents
    <2> QED BY <1>2, <1>8, <2>1, <2>2 DEF VisitedHaveRequested
<1>13. RequestsHaveReason'
    BY <1>1, <1>2, <1>3 DEF RequestsHaveReason
<1>14. \A k \in Node : \A x \in solid[k] : color'[k][x] = color[k][x]
    BY <1>2, <1>3, <1>4 DEF TypeOK
<1>15. color'[n][m] = InheritedColor(n, m)
    BY <1>2 DEF TypeOK
<1>16. Strong(m) \subseteq solid[n]
    BY <1>4, ParentFacts
<1>17. ColorsLocal'
    <2>1. \A k \in Node : \A x \in solid[k] : Strong(x) \subseteq solid[k]
        BY <1>3, ParentFacts DEF SolidClosed, PastClosed
    <2>2. \A k \in Node : \A x \in solid[k] : InheritedColor(k, x)' = InheritedColor(k, x)
        BY <1>3, <1>14, <2>1, InheritedColorStable DEF BecomeSolid
    <2>3. InheritedColor(n, m)' = InheritedColor(n, m)
        BY <1>14, <1>16, InheritedColorStable DEF BecomeSolid
    <2> SUFFICES ASSUME NEW k \in Node, NEW x \in solid'[k]
                 PROVE  color'[k][x] = InheritedColor(k, x)'
        BY DEF ColorsLocal
    <2>4. CASE x \in solid[k]
        BY <1>14, <2>2, <2>4 DEF ColorsLocal
    <2>5. CASE x \notin solid[k]
        <3>1. k = n /\ x = m
            BY <1>2, <2>5
        <3> QED BY <1>15, <2>3, <3>1
    <2> QED BY <2>4, <2>5
<1>18. ColorsAgree'
    <2>1. ASSUME NEW k \in Node, m \in solid[k]
          PROVE  color'[k][m] = color'[n][m]
        <3>1. Strong(m) \subseteq solid[k]
            BY <2>1, ParentFacts DEF SolidClosed, PastClosed
        <3>2. \A p \in Strong(m) : color[k][p] = color[n][p]
            BY <1>16, <3>1 DEF ColorsAgree
        <3>3. InheritedColor(k, m) = InheritedColor(n, m)
            BY <3>2, InheritedColorLocal
        <3> QED BY <1>14, <1>15, <2>1, <3>3 DEF ColorsLocal
    <2> SUFFICES ASSUME NEW k1 \in Node, NEW k2 \in Node,
                        NEW x \in solid'[k1] \cap solid'[k2]
                 PROVE  color'[k1][x] = color'[k2][x]
        BY DEF ColorsAgree
    <2>2. CASE x \in solid[k1] /\ x \in solid[k2]
        BY <1>14, <2>2 DEF ColorsAgree
    <2>3. CASE x \notin solid[k1]
        <3>1. k1 = n /\ x = m
            BY <1>2, <2>3
        <3>2. k2 = n \/ m \in solid[k2]
            BY <1>2, <3>1
        <3> QED BY <2>1, <3>1, <3>2
    <2>4. CASE x \notin solid[k2]
        <3>1. k2 = n /\ x = m
            BY <1>2, <2>4
        <3>2. k1 = n \/ m \in solid[k1]
            BY <1>2, <3>1
        <3> QED BY <2>1, <3>1, <3>2
    <2> QED BY <2>2, <2>3, <2>4
<1> QED BY <1>9, <1>10, <1>11, <1>12, <1>13, <1>17, <1>18

LEMMA IInv_NotYetSolid ==
    ASSUME TypeOK, IInv, NEW n \in Node, NEW m \in Message, NotYetSolid(n, m)
    PROVE  IInv'
<1> USE DEF IInv
<1> DEFINE f == frames[n]
<1>1. \A x \in Message : Parents(x)' = Parents(x) /\ Strong(x)' = Strong(x)
    BY DEF NotYetSolid, Parents, Strong, Weak
<1>2. /\ \A k \in Node \ {n} : /\ requested'[k] = requested[k]
                              /\ Pending(k)' = Pending(k)
                              /\ frames'[k] = frames[k]
      /\ requested'[n] = requested[n] \cup MissingParents(n, m)
      /\ frames'[n] = <<Head(f) \ {m}>> \o Tail(f)
      /\ stored' = stored /\ solid' = solid /\ color' = color /\ current' = current
    BY DEF NotYetSolid, TypeOK, Pending
<1>3. \A k \in Node : stored[k] \subseteq Message /\ solid[k] \subseteq Message
    BY DEF TypeOK
<1>4. f \in Seq(SUBSET Message) /\ f # <<>> /\ m \in Head(f)
    BY DEF TypeOK, NotYetSolid
<1>5. /\ Pending(n) = Head(f) \cup PendingIn(Tail(f))
      /\ Pending(n)' = (Head(f) \ {m}) \cup PendingIn(Tail(f))
    <2>1. /\ Head(f) \in SUBSET Message /\ Tail(f) \in Seq(SUBSET Message)
          /\ Pending(n) = Head(f) \cup PendingIn(Tail(f))
        BY <1>4, PendingHeadTail DEF Pending
    <2>2. Pending(n)' = PendingIn(frames'[n])
        BY DEF Pending
    <2>3. PendingIn(<<Head(f) \ {m}>> \o Tail(f)) = (Head(f) \ {m}) \cup PendingIn(Tail(f))
        BY <2>1, PendingPush
    <2> HIDE DEF f
    <2> QED BY <1>2, <2>1, <2>2, <2>3
<1>6. m \in stored[n] /\ Pending(n)' \subseteq Pending(n) /\ Pending(n) \subseteq Pending(n)' \cup {m}
    BY <1>4, <1>5 DEF LoopsRunForCurrent
<1>7. SolidClosed'
    BY <1>1, <1>2, <1>3 DEF SolidClosed, PastClosed
<1>8. LoopsRunForCurrent'
    <2>1. ~Idle(n)
        BY <1>4 DEF LoopsRunForCurrent
    <2>2. \A k \in Node : Idle(k)' = Idle(k)
        BY <1>2 DEF Idle
    <2> QED BY <1>2, <1>6, <2>1, <2>2 DEF LoopsRunForCurrent
<1>9. NothingLeftBehind'
    <2>1. ~(Parents(m) \subseteq solid[n]) \/ m \in solid[n]
        BY DEF NotYetSolid, ParentsSolid
    <2>2. \A k \in Node : \A x \in stored[k] : Parents(x)' = Parents(x)
        BY <1>1, <1>3
    <2> QED BY <1>2, <1>6, <2>1, <2>2 DEF NothingLeftBehind, ParentsSolid
<1>10. VisitedHaveRequested'
    <2>1. \A k \in Node : \A x \in stored[k] : MissingParents(k, x)' = MissingParents(k, x)
        BY <1>1, <1>2, <1>3 DEF MissingParents
    <2> QED BY <1>2, <1>6, <2>1 DEF VisitedHaveRequested
<1>11. RequestsHaveReason'
    <2>1. \A p \in MissingParents(n, m) : p \in Parents(m) /\ p \notin stored[n]
        BY DEF MissingParents
    <2>2. \A k \in Node : \A x \in stored[k] : Parents(x)' = Parents(x)
        BY <1>1, <1>3
    <2> QED BY <1>2, <1>6, <2>1, <2>2 DEF RequestsHaveReason
<1>12. ColorsLocal'
    BY <1>2, <1>3, InheritedColorStable DEF ColorsLocal, NotYetSolid
<1>13. ColorsAgree'
    BY <1>2 DEF ColorsAgree
<1> QED BY <1>7, <1>8, <1>9, <1>10, <1>11, <1>12, <1>13

LEMMA IInv_LoopEnds ==
    ASSUME TypeOK, IInv, NEW n \in Node, LoopEnds(n)
    PROVE  IInv'
<1> USE DEF IInv
<1>1. \A x \in Message : Parents(x)' = Parents(x) /\ Strong(x)' = Strong(x)
    BY DEF LoopEnds, Parents, Strong, Weak
<1>2. /\ \A k \in Node \ {n} : frames'[k] = frames[k]
      /\ frames'[n] = Tail(frames[n])
      /\ stored' = stored /\ solid' = solid /\ color' = color
      /\ requested' = requested /\ current' = current
    BY DEF LoopEnds, TypeOK
<1>3. \A k \in Node : stored[k] \subseteq Message /\ solid[k] \subseteq Message
    BY DEF TypeOK
<1>4. frames[n] \in Seq(SUBSET Message) /\ frames[n] # <<>> /\ Head(frames[n]) = {}
    BY DEF TypeOK, LoopEnds
<1>5. \A k \in Node : Pending(k)' = Pending(k)
    BY <1>2, <1>4, PendingHeadTail DEF Pending
<1>6. SolidClosed'
    BY <1>1, <1>2, <1>3 DEF SolidClosed, PastClosed
<1>7. LoopsRunForCurrent'
    <2>1. ~Idle(n)
        BY <1>4 DEF LoopsRunForCurrent
    <2>2. \A k \in Node : Idle(k)' = Idle(k)
        BY <1>2 DEF Idle
    <2> QED BY <1>2, <1>5, <2>1, <2>2 DEF LoopsRunForCurrent
<1>8. NothingLeftBehind'
    BY <1>1, <1>2, <1>3, <1>5 DEF NothingLeftBehind, ParentsSolid
<1>9. VisitedHaveRequested'
    BY <1>1, <1>2, <1>3, <1>5 DEF VisitedHaveRequested, MissingParents
<1>10. RequestsHaveReason'
    BY <1>1, <1>2, <1>3 DEF RequestsHaveReason
<1>11. ColorsLocal'
    BY <1>2, <1>3, InheritedColorStable DEF ColorsLocal, LoopEnds
<1>12. ColorsAgree'
    BY <1>2 DEF ColorsAgree
<1> QED BY <1>6, <1>7, <1>8, <1>9, <1>10, <1>11, <1>12

LEMMA IInv_StopRequest ==
    ASSUME TypeOK, IInv, NEW n \in Node, StopRequest(n)
    PROVE  IInv'
<1> USE DEF IInv
<1>1. \A x \in Message : Parents(x)' = Parents(x) /\ Strong(x)' = Strong(x)
    BY DEF StopRequest, Parents, Strong, Weak
<1>2. /\ \A k \in Node \ {n} : requested'[k] = requested[k] /\ current'[k] = current[k]
      /\ requested'[n] = requested[n] \ {current[n]}
      /\ current'[n] = Genesis
      /\ stored' = stored /\ solid' = solid /\ color' = color /\ frames' = frames
    BY DEF StopRequest, TypeOK
<1>3. \A k \in Node : stored[k] \subseteq Message /\ solid[k] \subseteq Message
    BY DEF TypeOK
<1>4. \A k \in Node : Pending(k)' = Pending(k)
    BY <1>2 DEF Pending
<1>5. frames[n] = <<>> /\ current[n] \in stored[n]
    BY DEF StopRequest, LoopsRunForCurrent
<1>6. SolidClosed'
    BY <1>1, <1>2, <1>3 DEF SolidClosed, PastClosed
<1>7. LoopsRunForCurrent'
    BY <1>2, <1>4, <1>5 DEF LoopsRunForCurrent, Idle
<1>8. NothingLeftBehind'
    BY <1>1, <1>2, <1>3, <1>4 DEF NothingLeftBehind, ParentsSolid
<1>9. VisitedHaveRequested'
    BY <1>1, <1>2, <1>3, <1>4, <1>5 DEF VisitedHaveRequested, MissingParents
<1>10. RequestsHaveReason'
    <2>1. \A k \in Node : requested'[k] \subseteq requested[k]
        BY <1>2
    <2>2. \A p \in requested'[n] : p \notin stored[n]
        BY <1>2 DEF RequestsHaveReason
    <2> QED BY <1>1, <1>2, <1>3, <2>1, <2>2 DEF RequestsHaveReason
<1>11. ColorsLocal'
    BY <1>2, <1>3, InheritedColorStable DEF ColorsLocal, StopRequest
<1>12. ColorsAgree'
    BY <1>2 DEF ColorsAgree
<1> QED BY <1>6, <1>7, <1>8, <1>9, <1>10, <1>11, <1>12

LEMMA IInv_Stutter ==
    ASSUME TypeOK, IInv, UNCHANGED vars
    PROVE  IInv'
<1> USE DEF IInv, vars
<1>1. \A x \in Message : Parents(x)' = Parents(x) /\ Strong(x)' = Strong(x)
    BY DEF Parents, Strong, Weak
<1>2. \A k \in Node : stored[k] \subseteq Message /\ solid[k] \subseteq Message
    BY DEF TypeOK
<1>3. \A k \in Node : Pending(k)' = Pending(k) /\ Idle(k)' = Idle(k)
    BY DEF Pending, Idle
<1>4. SolidClosed' /\ LoopsRunForCurrent'
    BY <1>1, <1>2, <1>3 DEF SolidClosed, PastClosed, LoopsRunForCurrent
<1>5. NothingLeftBehind' /\ VisitedHaveRequested' /\ RequestsHaveReason'
    BY <1>1, <1>2, <1>3 DEF NothingLeftBehind, ParentsSolid, VisitedHaveRequested,
                            MissingParents, RequestsHaveReason
<1>6. ColorsLocal' /\ ColorsAgree'
    BY <1>2, InheritedColorStable DEF ColorsLocal, ColorsAgree
<1> QED BY <1>4, <1>5, <1>6

LEMMA IInv_Next == TypeOK /\ IInv /\ [Next]_vars => IInv'
<1> SUFFICES ASSUME TypeOK, IInv, [Next]_vars PROVE IInv'
    OBVIOUS
<1>1. CASE UNCHANGED vars
    BY <1>1, IInv_Stutter
<1>2. CASE Next
    <2>1. PICK n \in Node :
            \/ \E m \in Message :
                   Store(n, m) \/ BecomeSolid(n, m) \/ NotYetSolid(n, m)
            \/ LoopEnds(n)
            \/ StopRequest(n)
        BY <1>2 DEF Next
    <2> QED
        BY <2>1, IInv_Store, IInv_BecomeSolid, IInv_NotYetSolid,
           IInv_LoopEnds, IInv_StopRequest
<1> QED BY <1>1, <1>2

LEMMA Invariance == Spec => [](TypeOK /\ IInv)
<1>1. Init => TypeOK /\ IInv
    BY TypeOK_Init, IInv_Init
<1>2. TypeOK /\ IInv /\ [Next]_vars => TypeOK' /\ IInv'
    BY TypeOK_Next, IInv_Next
<1> QED BY <1>1, <1>2, PTL DEF Spec

-----------------------------------------------------------------------------
(* The properties of Tangle *)

\* Any set of messages has an earliest one, because identifiers are numbers.
LEMMA EarliestMessage ==
    ASSUME NEW T \in SUBSET Message, T # {}
    PROVE  \E x \in T : \A y \in T : ~(y < x)
<1>1. T \subseteq Nat
    BY MessageAssumption
<1>2. PICK x \in T : \A y \in T : ~(<<y, x>> \in OpToRel(<, Nat))
    BY <1>1, NatLessThanWellFounded, WFMin
<1> QED BY <1>1, <1>2 DEF OpToRel

LEMMA SolidIffConeStored_Holds == TypeOK /\ IInv => SolidIffConeStored
<1> SUFFICES ASSUME TypeOK, IInv, NEW n \in Node, Idle(n), NEW m \in stored[n]
             PROVE  m \in solid[n] <=>
                        \E S \in SUBSET stored[n] : m \in S /\ PastClosed(S)
    BY DEF SolidIffConeStored
<1> USE DEF IInv
<1>1. stored[n] \subseteq Message
    BY DEF TypeOK
<1>2. Pending(n) = {}
    BY DEF LoopsRunForCurrent, Pending, PendingIn
<1>3. ASSUME m \in solid[n]
      PROVE  \E S \in SUBSET stored[n] : m \in S /\ PastClosed(S)
    BY <1>3 DEF SolidClosed
<1>4. ASSUME NEW S \in SUBSET stored[n], m \in S, PastClosed(S), m \notin solid[n]
      PROVE  FALSE
    <2>1. PICK x \in S \ solid[n] : \A y \in S \ solid[n] : ~(y < x)
        BY <1>1, <1>4, EarliestMessage
    <2>2. Parents(x) \subseteq S /\ \A p \in Parents(x) : p < x
        BY <1>1, <1>4, <2>1, ParentFacts DEF PastClosed
    <2>3. Parents(x) \subseteq solid[n]
        BY <2>1, <2>2
    <2> QED BY <1>2, <2>1, <2>3 DEF NothingLeftBehind, ParentsSolid
<1> QED BY <1>3, <1>4

LEMMA RequestsAreWanted_Holds == TypeOK /\ IInv => RequestsAreWanted
<1> SUFFICES ASSUME TypeOK, IInv, NEW n \in Node, Idle(n)
             PROVE  requested[n] = UNION {MissingParents(n, m) : m \in stored[n]}
    BY DEF RequestsAreWanted
<1> USE DEF IInv
<1>1. Pending(n) = {}
    BY DEF LoopsRunForCurrent, Pending, PendingIn
<1>2. requested[n] \subseteq Message
    BY DEF TypeOK
<1>3. \A p \in requested[n] : p \notin stored[n]
    BY <1>2, MessageAssumption DEF RequestsHaveReason, Idle, Genesis
<1>4. \A p \in requested[n] : \E m \in stored[n] : p \in MissingParents(n, m)
    BY <1>3 DEF RequestsHaveReason, MissingParents
<1>5. \A m \in stored[n] : MissingParents(n, m) \subseteq requested[n]
    BY <1>1 DEF VisitedHaveRequested
<1> QED BY <1>4, <1>5

LEMMA NoSilentStall_Holds == TypeOK /\ IInv => NoSilentStall
<1> SUFFICES ASSUME TypeOK, IInv, NEW n \in Node, Idle(n),
                    NEW m \in stored[n] \ solid[n], NEW S \in SUBSET Message,
                    m \in S, PastClosed(S)
             PROVE  \E p \in S : p \in requested[n] /\ p \notin stored[n]
    BY DEF NoSilentStall
<1> USE DEF IInv
<1> DEFINE T == S \cap (stored[n] \ solid[n])
<1>1. Pending(n) = {}
    BY DEF LoopsRunForCurrent, Pending, PendingIn
<1>2. PICK x \in T : \A y \in T : ~(y < x)
    BY EarliestMessage
<1>3. Parents(x) \subseteq S /\ \A p \in Parents(x) : p < x
    BY <1>2, ParentFacts DEF PastClosed
<1>4. PICK p \in Parents(x) : p \notin solid[n]
    BY <1>1, <1>2 DEF NothingLeftBehind, ParentsSolid
<1>5. p \notin stored[n]
    BY <1>2, <1>3, <1>4
<1>6. p \in requested[n]
    BY <1>1, <1>2, <1>4, <1>5 DEF VisitedHaveRequested, MissingParents
<1> QED BY <1>3, <1>4, <1>5, <1>6

\* Between two messages a node holds as solid exactly the messages whose whole
\* past cone it has stored, for every DAG and every order of arrival.
THEOREM SolidIsConeStored == Spec => []SolidIffConeStored
BY Invariance, SolidIffConeStored_Holds, PTL

\* Between two messages the Requester asks for exactly the missing parents of
\* the stored messages: no missing parent is forgotten, no request is left over.
THEOREM RequestsExact == Spec => []RequestsAreWanted
BY Invariance, RequestsAreWanted_Holds, PTL

\* A stored message that is not solid has a missing ancestor, however deep in
\* its past cone, that the Requester is asking for.
THEOREM StallsAreRequested == Spec => []NoSilentStall
BY Invariance, NoSilentStall_Holds, PTL

\* Nodes that booked the same message agree on its colour, at every moment and
\* for every order in which the messages reached them.
THEOREM ColorAgreement == Spec => []ColorsAgree
<1>1. IInv => ColorsAgree
    BY DEF IInv
<1> QED BY <1>1, Invariance, PTL

-----------------------------------------------------------------------------
(* The metrics of the network *)

\* What Gossip assumes of a network.
NetworkAssumption ==
    Network!MessageAssumption /\ Network!PeerAssumption /\ Network!UniverseAssumption

\* Network counts with the operators of FiniteSets.
LEMMA SameFinite == \A S : Network!IsFiniteSet(S) <=> IsFiniteSet(S)
  BY DEF Network!IsFiniteSet, IsFiniteSet

LEMMA SameCardinality == \A S : Network!Cardinality(S) = Cardinality(S)
  BY SameFinite, Zenon DEF Network!Cardinality, Cardinality

\* Where each message is stored, as far as that has been counted, and where it
\* is confirmed.
StoredAt ==
    [m \in Message |-> {n \in Peer : m \in stored[n] /\ current[n] # m}]
ConfirmedAt ==
    [m \in Message |-> {n \in Peer : m \in Network!Confirmed(stored[n])}]

\* The messages that are at some peers and not at all, or at all; those of M
\* that are nowhere, or everywhere.
AtSome(At) == {m \in Message : At[m] \notin {{}, Peer}}
AtAll(At) == {m \in Message : At[m] = Peer}
NewIn(M, At) == {m \in M : At[m] = {}}
DoneIn(M, At) == {m \in M : At[m] = Peer}

Counted ==
    /\ \A m \in Message :
           /\ storedMessageMap[m] = Cardinality(StoredAt[m])
           /\ confirmedMessageMap[m] = Cardinality(ConfirmedAt[m])
    /\ \A i \in Peer :
           /\ undisseminated[i] = Network!By(i, AtSome(StoredAt))
           /\ disseminated[i] = Network!By(i, AtAll(StoredAt))
           /\ partiallyConfirmed[i] = Network!By(i, AtSome(ConfirmedAt))
           /\ fullyConfirmed[i] = Network!By(i, AtAll(ConfirmedAt))
           /\ unconfirmed[i] + partiallyConfirmed[i] + fullyConfirmed[i]
                  = undisseminated[i] + disseminated[i]

PeersShape ==
    /\ net \in Networks
    /\ stored \in [Peer -> SUBSET Message]
    /\ current \in [Peer -> Message \cup {Genesis}]
    /\ \A n \in Peer : current[n] # Genesis => current[n] \in stored[n]
    /\ {storedMessageMap, confirmedMessageMap} \subseteq [Message -> Int]
    /\ {undisseminated, disseminated, unconfirmed, partiallyConfirmed, fullyConfirmed}
           \subseteq [Peer -> Int]

MetricsInv == PeersShape /\ Counted

LEMMA CountedHolds == Counted => Network!MetricsAgree
<1> SUFFICES ASSUME Counted PROVE Network!MetricsAgree
  OBVIOUS
<1>1. \A m \in Message :
         /\ StoredAt[m] = {n \in Peer : m \in stored[n] /\ current[n] # m}
         /\ ConfirmedAt[m] = {n \in Peer : m \in Network!Confirmed(stored[n])}
  BY DEF StoredAt, ConfirmedAt
<1>2. /\ AtSome(StoredAt) = {m \in Message : {n \in Peer : m \in stored[n] /\ current[n] # m} \notin {{}, Peer}}
      /\ AtAll(StoredAt) = {m \in Message : {n \in Peer : m \in stored[n] /\ current[n] # m} = Peer}
      /\ AtSome(ConfirmedAt) = {m \in Message : {n \in Peer : m \in Network!Confirmed(stored[n])} \notin {{}, Peer}}
      /\ AtAll(ConfirmedAt) = {m \in Message : {n \in Peer : m \in Network!Confirmed(stored[n])} = Peer}
  BY <1>1 DEF AtSome, AtAll
<1> QED
  BY <1>1, <1>2, SameCardinality DEF Counted, Network!MetricsAgree

\* Messages counted by issuer.
LEMMA ByParts ==
    ASSUME Network!MessageAssumption, NEW i, NEW S \in SUBSET Message, NEW T \in SUBSET Message
    PROVE  /\ Network!By(i, S) \in Nat
           /\ S \cap T = {} => Network!By(i, S \cup T) = Network!By(i, S) + Network!By(i, T)
           /\ T \subseteq S => Network!By(i, S \ T) = Network!By(i, S) - Network!By(i, T)
<1> DEFINE Of(M) == {m \in M : net.issuer[m] = i}
<1>1. IsFiniteSet(Of(S)) /\ IsFiniteSet(Of(T))
  <2>1. Of(S) \in SUBSET Message /\ Of(T) \in SUBSET Message
    OBVIOUS
  <2>2. IsFiniteSet(Message)
    BY SameFinite DEF Network!MessageAssumption
  <2> HIDE DEF Of
  <2> QED
    BY <2>1, <2>2, FS_Subset
<1>2. \A M : Network!By(i, M) = Cardinality(Of(M))
  BY SameCardinality, Zenon DEF Network!By
<1>3. /\ Of(S \cup T) = Of(S) \cup Of(T) /\ Of(S \ T) = Of(S) \ Of(T)
      /\ S \cap T = {} => Of(S) \cap Of(T) = {}
      /\ T \subseteq S => Of(S) \cap Of(T) = Of(T)
  OBVIOUS
<1> HIDE DEF Of
<1>4. Cardinality(Of(S)) \in Nat /\ Cardinality(Of(T)) \in Nat
  BY <1>1, FS_CardinalityType
<1>5. Cardinality(Of(S) \cup Of(T)) = Cardinality(Of(S)) + Cardinality(Of(T)) - Cardinality(Of(S) \cap Of(T))
  BY <1>1, FS_Union
<1>6. Cardinality(Of(S) \ Of(T)) = Cardinality(Of(S)) - Cardinality(Of(S) \cap Of(T))
  BY <1>1, FS_Difference
<1>7. Cardinality({}) = 0
  BY FS_EmptySet
<1>8. ASSUME S \cap T = {} PROVE Network!By(i, S \cup T) = Network!By(i, S) + Network!By(i, T)
  <2>1. Cardinality(Of(S) \cap Of(T)) = 0
    BY <1>3, <1>7, <1>8
  <2>2. Cardinality(Of(S \cup T)) = Cardinality(Of(S) \cup Of(T))
    BY <1>3, Zenon
  <2> QED
    BY <1>2, <1>4, <1>5, <2>1, <2>2
<1>9. ASSUME T \subseteq S PROVE Network!By(i, S \ T) = Network!By(i, S) - Network!By(i, T)
  <2>1. /\ Cardinality(Of(S \ T)) = Cardinality(Of(S) \ Of(T))
        /\ Cardinality(Of(S) \cap Of(T)) = Cardinality(Of(T))
    BY <1>3, <1>9, Zenon
  <2> QED
    BY <1>2, <1>4, <1>6, <2>1
<1> QED
  BY <1>2, <1>4, <1>8, <1>9

\* When the messages M come to one more peer, those that were nowhere are new
\* at some peers, and those that are everywhere then leave them.
LEMMA OnePeerMore ==
    ASSUME Network!MessageAssumption, Network!PeerAssumption, NEW n \in Peer,
           NEW A \in [Message -> SUBSET Peer], NEW B \in [Message -> SUBSET Peer],
           NEW M \in SUBSET Message,
           \A m \in Message : B[m] = IF m \in M THEN A[m] \cup {n} ELSE A[m],
           \A m \in M : n \notin A[m],
           NEW i
    PROVE  /\ Network!By(i, AtSome(B))
                = (Network!By(i, AtSome(A)) + Network!By(i, NewIn(M, A))) - Network!By(i, DoneIn(M, B))
           /\ Network!By(i, AtAll(B)) = Network!By(i, AtAll(A)) + Network!By(i, DoneIn(M, B))
           /\ Network!By(i, NewIn(M, A)) \in Nat /\ Network!By(i, DoneIn(M, B)) \in Nat
<1> DEFINE first == NewIn(M, A)
           last == DoneIn(M, B)
<1>1. /\ AtSome(B) = (AtSome(A) \cup first) \ last
      /\ AtSome(A) \cap first = {} /\ last \subseteq AtSome(A) \cup first
      /\ AtAll(B) = AtAll(A) \cup last /\ AtAll(A) \cap last = {}
  BY DEF AtSome, AtAll, NewIn, DoneIn
<1>2. /\ AtSome(A) \in SUBSET Message /\ AtAll(A) \in SUBSET Message
      /\ first \in SUBSET Message /\ last \in SUBSET Message
      /\ AtSome(A) \cup first \in SUBSET Message
  BY DEF AtSome, AtAll, NewIn, DoneIn
<1> HIDE DEF first, last
<1>3. \A S \in SUBSET Message : Network!By(i, S) \in Nat
  BY ByParts
<1>4. Network!By(i, AtSome(A) \cup first) = Network!By(i, AtSome(A)) + Network!By(i, first)
  BY <1>1, <1>2, ByParts
<1>5. Network!By(i, (AtSome(A) \cup first) \ last)
        = Network!By(i, AtSome(A) \cup first) - Network!By(i, last)
  <2> DEFINE T == AtSome(A) \cup first
  <2>1. T \in SUBSET Message /\ last \in SUBSET Message /\ last \subseteq T
    BY <1>1, <1>2
  <2> HIDE DEF T
  <2>2. Network!By(i, T \ last) = Network!By(i, T) - Network!By(i, last)
    BY <2>1, ByParts
  <2> QED
    BY <2>2 DEF T
<1>6. Network!By(i, AtAll(A) \cup last) = Network!By(i, AtAll(A)) + Network!By(i, last)
  BY <1>1, <1>2, ByParts
<1>7. Network!By(i, AtSome(B))
        = (Network!By(i, AtSome(A)) + Network!By(i, first)) - Network!By(i, last)
  BY <1>1, <1>4, <1>5
<1>8. Network!By(i, AtAll(B)) = Network!By(i, AtAll(A)) + Network!By(i, last)
  BY <1>1, <1>6
<1> QED
  BY <1>2, <1>3, <1>7, <1>8 DEF first, last

\* The number of peers, one more.
LEMMA PeersCount ==
    ASSUME Network!PeerAssumption, NEW S \in SUBSET Peer, NEW n \in Peer, n \notin S
    PROVE  /\ Cardinality(S) \in Nat /\ Cardinality(S \cup {n}) = Cardinality(S) + 1
           /\ Cardinality(S) + 1 = 1 <=> S = {}
           /\ Cardinality(S) = 0 <=> S = {}
           /\ Cardinality(S) + 1 = Network!NodesCount <=> S \cup {n} = Peer
<1>1. IsFiniteSet(Peer) /\ IsFiniteSet(S) /\ S \cup {n} \in SUBSET Peer
  <2>1. IsFiniteSet(Peer)
    BY SameFinite DEF Network!PeerAssumption
  <2> QED
    BY <2>1, FS_Subset
<1>2. Cardinality(S) \in Nat /\ Cardinality(S \cup {n}) = Cardinality(S) + 1
  BY <1>1, FS_AddElement, FS_CardinalityType
<1>3. Cardinality(S) = 0 <=> S = {}
  BY <1>1, FS_EmptySet
<1>4. Cardinality(S \cup {n}) = Cardinality(Peer) <=> S \cup {n} = Peer
  BY <1>1, FS_Subset
<1>5. Network!NodesCount = Cardinality(Peer)
  BY SameCardinality DEF Network!NodesCount
<1> QED
  BY <1>2, <1>3, <1>4, <1>5

\* What is confirmed was stored before, and stays confirmed.
LEMMA ConfirmedGrows ==
    ASSUME NEW S \in SUBSET Message, NEW T \in SUBSET Message, S \subseteq T
    PROVE  Network!Confirmed(S) \subseteq Network!Confirmed(T) /\ Network!Confirmed(S) \subseteq S
  BY DEF Network!Confirmed, Network!Solid

LEMMA ConfirmedNext ==
    ASSUME net' = net
    PROVE  ConfirmedAt' = [m \in Message |-> {n \in Peer : m \in Network!Confirmed(stored'[n])}]
  BY DEF ConfirmedAt, Network!Confirmed, Network!Solid, Network!Cone

LEMMA AtTypes ==
    StoredAt \in [Message -> SUBSET Peer] /\ ConfirmedAt \in [Message -> SUBSET Peer]
  BY DEF StoredAt, ConfirmedAt

LEMMA InitMetrics == NetworkAssumption /\ Network!Init => MetricsInv
<1> SUFFICES ASSUME NetworkAssumption, Network!Init PROVE MetricsInv
  OBVIOUS
<1>1. PeersShape
  BY DEF Network!Init, PeersShape, Network!NoMessage, Genesis
<1>2. \A S \in SUBSET Message : Network!Confirmed({}) = {}
  BY DEF Network!Confirmed, Network!Solid
<1>3. /\ \A m \in Message : StoredAt[m] = {} /\ ConfirmedAt[m] = {}
      /\ Peer # {}
  BY <1>2 DEF Network!Init, StoredAt, ConfirmedAt, NetworkAssumption, Network!PeerAssumption
<1>4. /\ AtSome(StoredAt) = {} /\ AtAll(StoredAt) = {}
      /\ AtSome(ConfirmedAt) = {} /\ AtAll(ConfirmedAt) = {}
  BY <1>3 DEF AtSome, AtAll
<1>5. \A i : Network!By(i, {}) = 0
  <2> TAKE i
  <2>1. {m \in {} : net.issuer[m] = i} = {}
    OBVIOUS
  <2>2. Cardinality({m \in {} : net.issuer[m] = i}) = 0
    BY <2>1, FS_EmptySet
  <2> QED
    BY <2>2, SameCardinality, Zenon DEF Network!By
<1>6. Counted
  BY <1>3, <1>4, <1>5, FS_EmptySet DEF Counted, Network!Init
<1> QED
  BY <1>1, <1>6 DEF MetricsInv

\* Steps that change neither what is stored nor what is counted.
LEMMA MetricsStay ==
    ASSUME MetricsInv, UNCHANGED <<net, stored, current, Network!metrics>>
    PROVE  MetricsInv'
<1>1. PeersShape'
  BY DEF MetricsInv, PeersShape, Network!metrics
<1>2. StoredAt' = StoredAt
  BY DEF StoredAt
<1>3. ConfirmedAt' = ConfirmedAt
  BY ConfirmedNext DEF ConfirmedAt
<1>4. \A i, M : Network!By(i, M)' = Network!By(i, M)
  BY DEF Network!By
<1>5. Counted'
  <2>1. /\ AtSome(StoredAt)' = AtSome(StoredAt) /\ AtAll(StoredAt)' = AtAll(StoredAt)
        /\ AtSome(ConfirmedAt)' = AtSome(ConfirmedAt) /\ AtAll(ConfirmedAt)' = AtAll(ConfirmedAt)
    BY <1>2, <1>3 DEF AtSome, AtAll
  <2> QED
    BY <1>2, <1>3, <1>4, <2>1 DEF MetricsInv, Counted, Network!By, Network!metrics
<1> QED
  BY <1>1, <1>5 DEF MetricsInv

\* Another message stored confirms messages at one more peer.
LEMMA ProcessKeepsMetrics ==
    ASSUME NetworkAssumption, MetricsInv, NEW n \in Peer, NEW m \in Message, NEW rest,
           current[n] = Genesis, Network!ProcessMessage(n, m, rest)
    PROVE  MetricsInv'
<1> DEFINE S == stored[n] \cup {m}
           M == Network!Confirmed(S) \ Network!Confirmed(stored[n])
           first == {k \in M : confirmedMessageMap[k] = 0}
           last == Network!Last(M)
<1>1. /\ m \notin stored[n] /\ stored' = [stored EXCEPT ![n] = S]
      /\ current' = [current EXCEPT ![n] = m]
      /\ net' = net /\ UNCHANGED <<storedMessageMap, undisseminated, disseminated>>
      /\ Network!CountConfirmed(M)
  BY DEF Network!ProcessMessage
<1>2. stored \in [Peer -> SUBSET Message] /\ current \in [Peer -> Message \cup {Genesis}]
  BY DEF MetricsInv, PeersShape
<1>3. S \in SUBSET Message /\ M \in SUBSET Message /\ Genesis \notin Message
  <2>1. S \in SUBSET Message
    BY <1>2
  <2>2. Network!Confirmed(S) \subseteq S
    BY <2>1, ConfirmedGrows
  <2> QED
    BY <2>1, <2>2, MessageAssumption DEF Genesis
<1>4. StoredAt' = StoredAt
  <2>1. \A k \in Message, x \in Peer :
           k \in stored'[x] /\ current'[x] # k <=> k \in stored[x] /\ current[x] # k
    BY <1>1, <1>2, <1>3
  <2> QED
    BY <2>1 DEF StoredAt
<1>5. /\ \A k \in Message : ConfirmedAt'[k] = IF k \in M THEN ConfirmedAt[k] \cup {n} ELSE ConfirmedAt[k]
      /\ \A k \in M : n \notin ConfirmedAt[k]
  <2>1. \A k \in Message : ConfirmedAt'[k] = {x \in Peer : k \in Network!Confirmed(stored'[x])}
    BY <1>1, ConfirmedNext
  <2>2. \A x \in Peer : stored'[x] = IF x = n THEN S ELSE stored[x]
    BY <1>1, <1>2
  <2>3. \A k : k \in Network!Confirmed(S) <=> k \in M \/ k \in Network!Confirmed(stored[n])
    BY <1>2, <1>3, ConfirmedGrows
  <2>4. \A k \in Message : ConfirmedAt[k] = {x \in Peer : k \in Network!Confirmed(stored[x])}
    BY DEF ConfirmedAt
  <2>5. \A k \in M : k \notin Network!Confirmed(stored[n])
    OBVIOUS
  <2> HIDE DEF S, M
  <2>6. \A k \in Message, x \in Peer :
           k \in Network!Confirmed(stored'[x]) <=> k \in Network!Confirmed(stored[x]) \/ (x = n /\ k \in M)
    BY <2>2, <2>3
  <2>7. ASSUME NEW k \in Message
        PROVE  ConfirmedAt'[k] = IF k \in M THEN ConfirmedAt[k] \cup {n} ELSE ConfirmedAt[k]
    <3>1. \A x \in Peer : x \in ConfirmedAt'[k] <=> x \in ConfirmedAt[k] \/ (x = n /\ k \in M)
      BY <2>1, <2>4, <2>6
    <3>2. ConfirmedAt'[k] \subseteq Peer /\ ConfirmedAt[k] \subseteq Peer
      BY <2>1, <2>4
    <3> QED
      BY <3>1, <3>2
  <2>8. \A k \in M : n \notin ConfirmedAt[k]
    BY <1>3, <2>4, <2>5
  <2> QED
    BY <2>7, <2>8
<1>6. ConfirmedAt \in [Message -> SUBSET Peer] /\ ConfirmedAt' \in [Message -> SUBSET Peer]
  BY <1>1, ConfirmedNext, AtTypes
<1> HIDE DEF M, S
<1>7. \A k \in Message : confirmedMessageMap[k] = Cardinality(ConfirmedAt[k]) /\ ConfirmedAt[k] \in SUBSET Peer
  BY <1>6 DEF MetricsInv, Counted
<1>8. \A k \in M : /\ confirmedMessageMap[k] = 0 <=> ConfirmedAt[k] = {}
                   /\ confirmedMessageMap[k] + 1 = Network!NodesCount <=> ConfirmedAt'[k] = Peer
                   /\ confirmedMessageMap[k] + 1 = Cardinality(ConfirmedAt'[k])
  <2> TAKE k \in M
  <2> k \in Message /\ ConfirmedAt[k] \in SUBSET Peer /\ n \notin ConfirmedAt[k]
    BY <1>3, <1>5, <1>7
  <2>1. confirmedMessageMap[k] = Cardinality(ConfirmedAt[k]) /\ ConfirmedAt'[k] = ConfirmedAt[k] \cup {n}
    BY <1>5, <1>7
  <2>2. Network!PeerAssumption
    BY DEF NetworkAssumption
  <2> DEFINE A == ConfirmedAt[k]
  <2> HIDE DEF A
  <2>3. A \in SUBSET Peer /\ n \notin A
    BY DEF A
  <2>4. /\ Cardinality(A \cup {n}) = Cardinality(A) + 1
        /\ Cardinality(A) = 0 <=> A = {}
        /\ Cardinality(A) + 1 = Network!NodesCount <=> A \cup {n} = Peer
    BY <2>2, <2>3, PeersCount
  <2>5. confirmedMessageMap[k] = Cardinality(A) /\ ConfirmedAt'[k] = A \cup {n}
    BY <2>1 DEF A
  <2> QED
    BY <2>4, <2>5 DEF A
<1>9. first = NewIn(M, ConfirmedAt) /\ last = DoneIn(M, ConfirmedAt')
  BY <1>8 DEF Network!Last, NewIn, DoneIn
<1>10. /\ confirmedMessageMap' = [k \in Message |-> confirmedMessageMap[k] + (IF k \in M THEN 1 ELSE 0)]
       /\ unconfirmed' = [i \in Peer |-> unconfirmed[i] - Network!By(i, first)]
       /\ partiallyConfirmed' = [i \in Peer |-> partiallyConfirmed[i] + Network!By(i, first) - Network!By(i, last)]
       /\ fullyConfirmed' = [i \in Peer |-> fullyConfirmed[i] + Network!By(i, last)]
  BY <1>1 DEF Network!CountConfirmed
<1> HIDE DEF first, last
<1>11. \A i :
         /\ Network!By(i, AtSome(ConfirmedAt'))
              = (Network!By(i, AtSome(ConfirmedAt)) + Network!By(i, first)) - Network!By(i, last)
         /\ Network!By(i, AtAll(ConfirmedAt')) = Network!By(i, AtAll(ConfirmedAt)) + Network!By(i, last)
         /\ Network!By(i, first) \in Nat /\ Network!By(i, last) \in Nat
  <2> DEFINE A == ConfirmedAt
             B == ConfirmedAt'
  <2>1. A \in [Message -> SUBSET Peer] /\ B \in [Message -> SUBSET Peer]
    BY <1>6
  <2>2. /\ \A k \in Message : B[k] = IF k \in M THEN A[k] \cup {n} ELSE A[k]
        /\ \A k \in M : n \notin A[k]
    BY <1>5
  <2>3. first = NewIn(M, A) /\ last = DoneIn(M, B)
    BY <1>9
  <2>4. Network!MessageAssumption /\ Network!PeerAssumption
    BY DEF NetworkAssumption
  <2> HIDE DEF A, B
  <2>5. \A i :
          /\ Network!By(i, AtSome(B))
               = (Network!By(i, AtSome(A)) + Network!By(i, NewIn(M, A))) - Network!By(i, DoneIn(M, B))
          /\ Network!By(i, AtAll(B)) = Network!By(i, AtAll(A)) + Network!By(i, DoneIn(M, B))
          /\ Network!By(i, NewIn(M, A)) \in Nat /\ Network!By(i, DoneIn(M, B)) \in Nat
    BY <1>3, <2>1, <2>2, <2>4, OnePeerMore
  <2> QED
    BY <2>3, <2>5 DEF A, B
<1>12. \A i, T : Network!By(i, T)' = Network!By(i, T)
  BY <1>1 DEF Network!By
<1>13. PeersShape'
  <2>1. \A i : Network!By(i, first) \in Nat /\ Network!By(i, last) \in Nat
    BY <1>11
  <2>2. \A x \in Peer : current'[x] # Genesis => current'[x] \in stored'[x]
    BY <1>1, <1>2 DEF MetricsInv, PeersShape, S
  <2>3. stored' \in [Peer -> SUBSET Message] /\ current' \in [Peer -> Message \cup {Genesis}]
    BY <1>1, <1>2, <1>3
  <2>4. /\ unconfirmed' \in [Peer -> Int] /\ partiallyConfirmed' \in [Peer -> Int]
        /\ fullyConfirmed' \in [Peer -> Int] /\ confirmedMessageMap' \in [Message -> Int]
    BY <1>10, <2>1 DEF MetricsInv, PeersShape
  <2> QED
    BY <1>1, <2>2, <2>3, <2>4 DEF MetricsInv, PeersShape
<1>14. Counted'
  <2>1. \A k \in Message : /\ storedMessageMap'[k] = Cardinality(StoredAt'[k])
                           /\ confirmedMessageMap'[k] = Cardinality(ConfirmedAt'[k])
    <3> TAKE k \in Message
    <3>1. storedMessageMap'[k] = Cardinality(StoredAt'[k])
      BY <1>1, <1>4 DEF MetricsInv, Counted
    <3>2. confirmedMessageMap[k] \in Int
      BY DEF MetricsInv, PeersShape
    <3>3. confirmedMessageMap'[k] = Cardinality(ConfirmedAt'[k])
      <4>1. CASE k \in M
        <5>1. confirmedMessageMap'[k] = confirmedMessageMap[k] + 1
          BY <1>10, <4>1
        <5> QED
          BY <1>8, <4>1, <5>1
      <4>2. CASE k \notin M
        <5>1. confirmedMessageMap'[k] = confirmedMessageMap[k] + 0 /\ ConfirmedAt'[k] = ConfirmedAt[k]
          BY <1>5, <1>10, <4>2
        <5> QED
          BY <1>7, <3>2, <5>1
      <4> QED
        BY <4>1, <4>2
    <3> QED
      BY <3>1, <3>3
  <2>2. ASSUME NEW i \in Peer
        PROVE  /\ undisseminated'[i] = Network!By(i, AtSome(StoredAt'))
               /\ disseminated'[i] = Network!By(i, AtAll(StoredAt'))
               /\ partiallyConfirmed'[i] = Network!By(i, AtSome(ConfirmedAt'))
               /\ fullyConfirmed'[i] = Network!By(i, AtAll(ConfirmedAt'))
               /\ (unconfirmed'[i] + partiallyConfirmed'[i]) + fullyConfirmed'[i]
                      = undisseminated'[i] + disseminated'[i]
    <3> DEFINE f == Network!By(i, first)
               l == Network!By(i, last)
    <3>1. /\ undisseminated[i] = Network!By(i, AtSome(StoredAt))
          /\ disseminated[i] = Network!By(i, AtAll(StoredAt))
          /\ partiallyConfirmed[i] = Network!By(i, AtSome(ConfirmedAt))
          /\ fullyConfirmed[i] = Network!By(i, AtAll(ConfirmedAt))
          /\ (unconfirmed[i] + partiallyConfirmed[i]) + fullyConfirmed[i]
                 = undisseminated[i] + disseminated[i]
      BY DEF MetricsInv, Counted
    <3>2. /\ unconfirmed'[i] = unconfirmed[i] - f
          /\ partiallyConfirmed'[i] = partiallyConfirmed[i] + f - l
          /\ fullyConfirmed'[i] = fullyConfirmed[i] + l
          /\ undisseminated'[i] = undisseminated[i] /\ disseminated'[i] = disseminated[i]
      BY <1>1, <1>10
    <3>3. f \in Nat /\ l \in Nat /\ unconfirmed[i] \in Int /\ partiallyConfirmed[i] \in Int
          /\ fullyConfirmed[i] \in Int /\ undisseminated[i] \in Int /\ disseminated[i] \in Int
      BY <1>11 DEF MetricsInv, PeersShape
    <3>4. /\ Network!By(i, AtSome(ConfirmedAt')) = (partiallyConfirmed[i] + f) - l
          /\ Network!By(i, AtAll(ConfirmedAt')) = fullyConfirmed[i] + l
      BY <1>11, <3>1, <3>3
    <3> HIDE DEF f, l
    <3>5. (unconfirmed'[i] + partiallyConfirmed'[i]) + fullyConfirmed'[i]
            = undisseminated'[i] + disseminated'[i]
      BY <3>1, <3>2, <3>3
    <3>6. partiallyConfirmed'[i] = (partiallyConfirmed[i] + f) - l
      BY <3>2, <3>3
    <3> QED
      BY <1>4, <3>1, <3>2, <3>4, <3>5, <3>6
  <2>3. \A i : /\ Network!By(i, AtSome(StoredAt))' = Network!By(i, AtSome(StoredAt'))
              /\ Network!By(i, AtAll(StoredAt))' = Network!By(i, AtAll(StoredAt'))
              /\ Network!By(i, AtSome(ConfirmedAt))' = Network!By(i, AtSome(ConfirmedAt'))
              /\ Network!By(i, AtAll(ConfirmedAt))' = Network!By(i, AtAll(ConfirmedAt'))
    BY <1>1 DEF Network!By, AtSome, AtAll
  <2> QED
    BY <2>1, <2>2, <2>3 DEF Counted
<1> QED
  BY <1>13, <1>14 DEF MetricsInv

\* One message, counted by issuer.
LEMMA ByOne ==
    ASSUME NEW i, NEW k, NEW S, S \subseteq {k}
    PROVE  Network!By(i, S) = IF S # {} /\ net.issuer[k] = i THEN 1 ELSE 0
<1> DEFINE T == {m \in S : net.issuer[m] = i}
<1>1. T = IF S # {} /\ net.issuer[k] = i THEN {k} ELSE {}
  OBVIOUS
<1> HIDE DEF T
<1>2. Cardinality(T) = IF S # {} /\ net.issuer[k] = i THEN 1 ELSE 0
  BY <1>1, FS_EmptySet, FS_Singleton
<1>3. Network!By(i, S) = Cardinality(T)
  BY SameCardinality, Zenon DEF Network!By, T
<1> QED
  BY <1>2, <1>3

\* A message whose handlers are done is counted as stored by one more peer.
LEMMA FinishKeepsMetrics ==
    ASSUME NetworkAssumption, MetricsInv, NEW n \in Peer, Network!FinishStored(n)
    PROVE  MetricsInv'
<1> DEFINE k == current[n]
           j == net.issuer[k]
           count == storedMessageMap[k] + 1
           first == IF count = 1 THEN 1 ELSE 0
           last == IF count = Network!NodesCount THEN 1 ELSE 0
<1>1. /\ current[n] # Genesis /\ current' = [current EXCEPT ![n] = Genesis]
      /\ Network!CountStored(k)
      /\ UNCHANGED <<net, stored, confirmedMessageMap, partiallyConfirmed, fullyConfirmed>>
  BY DEF Network!FinishStored, Network!NoMessage, Genesis
<1>2. stored \in [Peer -> SUBSET Message] /\ current \in [Peer -> Message \cup {Genesis}]
  BY DEF MetricsInv, PeersShape
<1>3. k \in Message /\ k \in stored[n] /\ j \in Peer /\ Genesis \notin Message
  <2>1. k \in Message /\ k \in stored[n]
    BY <1>1, <1>2 DEF MetricsInv, PeersShape
  <2>2. net.issuer \in [Message -> Peer]
    BY DEF MetricsInv, PeersShape, NetworkAssumption, Network!UniverseAssumption
  <2> QED
    BY <2>1, <2>2, MessageAssumption DEF Genesis
<1>4. ConfirmedAt' = ConfirmedAt
  BY <1>1, ConfirmedNext DEF ConfirmedAt
<1>5. /\ \A m \in Message : StoredAt'[m] = IF m \in {k} THEN StoredAt[m] \cup {n} ELSE StoredAt[m]
      /\ \A m \in {k} : n \notin StoredAt[m]
  <2>1. \A m \in Message : /\ StoredAt'[m] = {x \in Peer : m \in stored'[x] /\ current'[x] # m}
                           /\ StoredAt[m] = {x \in Peer : m \in stored[x] /\ current[x] # m}
    BY DEF StoredAt
  <2>2. \A m \in Message, x \in Peer :
           m \in stored'[x] /\ current'[x] # m
             <=> (m \in stored[x] /\ current[x] # m) \/ (x = n /\ m = k)
    BY <1>1, <1>2, <1>3
  <2> HIDE DEF k
  <2>3. ASSUME NEW m \in Message
        PROVE  StoredAt'[m] = IF m \in {k} THEN StoredAt[m] \cup {n} ELSE StoredAt[m]
    <3>1. \A x \in Peer : x \in StoredAt'[m] <=> x \in StoredAt[m] \/ (x = n /\ m = k)
      BY <2>1, <2>2
    <3>2. StoredAt'[m] \subseteq Peer /\ StoredAt[m] \subseteq Peer
      BY <2>1
    <3> QED
      BY <3>1, <3>2
  <2> QED
    BY <1>3, <2>1, <2>3 DEF k
<1>6. StoredAt \in [Message -> SUBSET Peer] /\ StoredAt' \in [Message -> SUBSET Peer]
  <2>1. StoredAt' \in [Message -> SUBSET Peer]
    BY DEF StoredAt
  <2> QED
    BY <2>1, AtTypes
<1>7. /\ storedMessageMap' = [storedMessageMap EXCEPT ![k] = count]
      /\ unconfirmed' = [unconfirmed EXCEPT ![j] = @ + first]
      /\ undisseminated' = [undisseminated EXCEPT ![j] = @ + (first - last)]
      /\ disseminated' = [disseminated EXCEPT ![j] = @ + last]
  BY <1>1 DEF Network!CountStored, Network!Plus
<1>8. /\ storedMessageMap[k] \in Int /\ count = Cardinality(StoredAt'[k])
      /\ count = 1 <=> StoredAt[k] = {}
      /\ count = Network!NodesCount <=> StoredAt'[k] = Peer
  <2> DEFINE A == StoredAt[k]
  <2> HIDE DEF A
  <2>1. A \in SUBSET Peer /\ n \notin A /\ Network!PeerAssumption
    BY <1>3, <1>5, <1>6 DEF A, NetworkAssumption
  <2>2. /\ Cardinality(A) \in Nat /\ Cardinality(A \cup {n}) = Cardinality(A) + 1
        /\ Cardinality(A) = 0 <=> A = {}
        /\ Cardinality(A) + 1 = Network!NodesCount <=> A \cup {n} = Peer
    BY <2>1, PeersCount
  <2>3. storedMessageMap[k] = Cardinality(A) /\ StoredAt'[k] = A \cup {n}
    BY <1>3, <1>5 DEF MetricsInv, Counted, A
  <2> QED
    BY <2>2, <2>3 DEF A
<1>9. \A i :
        /\ Network!By(i, AtSome(StoredAt'))
             = (Network!By(i, AtSome(StoredAt)) + Network!By(i, NewIn({k}, StoredAt)))
                 - Network!By(i, DoneIn({k}, StoredAt'))
        /\ Network!By(i, AtAll(StoredAt'))
             = Network!By(i, AtAll(StoredAt)) + Network!By(i, DoneIn({k}, StoredAt'))
  <2> DEFINE A == StoredAt
             B == StoredAt'
             M == {k}
  <2>1. A \in [Message -> SUBSET Peer] /\ B \in [Message -> SUBSET Peer]
    BY <1>6
  <2>2. /\ \A m \in Message : B[m] = IF m \in M THEN A[m] \cup {n} ELSE A[m]
        /\ \A m \in M : n \notin A[m]
    BY <1>5
  <2>3. M \in SUBSET Message /\ Network!MessageAssumption /\ Network!PeerAssumption
    BY <1>3 DEF NetworkAssumption
  <2> HIDE DEF A, B, M, k
  <2>4. \A i :
          /\ Network!By(i, AtSome(B))
               = (Network!By(i, AtSome(A)) + Network!By(i, NewIn(M, A))) - Network!By(i, DoneIn(M, B))
          /\ Network!By(i, AtAll(B)) = Network!By(i, AtAll(A)) + Network!By(i, DoneIn(M, B))
          /\ Network!By(i, NewIn(M, A)) \in Nat /\ Network!By(i, DoneIn(M, B)) \in Nat
    BY <2>1, <2>2, <2>3, OnePeerMore
  <2> QED
    BY <2>4 DEF A, B, M
<1>10. \A i : /\ Network!By(i, NewIn({k}, StoredAt)) = IF i = j THEN first ELSE 0
              /\ Network!By(i, DoneIn({k}, StoredAt')) = IF i = j THEN last ELSE 0
  <2> TAKE i
  <2>1. /\ NewIn({k}, StoredAt) = IF count = 1 THEN {k} ELSE {}
        /\ DoneIn({k}, StoredAt') = IF count = Network!NodesCount THEN {k} ELSE {}
    BY <1>8 DEF NewIn, DoneIn
  <2>2. /\ Network!By(i, {k}) = IF i = j THEN 1 ELSE 0
        /\ Network!By(i, {}) = 0
    BY ByOne
  <2> QED
    BY <2>1, <2>2
<1> HIDE DEF first, last, count, j, k
<1>11. first \in {0, 1} /\ last \in {0, 1} /\ count \in Int
  BY <1>8 DEF first, last, count
<1>12. /\ unconfirmed \in [Peer -> Int] /\ undisseminated \in [Peer -> Int]
       /\ disseminated \in [Peer -> Int] /\ storedMessageMap \in [Message -> Int]
       /\ partiallyConfirmed \in [Peer -> Int] /\ fullyConfirmed \in [Peer -> Int]
  BY DEF MetricsInv, PeersShape
<1>13. PeersShape'
  <2>1. /\ unconfirmed' \in [Peer -> Int] /\ undisseminated' \in [Peer -> Int]
        /\ disseminated' \in [Peer -> Int] /\ storedMessageMap' \in [Message -> Int]
    <3>1. first - last \in Int /\ first \in Int /\ last \in Int
      BY <1>11
    <3> QED
      BY <1>3, <1>7, <1>11, <1>12, <3>1
  <2>2. \A x \in Peer : current'[x] # Genesis => current'[x] \in stored'[x]
    BY <1>1, <1>2 DEF MetricsInv, PeersShape
  <2>3. stored' \in [Peer -> SUBSET Message] /\ current' \in [Peer -> Message \cup {Genesis}]
    BY <1>1, <1>2
  <2> QED
    BY <1>1, <2>1, <2>2, <2>3 DEF MetricsInv, PeersShape
<1>14. Counted'
  <2>1. \A m \in Message : /\ storedMessageMap'[m] = Cardinality(StoredAt'[m])
                           /\ confirmedMessageMap'[m] = Cardinality(ConfirmedAt'[m])
    <3> TAKE m \in Message
    <3>1. confirmedMessageMap'[m] = Cardinality(ConfirmedAt'[m])
      BY <1>1, <1>4 DEF MetricsInv, Counted
    <3>2. CASE m = k
      BY <1>7, <1>8, <1>12, <3>1, <3>2
    <3>3. CASE m # k
      <4>1. storedMessageMap'[m] = storedMessageMap[m] /\ StoredAt'[m] = StoredAt[m]
        BY <1>5, <1>7, <1>12, <3>3
      <4> QED
        BY <3>1, <4>1 DEF MetricsInv, Counted
    <3> QED
      BY <3>2, <3>3
  <2>2. ASSUME NEW i \in Peer
        PROVE  /\ undisseminated'[i] = Network!By(i, AtSome(StoredAt'))
               /\ disseminated'[i] = Network!By(i, AtAll(StoredAt'))
               /\ partiallyConfirmed'[i] = Network!By(i, AtSome(ConfirmedAt'))
               /\ fullyConfirmed'[i] = Network!By(i, AtAll(ConfirmedAt'))
               /\ (unconfirmed'[i] + partiallyConfirmed'[i]) + fullyConfirmed'[i]
                      = undisseminated'[i] + disseminated'[i]
    <3> DEFINE f == IF i = j THEN first ELSE 0
               l == IF i = j THEN last ELSE 0
    <3>1. /\ undisseminated[i] = Network!By(i, AtSome(StoredAt))
          /\ disseminated[i] = Network!By(i, AtAll(StoredAt))
          /\ partiallyConfirmed[i] = Network!By(i, AtSome(ConfirmedAt))
          /\ fullyConfirmed[i] = Network!By(i, AtAll(ConfirmedAt))
          /\ (unconfirmed[i] + partiallyConfirmed[i]) + fullyConfirmed[i]
                 = undisseminated[i] + disseminated[i]
      BY DEF MetricsInv, Counted
    <3>2. f \in Int /\ l \in Int /\ unconfirmed[i] \in Int /\ partiallyConfirmed[i] \in Int
          /\ fullyConfirmed[i] \in Int /\ undisseminated[i] \in Int /\ disseminated[i] \in Int
      BY <1>11, <1>12
    <3>3. /\ unconfirmed'[i] = unconfirmed[i] + f
          /\ undisseminated'[i] = (undisseminated[i] + f) - l
          /\ disseminated'[i] = disseminated[i] + l
          /\ partiallyConfirmed'[i] = partiallyConfirmed[i] /\ fullyConfirmed'[i] = fullyConfirmed[i]
      BY <1>1, <1>7, <1>11, <1>12
    <3>4. /\ Network!By(i, AtSome(StoredAt')) = (undisseminated[i] + f) - l
          /\ Network!By(i, AtAll(StoredAt')) = disseminated[i] + l
      BY <1>9, <1>10, <3>1
    <3> HIDE DEF f, l
    <3>5. (unconfirmed'[i] + partiallyConfirmed'[i]) + fullyConfirmed'[i]
            = undisseminated'[i] + disseminated'[i]
      <4>1. (unconfirmed'[i] + partiallyConfirmed'[i]) + fullyConfirmed'[i]
              = ((unconfirmed[i] + f) + partiallyConfirmed[i]) + fullyConfirmed[i]
        BY <3>3
      <4>2. undisseminated'[i] + disseminated'[i]
              = ((undisseminated[i] + f) - l) + (disseminated[i] + l)
        BY <3>3
      <4>3. (unconfirmed[i] + partiallyConfirmed[i]) + fullyConfirmed[i]
              = undisseminated[i] + disseminated[i]
        BY <3>1
      <4> QED
        BY <3>2, <4>1, <4>2, <4>3
    <3> QED
      BY <1>4, <3>1, <3>3, <3>4, <3>5
  <2>3. \A i : /\ Network!By(i, AtSome(StoredAt))' = Network!By(i, AtSome(StoredAt'))
              /\ Network!By(i, AtAll(StoredAt))' = Network!By(i, AtAll(StoredAt'))
              /\ Network!By(i, AtSome(ConfirmedAt))' = Network!By(i, AtSome(ConfirmedAt'))
              /\ Network!By(i, AtAll(ConfirmedAt))' = Network!By(i, AtAll(ConfirmedAt'))
    BY <1>1 DEF Network!By, AtSome, AtAll
  <2> QED
    BY <2>1, <2>2, <2>3 DEF Counted
<1> QED
  BY <1>13, <1>14 DEF MetricsInv

LEMMA StepMetrics == NetworkAssumption /\ MetricsInv /\ [Network!Next]_(Network!vars) => MetricsInv'
<1> SUFFICES ASSUME NetworkAssumption, MetricsInv, [Network!Next]_(Network!vars) PROVE MetricsInv'
  OBVIOUS
<1>1. ASSUME NEW m \in Message, Network!CreateMessage(m) PROVE MetricsInv'
  <2>1. net.issuer[m] \in Peer
    BY DEF MetricsInv, PeersShape, NetworkAssumption, Network!UniverseAssumption
  <2>2. current[net.issuer[m]] = Genesis /\ Network!ProcessMessage(net.issuer[m], m, packets)
    BY <1>1 DEF Network!CreateMessage, Network!Idle, Network!NoMessage, Genesis
  <2> QED
    BY <2>1, <2>2, ProcessKeepsMetrics
<1>2. ASSUME NEW n \in Peer, NEW m \in Message, Network!ReceiveMessage(n, m) PROVE MetricsInv'
  <2> DEFINE rest == packets \ {[message |-> m, from |-> Network!NoMessage, to |-> n]}
  <2>1. CASE Network!ProcessMessage(n, m, rest)
    <3>1. current[n] = Genesis
      BY <1>2 DEF Network!ReceiveMessage, Network!Idle, Network!NoMessage, Genesis
    <3> QED
      BY <2>1, <3>1, ProcessKeepsMetrics
  <2>2. CASE UNCHANGED <<net, stored, current, Network!metrics>>
    BY <2>2, MetricsStay
  <2> QED
    BY <1>2, <2>1, <2>2 DEF Network!ReceiveMessage
<1>3. ASSUME NEW n \in Peer, NEW p \in Peer, NEW m \in Message,
             \/ \E arrives \in BOOLEAN : Network!AnswerRequest(n, p, m, arrives)
             \/ Network!IgnoreRequest(n, p, m)
             \/ Network!Retry(n, m, p)
      PROVE  MetricsInv'
  <2>1. UNCHANGED <<net, stored, current, Network!metrics>>
    BY <1>3 DEF Network!AnswerRequest, Network!IgnoreRequest, Network!Retry
  <2> QED
    BY <2>1, MetricsStay
<1>4. CASE UNCHANGED Network!vars
  <2>1. UNCHANGED <<net, stored, current, Network!metrics>>
    BY <1>4 DEF Network!vars
  <2> QED
    BY <2>1, MetricsStay
<1> QED
  BY <1>1, <1>2, <1>3, <1>4, FinishKeepsMetrics DEF Network!Next

\* The counters of the metrics say of every network, of any connections, loss
\* and order of arrival, where the messages are (monitorGlobalMetrics).
THEOREM MetricsExact ==
    ASSUME NetworkAssumption
    PROVE  Network!Spec => []Network!MetricsAgree
<1>1. Network!Init => MetricsInv
  BY InitMetrics
<1>2. MetricsInv /\ [Network!Next]_(Network!vars) => MetricsInv'
  BY StepMetrics
<1>3. MetricsInv => Network!MetricsAgree
  BY CountedHolds DEF MetricsInv
<1> QED
  BY <1>1, <1>2, <1>3, PTL DEF Network!Spec

=============================================================================
