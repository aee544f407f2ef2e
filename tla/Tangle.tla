------------------------------- MODULE Tangle -------------------------------
(***************************************************************************)
(* The path of a message through the local Tangle of every node, from the  *)
(* socket to the booker: Storage.Store, the recursive Solidifier, the      *)
(* Requester's bookkeeping of missing parents and the Booker's colour      *)
(* inheritance.                                                            *)
(*                                                                         *)
(* Each node runs all of this in one goroutine (processMessages), so one   *)
(* node handles one message at a time; the goroutines of different nodes   *)
(* interleave at every call.  A node's position inside the recursion of    *)
(* Solidifier.Solidify is kept explicitly in `frames`, the stack of the    *)
(* `for child := range ...` loops that are still running.  The elements of *)
(* a frame are the children that its loop has not visited yet: Go ranges   *)
(* over maps in an unspecified order, so any of them may come next.        *)
(*                                                                         *)
(* The network is abstracted to its effect: whatever has been issued may   *)
(* reach any node at any time, in any order, any number of times, or never.*)
(***************************************************************************)
EXTENDS Naturals, FiniteSets, Sequences

CONSTANTS
    Node,        \* the peers of the network
    Message,     \* the identifiers handed out by NewMessageID
    Color,       \* Blue, Red, Green
    Undefined,   \* UndefinedColor, the zero value of Color
    Universe     \* the DAGs of messages a run may start from

\* The zero value of MessageID: the root of the DAG, never a stored message.
Genesis == 0

Colors == Color \cup {Undefined}

\* The fields of Message these components read.
Content == [strong : SUBSET (Message \cup {Genesis}),
            weak   : SUBSET (Message \cup {Genesis}),
            payload : Colors]

ASSUME MessageAssumption == Message \subseteq Nat \ {0}
ASSUME UndefinedAssumption == Undefined \notin Color

\* NewMessageID counts up and a message only references messages that exist
\* when it is created: its parents have smaller identifiers.
ASSUME UniverseAssumption ==
    \A u \in Universe :
        /\ u \in [Message -> Content]
        /\ \A m \in Message : \A p \in u[m].strong \cup u[m].weak : p < m

VARIABLES
    issued,      \* the contents of the messages, the same everywhere
    stored,      \* messageDB of each node
    solid,       \* the messages whose metadata says solid
    color,       \* inheritedColor in the metadata
    requested,   \* queuedElements of the Requester
    frames,      \* the loops of Solidify that are still running
    current      \* the message in ProcessMessage, Genesis when there is none

vars == <<issued, stored, solid, color, requested, frames, current>>

-----------------------------------------------------------------------------
Strong(m) == issued[m].strong \ {Genesis}
Weak(m) == issued[m].weak \ {Genesis}
Parents(m) == Strong(m) \cup Weak(m)

\* The child references that Store recorded for the messages stored so far.
StrongChildren(n, m) == {c \in stored[n] : m \in Strong(c)}
\* (Variants named ..._X are wrong on purpose; the runs must tell them apart.)
WeakChildrenForgotten_X(n, m) == {}
WeakChildren(n, m) == {c \in stored[n] : m \in Weak(c)}

Idle(n) == current[n] = Genesis

\* The messages some running loop still has to visit.
PendingIn(stack) == UNION {stack[i] : i \in DOMAIN stack}
Pending(n) == PendingIn(frames[n])

-----------------------------------------------------------------------------
(* Booker *)

\* The defined colours that meet in m: its payload and those of its strong
\* parents.
ColorsMeeting(n, m) ==
    ({issued[m].payload} \cup {color[n][p] : p \in Strong(m)}) \ {Undefined}

\* Two different colours make the message invalid (MessageInvalid).
Conflicting(n, m) ==
    \E c, d \in ColorsMeeting(n, m) : c # d

\* What the metadata holds after Book: an invalid message is not given a
\* colour and keeps the zero value.
InheritedColor(n, m) ==
    IF ColorsMeeting(n, m) = {} \/ Conflicting(n, m)
    THEN Undefined
    ELSE CHOOSE c \in Color : c \in ColorsMeeting(n, m)

-----------------------------------------------------------------------------
(* Solidifier and Requester *)

\* The parents that parentsSolid reports through MessageMissing.
MissingParents(n, m) == Parents(m) \ stored[n]

ParentsStored_X(n, m) == Parents(m) \subseteq stored[n]
ParentsSolid(n, m) == Parents(m) \subseteq solid[n]

Init ==
    /\ issued \in Universe
    /\ stored = [n \in Node |-> {}]
    /\ solid = [n \in Node |-> {}]
    /\ color = [n \in Node |-> [m \in Message |-> Undefined]]
    /\ requested = [n \in Node |-> {}]
    /\ frames = [n \in Node |-> <<>>]
    /\ current = [n \in Node |-> Genesis]

\* ProcessMessage of a message that is not in the database yet; the first
\* handler of MessageStored calls Solidify on it.  A message that is stored
\* already changes nothing.
Store(n, m) ==
    /\ Idle(n)
    /\ m \notin stored[n]
    /\ stored' = [stored EXCEPT ![n] = @ \cup {m}]
    /\ frames' = [frames EXCEPT ![n] = <<{m}>>]
    /\ current' = [current EXCEPT ![n] = m]
    /\ UNCHANGED <<issued, solid, color, requested>>

\* The call Solidify(m) when m is not solid yet and all its parents are: it is
\* marked, booked, and the loops over its children start, strong ones first.
BecomeSolid(n, m) ==
    /\ frames[n] # <<>>
    /\ m \in Head(frames[n])
    /\ ParentsSolid(n, m)
    /\ m \notin solid[n]
    /\ solid' = [solid EXCEPT ![n] = @ \cup {m}]
    /\ color' = [color EXCEPT ![n][m] = InheritedColor(n, m)]
    /\ frames' = [frames EXCEPT ![n] =
            <<StrongChildren(n, m), WeakChildren(n, m), Head(@) \ {m}>> \o Tail(@)]
    /\ UNCHANGED <<issued, stored, requested, current>>

\* The call Solidify(m) when it returns early: m is solid already, or one of
\* its parents is not, and then every missing one is requested.
NotYetSolid(n, m) ==
    /\ frames[n] # <<>>
    /\ m \in Head(frames[n])
    /\ ~ParentsSolid(n, m) \/ m \in solid[n]
    /\ requested' = [requested EXCEPT ![n] = @ \cup MissingParents(n, m)]
    /\ frames' = [frames EXCEPT ![n] = <<Head(@) \ {m}>> \o Tail(@)]
    /\ UNCHANGED <<issued, stored, solid, color, current>>

\* A loop over children ends.
LoopEnds(n) ==
    /\ frames[n] # <<>>
    /\ Head(frames[n]) = {}
    /\ frames' = [frames EXCEPT ![n] = Tail(@)]
    /\ UNCHANGED <<issued, stored, solid, color, requested, current>>

RequestGoesOn_X(n) ==
    /\ ~Idle(n)
    /\ frames[n] = <<>>
    /\ current' = [current EXCEPT ![n] = Genesis]
    /\ UNCHANGED <<issued, stored, solid, color, requested, frames>>

\* The second handler of MessageStored: the message is not missing any more.
StopRequest(n) ==
    /\ ~Idle(n)
    /\ frames[n] = <<>>
    /\ requested' = [requested EXCEPT ![n] = @ \ {current[n]}]
    /\ current' = [current EXCEPT ![n] = Genesis]
    /\ UNCHANGED <<issued, stored, solid, color, frames>>

Next ==
    \E n \in Node :
        \/ \E m \in Message : \/ Store(n, m)
                              \/ BecomeSolid(n, m)
                              \/ NotYetSolid(n, m)
        \/ LoopEnds(n)
        \/ StopRequest(n)

Spec == Init /\ [][Next]_vars

-----------------------------------------------------------------------------
(* Properties *)

\* The shape of the state.  That Genesis is never stored and never requested
\* rests on every loop over parents skipping it.
TypeOK ==
    /\ issued \in [Message -> Content]
    /\ \A m \in Message : \A p \in issued[m].strong \cup issued[m].weak : p < m
    /\ stored \in [Node -> SUBSET Message]
    /\ solid \in [Node -> SUBSET Message]
    /\ color \in [Node -> [Message -> Colors]]
    /\ requested \in [Node -> SUBSET Message]
    /\ frames \in [Node -> Seq(SUBSET Message)]
    /\ current \in [Node -> Message \cup {Genesis}]

\* A set of messages that contains the whole past cone of each of its members.
PastClosed(S) == \A m \in S : Parents(m) \subseteq S

\* Between two messages, the messages a node holds as solid are exactly those
\* whose whole past cone it has stored, whatever the order of arrival: the
\* recursion over the children neither runs ahead of a missing parent nor
\* leaves behind a message that the last arrival completed.
SolidIffConeStored ==
    \A n \in Node : Idle(n) =>
        \A m \in stored[n] :
            m \in solid[n] <=>
                \E S \in SUBSET stored[n] : m \in S /\ PastClosed(S)

\* Between two messages, the Requester is asking for exactly the parents that
\* a stored message names and the database lacks: none is forgotten when
\* several are missing at once, none is left over after it arrived.
RequestsAreWanted ==
    \A n \in Node : Idle(n) =>
        requested[n] = UNION {MissingParents(n, m) : m \in stored[n]}

\* A message that is stored but not solid never waits in silence: somewhere in
\* its past cone, however deep, there is a missing message that the node keeps
\* requesting.
NoSilentStall ==
    \A n \in Node : Idle(n) =>
        \A m \in stored[n] \ solid[n] :
            \A S \in SUBSET Message :
                m \in S /\ PastClosed(S) =>
                    \E p \in S : p \in requested[n] /\ p \notin stored[n]

\* Two nodes that have booked the same message gave it the same colour, in
\* whatever order the messages reached them.
ColorsAgree ==
    \A n1, n2 \in Node :
        \A m \in solid[n1] \cap solid[n2] : color[n1][m] = color[n2][m]

=============================================================================
