-------------------------------- MODULE Gossip --------------------------------
(***************************************************************************)
(* The peers of a network without a scheduler (NoScheduler): messages are  *)
(* passed on to all neighbours as soon as they are booked, connections     *)
(* lose packets and deliver the others after a delay of their own, missing *)
(* parents are requested until they are stored, and the metrics of the     *)
(* simulation count where each message has arrived.                        *)
(*                                                                         *)
(* A peer handles one packet at a time.  The handlers of MessageStored run *)
(* in the order they were attached: the Solidifier, with all it books,     *)
(* gossips, confirms and requests, is the first, the metrics are the last  *)
(* (`current` tells a peer between the two).  That the Solidifier makes    *)
(* solid exactly what has its past cone stored is shown in Tangle, and is  *)
(* the definition here.  Confirmation is simplified to messages that are   *)
(* heavy enough to confirm themselves and their past cone.                 *)
(***************************************************************************)
EXTENDS Integers, FiniteSets

CONSTANTS
    Peer,
    Message,
    Universe   \* the networks and DAGs a run may start from

NoMessage == 0

ASSUME MessageAssumption == Message \subseteq Nat \ {0} /\ IsFiniteSet(Message)
ASSUME PeerAssumption == IsFiniteSet(Peer) /\ Peer # {}
ASSUME UniverseAssumption ==
    \A u \in Universe :
        /\ u.neighbors \in [Peer -> SUBSET Peer] /\ u.lossless \subseteq Peer
        /\ u.issuer \in [Message -> Peer] /\ u.heavy \subseteq Message
        /\ u.parents \in [Message -> SUBSET Message]
        /\ \A m \in Message : \A p \in u.parents[m] : p < m

VARIABLES
    net,         \* neighbours, issuers, parents: fixed
    stored,      \* messageDB of each peer
    requested,   \* queuedElements of its Requester
    current,     \* the message whose MessageStored handlers are not done
    packets,     \* what is under way to a socket or waits in one
    panicked,    \* the program has stopped with a panic
    storedMessageMap, confirmedMessageMap,   \* by how many peers
    \* per issuer
    undisseminated, disseminated, unconfirmed, partiallyConfirmed, fullyConfirmed

metrics == <<storedMessageMap, confirmedMessageMap, undisseminated, disseminated,
             unconfirmed, partiallyConfirmed, fullyConfirmed>>
vars == <<net, stored, requested, current, packets, panicked, metrics>>

NodesCount == Cardinality(Peer)

-----------------------------------------------------------------------------

Cone[m \in Message] == {m} \cup UNION {Cone[p] : p \in net.parents[m]}

\* The solid and the confirmed ones of the messages S of a peer.
Solid(S) == {m \in S : Cone[m] \subseteq S}
Confirmed(S) == UNION {Cone[m] : m \in Solid(S) \cap net.heavy}

MessagesTo(n, M) == [message : M, from : {NoMessage}, to : net.neighbors[n]]

\* A request that names the peer asked in place of the peer that asks.
Request_X(n, m, q) == [message |-> m, from |-> q, to |-> q]

\* The MessageRequest by which n asks its neighbour q for m.
Request(n, m, q) == [message |-> m, from |-> n, to |-> q]

RequestsTo(n, M) == {Request(n, m, q) : m \in M, q \in net.neighbors[n]}

\* Connection.Send of packets P by peer n: any may be lost, but not on the
\* connections that ApplyNeighborsAdversaryNodes makes.
Sent(n, P) == IF n \in net.lossless THEN {P} ELSE SUBSET P

-----------------------------------------------------------------------------
(* Counting *)

Plus(f, i, k) == [f EXCEPT ![i] = @ + k]

\* The metrics' handler of MessageStored.
CountStored(m) ==
    LET i == net.issuer[m]
        count == storedMessageMap[m] + 1
        first == IF count = 1 THEN 1 ELSE 0
        last == IF count = NodesCount THEN 1 ELSE 0
    IN  /\ storedMessageMap' = [storedMessageMap EXCEPT ![m] = count]
        /\ unconfirmed' = Plus(unconfirmed, i, first)
        /\ undisseminated' = Plus(undisseminated, i, first - last)
        /\ disseminated' = Plus(disseminated, i, last)

\* Of a set of messages, those of issuer i.
By(i, M) == Cardinality({m \in M : net.issuer[m] = i})

Last_X(M) == {m \in M : confirmedMessageMap[m] = NodesCount}

\* The messages of M that one more confirmation completes.
Last(M) == {m \in M : confirmedMessageMap[m] + 1 = NodesCount}

\* The metrics' handler of MessageConfirmed, for the messages M of a peer.
CountConfirmed(M) ==
    LET first == {m \in M : confirmedMessageMap[m] = 0}
    IN  /\ confirmedMessageMap' = [m \in Message |-> confirmedMessageMap[m] +
                                                     (IF m \in M THEN 1 ELSE 0)]
        /\ unconfirmed' = [i \in Peer |-> unconfirmed[i] - By(i, first)]
        /\ partiallyConfirmed' = [i \in Peer |-> partiallyConfirmed[i] + By(i, first) - By(i, Last(M))]
        /\ fullyConfirmed' = [i \in Peer |-> fullyConfirmed[i] + By(i, Last(M))]

-----------------------------------------------------------------------------
(* Handlers *)

Idle(n) == ~panicked /\ current[n] = NoMessage

\* Only the message that arrived is booked, not its children that waited.
Booked_X(m, S) == S \cap {m}

\* Solidify goes on to the children: all of S, which becomes solid when m is
\* stored, is booked and passed on.
Booked(m, S) == S

\* ProcessMessage of a message that is not stored yet, up to the handlers that
\* come after the Solidifier; `rest` are the packets under way besides.
ProcessMessage(n, m, rest) ==
    LET S == stored[n] \cup {m}
        solid == Solid(S) \ Solid(stored[n])
        missing == net.parents[m] \ (S \cup requested[n])
    IN  /\ m \notin stored[n]
        /\ stored' = [stored EXCEPT ![n] = S]
        /\ current' = [current EXCEPT ![n] = m]
        /\ requested' = [requested EXCEPT ![n] = @ \cup missing]
        /\ \E sent \in Sent(n, MessagesTo(n, Booked(m, solid)) \cup RequestsTo(n, missing)) :
               packets' = rest \cup sent
        /\ CountConfirmed(Confirmed(S) \ Confirmed(stored[n]))
        /\ UNCHANGED <<net, panicked, storedMessageMap, undisseminated, disseminated>>

\* CreateMessage and ProcessMessage of a payload, or of a blowball: the parents
\* are tips, which are solid.
CreateMessage(m) ==
    LET n == net.issuer[m]
    IN  Idle(n) /\ net.parents[m] \subseteq Solid(stored[n]) /\ ProcessMessage(n, m, packets)

\* The socket of n yields a message; one that is stored already changes nothing.
ReceiveMessage(n, m) ==
    LET packet == [message |-> m, from |-> NoMessage, to |-> n]
    IN  /\ Idle(n) /\ packet \in packets
        /\ \/ ProcessMessage(n, m, packets \ {packet})
           \/ /\ m \in stored[n]
              /\ packets' = packets \ {packet}
              /\ UNCHANGED <<net, stored, requested, current, panicked, metrics>>

\* The handlers after the Solidifier: StopRequest and the metrics.
FinishStored(n) ==
    /\ ~panicked /\ current[n] # NoMessage
    /\ requested' = [requested EXCEPT ![n] = @ \ {current[n]}]
    /\ CountStored(current[n])
    /\ current' = [current EXCEPT ![n] = NoMessage]
    /\ UNCHANGED <<net, stored, packets, panicked, confirmedMessageMap,
                   partiallyConfirmed, fullyConfirmed>>

\* The socket of n yields a request of peer p, which n answers when it has the
\* message: by the connection to p, which panics when there is none.
AnswerRequest(n, p, m, arrives) ==
    LET request == Request(p, m, n)
        answer == [message |-> m, from |-> NoMessage, to |-> p]
    IN  /\ Idle(n) /\ request \in packets /\ m \in stored[n]
        /\ IF p \in net.neighbors[n]
           THEN /\ arrives \/ n \notin net.lossless
                /\ packets' = (packets \ {request}) \cup (IF arrives THEN {answer} ELSE {})
                /\ UNCHANGED panicked
           ELSE /\ packets' = packets \ {request}
                /\ panicked' = TRUE
        /\ UNCHANGED <<net, stored, requested, current, metrics>>

IgnoreRequest(n, p, m) ==
    LET request == Request(p, m, n)
    IN  /\ Idle(n) /\ request \in packets /\ m \notin stored[n]
        /\ packets' = packets \ {request}
        /\ UNCHANGED <<net, stored, requested, current, panicked, metrics>>

\* retry, in a goroutine of its own, asks all neighbours again; this is a retry
\* that reaches q, those that others receive besides come before or after it.
Retry(n, m, q) ==
    /\ ~panicked /\ m \in requested[n] /\ q \in net.neighbors[n]
    /\ packets' = packets \cup {Request(n, m, q)}
    /\ UNCHANGED <<net, stored, requested, current, panicked, metrics>>

-----------------------------------------------------------------------------

Init ==
    /\ net \in Universe
    /\ stored = [n \in Peer |-> {}]
    /\ requested = [n \in Peer |-> {}]
    /\ current = [n \in Peer |-> NoMessage]
    /\ packets = {}
    /\ panicked = FALSE
    /\ storedMessageMap = [m \in Message |-> 0]
    /\ confirmedMessageMap = [m \in Message |-> 0]
    /\ undisseminated = [i \in Peer |-> 0] /\ disseminated = [i \in Peer |-> 0]
    /\ unconfirmed = [i \in Peer |-> 0]
    /\ partiallyConfirmed = [i \in Peer |-> 0] /\ fullyConfirmed = [i \in Peer |-> 0]

Next ==
    \/ \E m \in Message : CreateMessage(m)
    \/ \E n \in Peer :
          \/ FinishStored(n)
          \/ \E m \in Message :
                \/ ReceiveMessage(n, m)
                \/ \E p \in Peer :
                      \/ \E arrives \in BOOLEAN : AnswerRequest(n, p, m, arrives)
                      \/ IgnoreRequest(n, p, m)
                      \/ Retry(n, m, p)

\* Peers go on handling what is in their sockets and asking for what they miss.
\* Each packet is lost by a chance of its own that is less than one: of requests
\* sent again and again some reach each neighbour, and of answers some arrive.
Fairness ==
    \A n \in Peer :
        /\ WF_vars(FinishStored(n))
        /\ WF_vars(\E m \in Message : ReceiveMessage(n, m))
        /\ SF_vars(\E p \in Peer, m \in Message : AnswerRequest(n, p, m, TRUE))
        /\ \A m \in Message, q \in Peer : WF_vars(Retry(n, m, q))

Spec == Init /\ [][Next]_vars /\ Fairness

-----------------------------------------------------------------------------
(* Properties *)

OneSided == \E p, q \in Peer : q \in net.neighbors[p] /\ p \notin net.neighbors[q]

\* A message that arrived before its past becomes solid, whatever is lost on the
\* way: its missing parents are asked for until they come.  Only where some
\* connection has none in the other direction may the program panic first, when
\* a request can not be answered (StartRequest, retry, HandleNetworkMessage).
StoredBecomesSolid ==
    \A n \in Peer, m \in Message :
        m \in stored[n] ~> m \in Solid(stored[n]) \/ (panicked /\ OneSided)

\* Where nothing is lost, a message that somebody stores reaches all: whoever
\* books a message passes it on, also those whose booking waited for a parent
\* (Solidify, EnqueueMessage, GossipNetworkMessage).
EveryMessageArrives ==
    \A m \in Message :
        (net.lossless = Peer /\ \E n \in Peer : m \in stored[n])
            ~> ((\A n \in Peer : m \in stored[n]) \/ (panicked /\ OneSided))

\* The counters of the metrics say where the messages are: per issuer, how many
\* are stored by some peers and not by all, by all, confirmed by some and not by
\* all, by all.  Those stored by some and confirmed by none are out by one for
\* a message whose confirmation is counted first: the handlers of MessageStored
\* confirm before they count (main.go, monitorGlobalMetrics).
MetricsAgree ==
    LET StoredBy(m) == {n \in Peer : m \in stored[n] /\ current[n] # m}
        ConfirmedBy(m) == {n \in Peer : m \in Confirmed(stored[n])}
        Some(i, Where(_)) == By(i, {m \in Message : Where(m) \notin {{}, Peer}})
        All(i, Where(_)) == By(i, {m \in Message : Where(m) = Peer})
    IN  /\ \A m \in Message :
               /\ storedMessageMap[m] = Cardinality(StoredBy(m))
               /\ confirmedMessageMap[m] = Cardinality(ConfirmedBy(m))
        /\ \A i \in Peer :
               /\ undisseminated[i] = Some(i, StoredBy) /\ disseminated[i] = All(i, StoredBy)
               /\ partiallyConfirmed[i] = Some(i, ConfirmedBy)
               /\ fullyConfirmed[i] = All(i, ConfirmedBy)
               /\ unconfirmed[i] + partiallyConfirmed[i] + fullyConfirmed[i]
                      = undisseminated[i] + disseminated[i]

=============================================================================
