--------------------------- MODULE OpinionManager ---------------------------
(***************************************************************************)
(* The opinion every node forms from the coloured messages it has booked:  *)
(* OpinionManager.FormOpinion with UpdateWeights, WeightsUpdated and       *)
(* UpdateConfirmation, the ShiftingOpinionManager of the adversary         *)
(* package, and the global colour counters that main.go keeps in step      *)
(* through the events OpinionChanged, ColorConfirmed and ColorUnconfirmed. *)
(*                                                                         *)
(* A node calls FormOpinion once per booked message, from its single       *)
(* processing goroutine.  The colour of a booked message is the same on    *)
(* every node (theorem ColorAgreement of TangleProofs), so it is a field   *)
(* of the message here; the order of booking is arbitrary and differs from *)
(* node to node.  Colours are numbers, as in the code, because ties are    *)
(* broken by comparing them.                                               *)
(***************************************************************************)
EXTENDS Integers, FiniteSets, FiniteSetsExt

CONSTANTS
    Peer,        \* the peers that issue messages
    Node,        \* the peers whose opinion is followed
    Message,
    Color,       \* Blue = 1, Red = 2, Green = 3
    Weight,      \* consensus weight of each peer
    Bar,         \* NodesTotalWeight * ConfirmationThreshold, rounded down
    Settings,    \* the configurations a run may start from
    Universe     \* what may have been issued in a run

Undefined == 0
Colors == Color \cup {Undefined}

Content == [issuer : Peer, seq : Nat \ {0}, color : Colors]

ASSUME PeerAssumption == IsFiniteSet(Peer) /\ Node \subseteq Peer
ASSUME ColorAssumption == Color \subseteq Nat \ {Undefined}
ASSUME WeightAssumption == Weight \in [Peer -> Nat] /\ Bar \in Nat
ASSUME SettingsAssumption == Settings \subseteq [honest : SUBSET Node, absolute : BOOLEAN]

\* MessageFactory numbers the messages of one issuer 1, 2, 3, ...
ASSUME UniverseAssumption ==
    \A u \in Universe :
        /\ u \in [Message -> Content]
        /\ \A m1, m2 \in Message :
              u[m1].issuer = u[m2].issuer /\ u[m1].seq = u[m2].seq => m1 = m2

VARIABLES
    setting,          \* which nodes are honest and which threshold is used
    issued,           \* the messages, the same everywhere
    booked,           \* the messages each node has booked so far
    peerOpinions,     \* the last opinion of every issuer, [color |-> 0, seq |-> 0] if none
    known,            \* the keys of the map approvalWeights
    approvalWeights,  \* its values
    ownOpinion,
    colorConfirmed,
    opinions,         \* colorCounters "opinions"
    confirmedNodes,   \* colorCounters "confirmedNodes"
    assigned,         \* the adversaries AssignColor has been called for
    assigning         \* the colour a call of SetOpinion from AssignColor is about
                      \* to write, Undefined when there is none

vars == <<setting, issued, booked, peerOpinions, known, approvalWeights, ownOpinion,
          colorConfirmed, opinions, confirmedNodes, assigned, assigning>>

\* The nodes that run the plain OpinionManager; the others are adversaries of
\* type 1 or 2, which both run the shifting one.
Honest == setting.honest

\* ConfirmationThresholdAbsolute
Absolute == setting.absolute

NoOpinion == [color |-> Undefined, seq |-> 0]

-----------------------------------------------------------------------------
(* getMaxOpinion and checkColorConfirmed on a map with keys K and values w *)

\* The heaviest colour; of several the smallest number.
MaxOpinion(K, w) ==
    IF K = {} THEN Undefined
    ELSE CHOOSE c \in K : \A d \in K : w[c] > w[d] \/ (w[c] = w[d] /\ c <= d)

\* ShiftingOpinionManager backs the runner-up when there is one.
RunnerUp(K, w) ==
    IF Cardinality(K) > 1 THEN MaxOpinion(K \ {MaxOpinion(K, w)}, w) ELSE MaxOpinion(K, w)

\* Reading a Go map at a key it lacks yields zero.
WeightOf(K, w, c) == IF c \in K THEN w[c] ELSE 0

\* (Variants named ..._X are wrong on purpose; the runs must tell them apart.)
CheckColorConfirmedAtBar_X(K, w, c) ==
    IF Absolute
    THEN WeightOf(K, w, c) >= Bar
    ELSE WeightOf(K, w, c) - WeightOf(K, w, MaxOpinion(K \ {c}, w)) >= Bar

CheckColorConfirmed(K, w, c) ==
    IF Absolute
    THEN WeightOf(K, w, c) > Bar
    ELSE WeightOf(K, w, c) - WeightOf(K, w, MaxOpinion(K \ {c}, w)) > Bar

-----------------------------------------------------------------------------
Init ==
    /\ setting \in Settings
    /\ issued \in Universe
    /\ booked = [n \in Node |-> {}]
    /\ peerOpinions = [n \in Node |-> [p \in Peer |-> NoOpinion]]
    /\ known = [n \in Node |-> {}]
    /\ approvalWeights = [n \in Node |-> [c \in Colors |-> 0]]
    /\ ownOpinion = [n \in Node |-> Undefined]
    /\ colorConfirmed = [n \in Node |-> FALSE]
    /\ opinions = [c \in Colors |-> IF c = Undefined THEN Cardinality(Node) ELSE 0]
    /\ confirmedNodes = [c \in Colors |-> 0]
    /\ assigned = {}
    /\ assigning = [n \in Node |-> Undefined]

LastOpinion(n, m) == peerOpinions[n][issued[m].issuer]
HasVoted(n, p) == peerOpinions[n][p].seq > 0

\* The opinions an issuer voiced are ordered by its sequence numbers.
IsNewsAlways_X(n, m) == issued[m].color # Undefined
IsNews(n, m) ==
    /\ issued[m].color # Undefined
    /\ issued[m].seq > LastOpinion(n, m).seq

\* UpdateWeights: the issuer's weight moves from its last colour to this one.
MovedWeightsKept_X(n, m) ==
    [approvalWeights[n] EXCEPT ![issued[m].color] = @ + Weight[issued[m].issuer]]
MovedWeights(n, m) ==
    LET w == Weight[issued[m].issuer]
        old == LastOpinion(n, m).color
        left == IF HasVoted(n, issued[m].issuer)
                THEN [approvalWeights[n] EXCEPT ![old] = @ - w]
                ELSE approvalWeights[n]
    IN  [left EXCEPT ![issued[m].color] = @ + w]

Remember(n, m) ==
    peerOpinions' = [peerOpinions EXCEPT ![n][issued[m].issuer] =
                        [color |-> issued[m].color, seq |-> issued[m].seq]]

\* The counter handler of OpinionChanged.
CountOpinionChange(old, new) ==
    opinions' = IF old = new THEN opinions
                ELSE [opinions EXCEPT ![old] = @ - 1, ![new] = @ + 1]

\* UpdateConfirmation, with the counter handlers of ColorUnconfirmed and
\* ColorConfirmed.  K and w are the weights after the vote.
UpdateConfirmationSilent_X(n, old, new, K, w) ==
    LET kept == colorConfirmed[n] /\ new = old
        lost == FALSE
        won == ~kept /\ CheckColorConfirmed(K, w, new)
        step(c) == (IF won /\ c = new THEN 1 ELSE 0) - (IF lost /\ c = old THEN 1 ELSE 0)
    IN  /\ colorConfirmed' = [colorConfirmed EXCEPT ![n] = kept \/ won]
        /\ confirmedNodes' = [c \in Colors |-> confirmedNodes[c] + step(c)]
UpdateConfirmationLate_X(n, old, new, K, w) ==
    LET lost == colorConfirmed[n] /\ new # old
        won == ~colorConfirmed[n] /\ CheckColorConfirmed(K, w, new)
        step(c) == (IF won /\ c = new THEN 1 ELSE 0) - (IF lost /\ c = old THEN 1 ELSE 0)
    IN  /\ colorConfirmed' = [colorConfirmed EXCEPT ![n] = (@ \/ won) /\ ~lost]
        /\ confirmedNodes' = [c \in Colors |-> confirmedNodes[c] + step(c)]
UpdateConfirmation(n, old, new, K, w) ==
    LET kept == colorConfirmed[n] /\ new = old
        lost == colorConfirmed[n] /\ new # old
        won == ~kept /\ CheckColorConfirmed(K, w, new)
        step(c) == (IF won /\ c = new THEN 1 ELSE 0) - (IF lost /\ c = old THEN 1 ELSE 0)
    IN  /\ colorConfirmed' = [colorConfirmed EXCEPT ![n] = kept \/ won]
        /\ confirmedNodes' = [c \in Colors |-> confirmedNodes[c] + step(c)]

\* An undefined colour, or an opinion older than the one already known.
Ignore(n, m) ==
    /\ ~IsNews(n, m)
    /\ UNCHANGED <<peerOpinions, known, approvalWeights, ownOpinion,
                   colorConfirmed, opinions, confirmedNodes>>

\* A newer message of the same colour only moves the sequence number.
Repeat(n, m) ==
    /\ IsNews(n, m)
    /\ issued[m].color = LastOpinion(n, m).color
    /\ Remember(n, m)
    /\ UNCHANGED <<known, approvalWeights, ownOpinion, colorConfirmed,
                   opinions, confirmedNodes>>

\* A newer message of another colour changes the weights, and then the opinion
\* and its confirmation are computed afresh.
Vote(n, m) ==
    LET K == known[n] \cup {issued[m].color}
        w == MovedWeights(n, m)
        new == IF n \in Honest THEN MaxOpinion(K, w) ELSE RunnerUp(K, w)
    IN  /\ IsNews(n, m)
        /\ issued[m].color # LastOpinion(n, m).color
        /\ Remember(n, m)
        /\ known' = [known EXCEPT ![n] = K]
        /\ approvalWeights' = [approvalWeights EXCEPT ![n] = w]
        /\ ownOpinion' = [ownOpinion EXCEPT ![n] = new]
        /\ CountOpinionChange(ownOpinion[n], new)
        /\ UpdateConfirmation(n, ownOpinion[n], new, K, w)

Book(n, m) ==
    /\ m \notin booked[n]
    /\ booked' = [booked EXCEPT ![n] = @ \cup {m}]

FormOpinion(n, m) ==
    /\ Book(n, m)
    /\ UNCHANGED <<setting, issued, assigned, assigning>>
    /\ Ignore(n, m) \/ Repeat(n, m) \/ Vote(n, m)

\* SimulateDoubleSpent gives each adversary the colour of its group once, through
\* SetOpinion and in the main goroutine, while the peers are running in theirs:
\* the counter handlers run first, and the opinion is written when the adversary
\* may have formed another one in the meantime.
AssignColor(n, c) ==
    /\ n \in Node \ (Honest \cup assigned)
    /\ assigned' = assigned \cup {n}
    /\ assigning' = [assigning EXCEPT ![n] = c]
    /\ CountOpinionChange(ownOpinion[n], c)
    /\ UNCHANGED <<setting, issued, booked, peerOpinions, known, approvalWeights,
                   ownOpinion, colorConfirmed, confirmedNodes>>

ColorAssigned(n) ==
    /\ assigning[n] # Undefined
    /\ ownOpinion' = [ownOpinion EXCEPT ![n] = assigning[n]]
    /\ assigning' = [assigning EXCEPT ![n] = Undefined]
    /\ UNCHANGED <<setting, issued, booked, peerOpinions, known, approvalWeights,
                   colorConfirmed, opinions, confirmedNodes, assigned>>

Next ==
    \E n \in Node : \/ \E m \in Message : FormOpinion(n, m)
                    \/ \E c \in Color : AssignColor(n, c)
                    \/ ColorAssigned(n)

Spec == Init /\ [][Next]_vars

\* Gossip and requests bring every message to every node in the end, and the
\* processing goroutine of a node never stops while the simulation runs.  (A step
\* that books a message is a step of FormOpinion; TLC tells it apart faster.)
Fairness == \A n \in Node : WF_booked(\E m \in Message : Book(n, m))

FairSpec == Spec /\ Fairness

-----------------------------------------------------------------------------
(* Properties *)

\* The shape of the state.  Weights never drop below zero, so the unsigned
\* counters of the code never wrap around.
TypeOK ==
    /\ setting \in Settings
    /\ issued \in [Message -> Content]
    /\ booked \in [Node -> SUBSET Message]
    /\ peerOpinions \in [Node -> [Peer -> [color : Colors, seq : Nat]]]
    /\ known \in [Node -> SUBSET Color]
    /\ approvalWeights \in [Node -> [Colors -> Nat]]
    /\ ownOpinion \in [Node -> Colors]
    /\ colorConfirmed \in [Node -> BOOLEAN]
    /\ opinions \in [Colors -> Int]
    /\ confirmedNodes \in [Colors -> Int]
    /\ assigned \subseteq Node \ Honest
    /\ assigning \in [Node -> Colors]

\* The coloured messages of p that n has booked.
VotesOf(n, p) == {m \in booked[n] : issued[m].issuer = p /\ issued[m].color # Undefined}

\* What a node takes for the opinion of a peer is the colour of that peer's
\* newest coloured message, although the messages arrive in any order.
LatestOpinion ==
    \A n \in Node : \A p \in Peer :
        IF VotesOf(n, p) = {}
        THEN peerOpinions[n][p] = NoOpinion
        ELSE \E m \in VotesOf(n, p) :
                /\ \A k \in VotesOf(n, p) : issued[k].seq <= issued[m].seq
                /\ peerOpinions[n][p] = [color |-> issued[m].color, seq |-> issued[m].seq]

\* The colour of the newest coloured message of p that n has booked.
Votes(n, p, c) ==
    \E m \in VotesOf(n, p) :
        issued[m].color = c /\ \A k \in VotesOf(n, p) : issued[k].seq <= issued[m].seq

\* The weight of a colour is the weight of the peers whose newest vote is for it:
\* each peer counts once, however often it changed its mind and in whatever
\* order its votes came, and no weight is taken away that was not given.
WeightsAddUp ==
    \A n \in Node : \A c \in Color :
        approvalWeights[n][c] = MapThenSumSet(LAMBDA p : Weight[p], {p \in Peer : Votes(n, p, c)})

\* An honest node never overlooks that its opinion has passed the threshold.
NoMissedConfirmation ==
    \A n \in Honest :
        CheckColorConfirmed(known[n], approvalWeights[n], ownOpinion[n]) => colorConfirmed[n]

\* Two honest nodes never confirm different colours, whatever the orders they
\* booked the messages in and however far apart they are, as long as no peer
\* voiced two colours and the threshold is at least half of all weight.
ConfirmedColorsAgree ==
    /\ \A m1, m2 \in Message :
          /\ issued[m1].issuer = issued[m2].issuer
          /\ Undefined \notin {issued[m1].color, issued[m2].color}
          => issued[m1].color = issued[m2].color
    /\ 2 * Bar >= MapThenSumSet(LAMBDA p : Weight[p], Peer)
    => \A n1, n2 \in Honest :
          colorConfirmed[n1] /\ colorConfirmed[n2] => ownOpinion[n1] = ownOpinion[n2]

\* main.go's counters only see the change events, and yet they say how many
\* nodes hold each opinion and how many of these have confirmed it, until a
\* colour is assigned from outside.
CountersMatchNodes ==
    assigned = {} =>
        \A c \in Colors :
            /\ opinions[c] = Cardinality({n \in Node : ownOpinion[n] = c})
            /\ confirmedNodes[c] =
                  Cardinality({n \in Node : ownOpinion[n] = c /\ colorConfirmed[n]})

\* The newest vote of every peer, read off what was issued.
Newest == {m \in Message :
    /\ issued[m].color # Undefined
    /\ \A k \in Message : issued[k].issuer = issued[m].issuer /\ issued[k].color # Undefined
                              => issued[k].seq <= issued[m].seq}

\* The colours with the most weight behind the votes V, several in a tie.
Heaviest(V) ==
    LET backing(c) == MapThenSumSet(LAMBDA m : Weight[issued[m].issuer],
                                    {m \in V : issued[m].color = c})
    IN  {c \in Color : \A d \in Color : backing(c) >= backing(d)}

\* All honest nodes end up with one and the same of these colours and keep it,
\* whatever order the messages reached them in and whatever the adversaries do,
\* when some peer with weight votes at all.  Which of the heaviest wins a tie is
\* left open here (README.md:48 and models.go:229 have the larger colour win, and
\* getMaxOpinion takes the smaller one); that the nodes resolve it alike is not.
EventualOpinion ==
    <>[]((\E m \in Newest : Weight[issued[m].issuer] > 0)
            => \E c \in Heaviest(Newest) : \A n \in Honest : ownOpinion[n] = c)

\* multiverse/opinion_manager.go:150 "Update the opinions counter and
\* ownOpinion": the two agree whenever no opinion is being written.
OpinionsCounted ==
    (\A n \in Node : assigning[n] = Undefined) =>
        \A c \in Colors : opinions[c] = Cardinality({n \in Node : ownOpinion[n] = c})

=============================================================================
