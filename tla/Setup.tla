-------------------------------- MODULE Setup --------------------------------
(***************************************************************************)
(* How a simulated network is put together before it runs: the weights     *)
(* and bandwidths of its peers, the peers that become adversaries, the     *)
(* graph of who is a neighbour of whom, and who sends the double spends.   *)
(*                                                                         *)
(* All of it runs in one goroutine; what is left to chance are the order   *)
(* in which Go visits a map, the coin that decides whether an edge is      *)
(* rewired, and the peers that are drawn.                                  *)
(*                                                                         *)
(* A product with a percentage is rounded down from its exact value.       *)
(***************************************************************************)
EXTENDS Integers, FiniteSets, Sequences, SequencesExt

CONSTANT
    Configs     \* the configurations a run may start from

\* No code checks that the neighbours on the two sides of a node are different
\* ones; in a smaller ring the graph would begin with edges in both directions.
ASSUME ConfigsAssumption ==
    \A c \in Configs :
        /\ c.mode \in {"None", "Adversary", "Accidental", "Blowball"}
        /\ {c.nodes, c.total} \subseteq Nat \ {0}
        /\ {c.zipf, c.committee, c.others} \subseteq Nat
        /\ c.validators \in 0 .. c.nodes
        /\ c.attacker \in 0 .. c.nodes - 1 /\ c.attackerPercent \in 0 .. 100
        /\ c.halfDegree \in Nat \ {0} /\ 2 * c.halfDegree < c.nodes
        /\ {c.randomness, c.peeringAll} \subseteq BOOLEAN
        /\ {c.types, c.colors} \subseteq Seq(STRING)
        /\ {c.mana, c.counts, c.speedups} \subseteq Seq(Nat) /\ c.accidental \in Seq(Int)

VARIABLES
    config,
    phase,         \* what comes next
    nodeWeights, nodeBandwidth,  \* what the generators returned
    groupOf,       \* AdversaryNodeIDToGroupIDMap
    kinds,         \* of the peers created so far: their AdversaryType
    distribution,  \* ConsensusWeightDistribution
    bandwidth,     \* BandwidthDistribution
    graph,         \* of each node the heads of its edges
    tails,         \* the nodes whose edges are still to visit
    tail, edges,   \* the node being visited and its edges still to visit
    head,          \* the edge being rewired, or None
    neighbors,     \* Peer.Neighbors
    spenders       \* the peers that send a double spend, in order

creation == <<nodeWeights, nodeBandwidth, groupOf, kinds, distribution, bandwidth>>
wiring == <<graph, tails, tail, edges, head>>
setupVars == <<config, phase, creation, wiring, neighbors, spenders>>

None == -1
Node == 0 .. config.nodes - 1

Sum(f) == MapThenSumSet(LAMBDA x : f[x], DOMAIN f)

-----------------------------------------------------------------------------
(* Adversary groups *)

\* A list that does not fit the list of types is not used.
Fitting(list, types) == IF Len(list) = Len(types) THEN list ELSE <<>>

\* What parseAdversaryConfig makes of the types.
AdversaryTypes ==
    IF config.mode = "Adversary" THEN Fitting(config.types, config.colors) ELSE <<>>

AdversaryGroups ==
    LET types == AdversaryTypes
        mana == Fitting(config.mana, types)
        counts == Fitting(config.counts, types)
    IN  [g \in DOMAIN types |->
            [type    |-> types[g],
             percent |-> IF mana = <<>> THEN 1 ELSE mana[g],
             count   |-> IF counts = <<>> THEN 1 ELSE counts[g]]]

GroupCount == [g \in DOMAIN AdversaryGroups |-> AdversaryGroups[g].count]
GroupPercent == [g \in DOMAIN AdversaryGroups |-> AdversaryGroups[g].percent]

AdversaryCount == Sum(GroupCount)
AdversaryPercent == Sum(GroupPercent)

\* The number of nodes of the first n groups.
CountTo(n) == MapThenSumSet(LAMBDA g : GroupCount[g], 1 .. n)

\* The nodes after the first `count` ones, group by group.
GroupMap(count) ==
    [i \in count .. count + AdversaryCount - 1 |->
        CHOOSE g \in DOMAIN AdversaryGroups : i - count \in CountTo(g - 1) .. CountTo(g) - 1]

GroupWeight_X(g) == (AdversaryGroups[g].percent * config.total) \div 100

\* The weight of each node of group g.
GroupWeight(g) ==
    (AdversaryGroups[g].percent * config.total) \div (100 * AdversaryGroups[g].count)

-----------------------------------------------------------------------------
(* Weights and bandwidths, as functions from 0 on *)

\* What is lost by rounding down goes to the first node.
WithRemainder(w, total) == [w EXCEPT ![0] = @ + total - Sum(w)]

Power(b, k) ==
    LET power[n \in 0 .. k] == IF n = 0 THEN 1 ELSE b * power[n - 1] IN power[k]

\* ZIPFDistribution of a total weight of hundredths / 100.
ZIPFDistribution(count, hundredths) ==
    LET raw == [i \in 0 .. count - 1 |-> hundredths \div (100 * Power(i + 1, config.zipf))]
    IN  WithRemainder([i \in DOMAIN raw |-> (raw[i] * hundredths) \div (100 * Sum(raw))],
                      hundredths \div 100)

\* EqualDistribution: the validators only.
EqualDistribution ==
    WithRemainder([i \in Node |-> IF i < config.validators
                                  THEN config.total \div config.validators ELSE 0],
                  config.total)

Inserted_X(w, e, at) ==
    [i \in 0 .. Cardinality(DOMAIN w) |->
        IF i < at THEN w[i] ELSE IF i = at THEN e ELSE w[i - 1] + e]

\* insert moves the entries from `at` on up by one.
Inserted(w, e, at) ==
    [i \in 0 .. Cardinality(DOMAIN w) |->
        IF i < at THEN w[i] ELSE IF i = at THEN e ELSE w[i - 1]]

AttackerWeight == (config.attackerPercent * config.total) \div 100

\* ConfigureWeights, with AdversaryNodeIDToGroupIDMap in the mode that fills it.
ConfiguredWeights ==
    CASE config.mode = "Adversary" ->
            LET count == config.nodes - AdversaryCount
                w == ZIPFDistribution(count, config.total * (100 - AdversaryPercent))
            IN  [i \in Node |-> IF i < count THEN w[i] ELSE GroupWeight(groupOf'[i])]
      [] config.mode = "Accidental" -> ZIPFDistribution(config.nodes, config.total * 100)
      [] config.mode = "Blowball" ->
            Inserted(ZIPFDistribution(config.nodes - 1,
                                      config.total * (100 - config.attackerPercent)),
                     AttackerWeight, config.attacker)
      [] OTHER -> EqualDistribution

\* The slices that are indexed out of their range: no node left for the
\* generator, the attacker behind the last of the other nodes, nobody but validators.
ConfiguringPanics ==
    \/ config.mode = "Adversary" /\ AdversaryCount >= config.nodes
    \/ config.mode = "Blowball" /\ config.attacker + 1 > config.nodes - 1
    \/ config.validators = config.nodes

\* MixedZIPFDistribution: each bandwidth is a fraction; 0/0 is NaN.
MixedZIPFDistribution ==
    LET raw == [i \in 0 .. config.nodes - config.validators - 1 |->
                    config.others \div Power(i + 1, config.zipf)]
    IN  [i \in Node |-> IF i < config.validators
                        THEN [num |-> config.committee, den |-> config.validators]
                        ELSE [num |-> raw[i - config.validators] * config.others,
                              den |-> Sum(raw)]]

ConfigureNodes ==
    /\ phase = "configure"
    /\ IF ConfiguringPanics
       THEN phase' = "panicked" /\ UNCHANGED <<nodeWeights, nodeBandwidth, groupOf>>
       ELSE /\ phase' = "create"
            /\ groupOf' = GroupMap(config.nodes - AdversaryCount)
            /\ nodeWeights' = ConfiguredWeights
            /\ nodeBandwidth' = MixedZIPFDistribution
    /\ UNCHANGED <<config, kinds, distribution, bandwidth, wiring, neighbors, spenders>>

-----------------------------------------------------------------------------
(* Peers *)

Largest(w) == Max({0} \cup {w[p] : p \in DOMAIN w})

Extend(f, p, v) == [q \in DOMAIN f \cup {p} |-> IF q = p THEN v ELSE f[q]]

\* SetWeight of a peer that has none yet: each identifier is given once.
SetWeight(d, p, w) ==
    [weights |-> Extend(d.weights, p, w),
     total   |-> d.total + w,
     largest |-> IF w > d.largest THEN w ELSE d.largest]

\* One round of the loop of CreatePeers.  A group without a speedup panics.
CreatePeer ==
    LET i == Cardinality(DOMAIN kinds)
    IN  /\ phase = "create" /\ i < config.nodes
        /\ IF i \in DOMAIN groupOf /\ groupOf[i] > Len(config.speedups)
           THEN phase' = "panicked" /\ UNCHANGED <<kinds, distribution, bandwidth>>
           ELSE /\ kinds' = Extend(kinds, i, IF i \in DOMAIN groupOf
                                             THEN AdversaryGroups[groupOf[i]].type ELSE "Honest")
                /\ distribution' = SetWeight(distribution, i, nodeWeights[i])
                /\ bandwidth' = Extend(bandwidth, i, nodeBandwidth[i])
                /\ UNCHANGED phase
        /\ UNCHANGED <<config, nodeWeights, nodeBandwidth, groupOf, wiring, neighbors, spenders>>

-----------------------------------------------------------------------------
(* WattsStrogatz *)

\* Each node is joined to the halfDegree nodes after it.
Lattice ==
    /\ phase = "create" /\ DOMAIN kinds = Node
    /\ graph' = [n \in Node |-> {(n + j) % config.nodes : j \in 1 .. config.halfDegree}]
    /\ tails' = Node
    /\ phase' = "rewire"
    /\ UNCHANGED <<config, creation, tail, edges, head, neighbors, spenders>>

Visit(n) ==
    /\ phase = "rewire" /\ head = None /\ edges = {} /\ n \in tails
    /\ tail' = n
    /\ edges' = graph[n]
    /\ tails' = tails \ {n}
    /\ UNCHANGED <<config, phase, creation, graph, head, neighbors, spenders>>

Keep(h) ==
    /\ phase = "rewire" /\ head = None /\ h \in edges
    /\ edges' = edges \ {h}
    /\ UNCHANGED <<config, phase, creation, graph, tails, tail, head, neighbors, spenders>>

StartRewiring(h) ==
    /\ phase = "rewire" /\ head = None /\ h \in edges /\ config.randomness
    /\ head' = h
    /\ UNCHANGED <<config, phase, creation, graph, tails, tail, edges, neighbors, spenders>>

Refused_X(n) == n = tail \/ n \in graph[tail]
RefusedHub_X(n) == n = tail \/ tail \in graph[n] \/ n \in graph[tail] \/ n > tail

Refused(n) == n = tail \/ tail \in graph[n] \/ n \in graph[tail]

\* A draw of newHead; one that is refused is repeated.  The loop over the
\* edges may or may not come to the new one.
Rewire(n, again) ==
    /\ head # None /\ ~Refused(n)
    /\ graph' = [graph EXCEPT ![tail] = (@ \ {head}) \cup {n}]
    /\ edges' = (edges \ {head}) \cup (IF again THEN {n} ELSE {})
    /\ head' = None
    /\ UNCHANGED <<config, phase, creation, tails, tail, neighbors, spenders>>

Redraw == head # None /\ (\E n \in Node : Refused(n)) /\ UNCHANGED setupVars

Joined_X(p) == graph[p]

\* The peers that an edge joins to p, in either direction.
Joined(p) == graph[p] \cup {q \in Node : p \in graph[q]}

\* The end of WattsStrogatz, and ApplyNeighborsAdversaryNodes.
ConnectPeers ==
    /\ phase = "rewire" /\ head = None /\ edges = {} /\ tails = {}
    /\ neighbors' = [p \in Node |-> IF config.peeringAll /\ p \in DOMAIN groupOf
                                    THEN Node ELSE Joined(p)]
    /\ phase' = IF config.mode \in {"Accidental", "Adversary"} THEN "spend" ELSE "done"
    /\ UNCHANGED <<config, creation, wiring, spenders>>

-----------------------------------------------------------------------------
(* SimulateDoubleSpent *)

\* The values of AccidentalMana that are no identifier.
Random == -1
MaxMana == -2
MinMana == -3

\* What parseAccidentalConfig keeps of the list.
AccidentalMana == IF config.mode = "Accidental" THEN config.accidental ELSE <<>>

\* The issuers AccidentalMana names, without identifiers that are out of range.
NamedIssuers ==
    LET Named(a) == CASE a = MaxMana -> 0 [] a = MinMana -> config.nodes - 1 [] OTHER -> a
        known == SelectSeq(AccidentalMana, LAMBDA a : Named(a) \in Node)
    IN  [k \in DOMAIN known |-> Named(known[k])]

RandomCount == Cardinality({k \in DOMAIN AccidentalMana : AccidentalMana[k] = Random})

Drawn == {spenders[k] : k \in Len(NamedIssuers) + 1 .. Len(spenders)}

NameIssuers ==
    /\ phase = "spend" /\ config.mode = "Accidental"
    /\ spenders' = NamedIssuers
    /\ phase' = "draw"
    /\ UNCHANGED <<config, creation, wiring, neighbors>>

\* RandomPeers draws until it has RandomCount peers; a peer drawn before
\* changes nothing.
DrawPeer(p) ==
    /\ phase = "draw" /\ Cardinality(Drawn) < RandomCount /\ p \notin Drawn
    /\ spenders' = Append(spenders, p)
    /\ UNCHANGED <<config, phase, creation, wiring, neighbors>>

SpendAccidentally ==
    /\ phase = "draw" /\ Cardinality(Drawn) = RandomCount
    /\ phase' = "done"
    /\ UNCHANGED <<config, creation, wiring, neighbors, spenders>>

CastAdversary(p) == kinds[p] # "Blowball"

\* AssignColor of a node that can not be cast panics.
SpendOnPurpose ==
    /\ phase = "spend" /\ config.mode = "Adversary"
    /\ LET cast == {p \in DOMAIN groupOf :
                        \A q \in DOMAIN groupOf : ~CastAdversary(q) => p < q}
       IN  /\ spenders' = SetToSortSeq(cast, <)
           /\ phase' = IF cast = DOMAIN groupOf THEN "done" ELSE "panicked"
    /\ UNCHANGED <<config, creation, wiring, neighbors>>

-----------------------------------------------------------------------------

Nothing == [n \in {} |-> 0]

SetupInit ==
    /\ config \in Configs
    /\ phase = "configure"
    /\ nodeWeights = Nothing /\ nodeBandwidth = Nothing /\ groupOf = Nothing
    /\ kinds = Nothing /\ bandwidth = Nothing
    /\ distribution = [weights |-> Nothing, total |-> 0, largest |-> 0]
    /\ graph = [n \in Node |-> {}] /\ tails = {} /\ tail = None /\ edges = {} /\ head = None
    /\ neighbors = [p \in Node |-> {}]
    /\ spenders = <<>>

SetupNext ==
    \/ ConfigureNodes
    \/ CreatePeer
    \/ Lattice
    \/ \E n \in Node : Visit(n) \/ Keep(n) \/ StartRewiring(n)
    \/ \E n \in Node, again \in BOOLEAN : Rewire(n, again)
    \/ Redraw
    \/ ConnectPeers
    \/ NameIssuers
    \/ \E p \in Node : DrawPeer(p)
    \/ SpendAccidentally
    \/ SpendOnPurpose

\* Setting up goes on, a peer that is not refused is drawn in the end, and
\* the loop over the edges of a node does not come to new edges for ever.
SetupFairness == WF_setupVars(SetupNext) /\ SF_setupVars(\E n \in Node : Rewire(n, FALSE))

SetupSpec == SetupInit /\ [][SetupNext]_setupVars /\ SetupFairness

-----------------------------------------------------------------------------
(* Properties *)

Created == phase \notin {"configure", "panicked"} /\ DOMAIN kinds = Node

\* The weights of the peers make up the total weight of the configuration:
\* all the rounding, splitting and inserting of the modes of ConfigureWeights
\* gives no weight away twice, and loses less than one unit per adversary and
\* one more.  The totals the thresholds are compared with agree with them.
WeightsAddUp ==
    Created =>
        /\ distribution.total = Sum(distribution.weights)
        /\ distribution.largest = Largest(distribution.weights)
        /\ config.total - distribution.total \in 0 .. AdversaryCount + 1

\* The identifiers given to a group before the peers exist are those of the
\* peers that are of its type and that together hold its mana.
GroupsHoldTheirMana ==
    Created =>
        /\ \A g \in DOMAIN AdversaryGroups :
            LET members == {p \in Node : p \in DOMAIN groupOf /\ groupOf[p] = g}
                held == MapThenSumSet(LAMBDA p : distribution.weights[p], members)
            IN  /\ Cardinality(members) = AdversaryGroups[g].count
                /\ \A p \in members : kinds[p] = AdversaryGroups[g].type
                /\ 100 * held <= AdversaryGroups[g].percent * config.total
                /\ 100 * (held + AdversaryGroups[g].count) > AdversaryGroups[g].percent * config.total
        /\ \A p \in Node \ DOMAIN groupOf : kinds[p] = "Honest"

\* Rewiring moves edges and neither loses one nor joins a node to itself or
\* twice to the same node, although it changes the maps it iterates over:
\* the number of connections stays nodes * halfDegree.
EdgesKept ==
    phase = "rewire" =>
        /\ \A n \in Node : n \notin graph[n]
        /\ Cardinality({{n, h} : n \in Node, h \in Node} \cap
                       UNION {{{n, h} : h \in graph[n]} : n \in Node})
           = config.nodes * config.halfDegree

\* Nobody is left without neighbours, and whoever gossips to a peer is a
\* neighbour the peer can answer, unless it is an adversary that peers with all.
AnswerableNeighbors ==
    Created /\ phase \in {"spend", "draw", "done"} =>
        \A p \in Node :
            /\ Cardinality(neighbors[p]) >= config.halfDegree
            /\ \A q \in neighbors[p] :
                   p \in neighbors[q] \/ (config.peeringAll /\ p \in DOMAIN groupOf)

\* The edge being rewired has nowhere to go: its node neighbours everyone.
Hub == head # None /\ Joined(tail) \cup {tail} = Node

\* What no check of the program asks of its configuration.
Reasonable ==
    /\ AdversaryCount < config.nodes
    /\ config.validators < config.nodes
    /\ config.mode = "Blowball" => config.attacker < config.nodes - 1
    /\ Len(config.speedups) >= Len(AdversaryGroups)
    /\ \A g \in DOMAIN AdversaryGroups : AdversaryGroups[g].type # "Blowball"
    /\ RandomCount <= config.nodes

\* Every group has a node to hold its mana, and the adversaries leave at least
\* one unit of weight to the others.  Nothing checks it: without the first the
\* mana of a group belongs to nobody, without the second ZIPFDistribution
\* divides zero by zero.
SharesLeft ==
    /\ \A g \in DOMAIN AdversaryGroups : AdversaryGroups[g].count > 0
    /\ config.mode = "Adversary" => config.total * (100 - AdversaryPercent) >= 100
    /\ config.mode = "Blowball" => config.total * (100 - config.attackerPercent) >= 100

\* From a reasonable configuration the setup comes to its end, without a
\* panic, unless the rewiring makes one node the neighbour of all the others
\* and then draws new ends for its edge for ever.
SetupEnds == <>(phase = "done" \/ Hub \/ ~Reasonable)

=============================================================================
