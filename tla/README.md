# A verification of TangleSim in TLA+

TangleSim (package `multivers-simulation`) simulates a network of Tangle nodes:
peers issue messages that reference earlier ones, gossip them, book them into
their local DAG, vote with them on conflicting colours, confirm them by approval
weight and pass them on through a congestion-control scheduler. This directory
holds TLA+ models of its components, TLC configurations that check them on small
instances, and TLAPS proofs for all instances. Line numbers refer to the sources
under `src/`.

Contents: 1 the system, 2 the modules, 3 the runs and their bounds, 4 fairness,
5 the proofs, 6 where code and documentation disagree, 7 what is not modelled,
8 the plan.

## 1. The system

### Goroutines

Every peer has one goroutine `processMessages` (`main.go:181`) that takes, one
at a time, a network message from its socket, a tick of the scheduler or a tick
of the validator, and runs the whole chain of handlers for it. All the state of
the peer's `Tangle` is touched by this goroutine only, with these exceptions:
`issueMessages` (`main.go:288`) reads the scheduler in `RateSetter` and puts
payloads into the socket; `SimulateDoubleSpent` (`main.go:1341`), in the main
goroutine, writes an adversary's opinion; the timers of the Requester take its mutex; the
connections deliver into the sockets of other peers; the metrics are global.
So handlers of one node are atomic with respect to each other, handlers of
different nodes interleave freely, and the listed exceptions are where real
races are.

### How a message travels

    socket -> Node.HandleNetworkMessage -> Tangle.ProcessMessage
      Storage.Store --MessageStored--> Solidifier.Solidify
          missing parent --MessageMissing--> Requester.StartRequest -> gossip a request
          solid --MessageSolid--> Booker.Book --MessageBooked--> OpinionManager.FormOpinion
                |                    |                     `--> Scheduler.EnqueueMessage
                |                    `--MessageInvalid--> (nobody)
                `--> ApprovalManager.ApproveMessages --MessageConfirmed--> Scheduler
          then the same for every child
      then Requester.StopRequest
    scheduler tick -> Scheduler.ScheduleMessage --MessageScheduled--> gossip,
                      TipManager.AnalyzeMessage, promotion of the children
    payload in socket -> MessageFactory.CreateMessage (tips, burn) -> ProcessMessage

### Components

| component | state | operations | what makes it correct | hard behaviour | module |
|---|---|---|---|---|---|
| Storage | messages, metadata, children, slots, RMC, ATT | Store, isReady, TooOld, AddToAcceptedSlot, NewRMC | children complete; ATT is the newest confirmed time; nodes agree on the RMC | late messages, skipped slots, costs written ahead | Tangle, ApprovalWeight, ManaCost |
| Solidifier | solid flags | Solidify | solid = past cone complete | any order of arrival, recursion | Tangle |
| Requester | requested ids and timers | StartRequest, StopRequest, retry | asks for exactly what is missing, until it comes | start and stop within one handler chain; loss | Tangle, Gossip |
| Booker | inherited colour | Book | nodes agree on colours | parents in different orders | Tangle |
| OpinionManager | peers' opinions, weights per colour, own opinion, confirmed flag | FormOpinion, SetOpinion | newest votes count once; opinion = heaviest colour; no missed or conflicting confirmation | votes out of order, changed votes, ties, race with AssignColor | OpinionManager |
| Adversaries | as above | shifting, same opinion, no gossip, blowball | do not harm honest opinions | two goroutines, one-sided connections | OpinionManager, Gossip |
| ApprovalManager | bits, weight, confirmed, orphaned | ApproveMessages | exact approvers; final verdicts | ATT moves in mid-walk; walk stops at set bits | ApprovalWeight |
| ICCA+ scheduler | nonReadyMap, issuer queues, deficits, ring | EnqueueMessage, BufferManagement, ScheduleMessage, confirmation handler, BurnValue | nothing lost or doubled; parents first; fairness | full buffer, double promotion, two ways to eligibility | ICCAScheduler, DeficitRoundRobin, Overtaking, ManaCost |
| Mana burn scheduler | nonReadyMap, one heap, accounts of mana | the same interface, burn policies | each message charged once; what bids most is not dropped | drop tail while promoting | MBScheduler |
| NoScheduler | none | passes on what is booked | every message arrives | | Gossip |
| TipManager | tip sets per colour | AnalyzeMessage, Tips | tips reference booked messages of one colour | inheritance of the uncoloured set, old tips | TipManager |
| MessageFactory, issuance | sequence number, access mana | CreateMessage, RateSetter | numbers increase; what was paid is accepted | stale check in another goroutine | TipManager, ManaCost, MBScheduler |
| Network | connections, sockets | Send, HandleNetworkMessage | messages arrive in the end | delay, loss, retries, missing connections | Gossip |
| Topology, groups, weights | graph, weights, bandwidths, groups of adversaries | ConfigureWeights, CreatePeers, WattsStrogatz, ApplyNeighborsAdversaryNodes, double spends | totals, degrees, groups hold their mana | rounding, rewiring, configurations nobody checks | Setup |
| Metrics | counters, CSV writers | handlers of the events, dump | counters agree with nodes | only change events are seen | OpinionManager, Gossip |
| Config, logger, scripts | parameters | | | | Setup (parser of adversary groups and accidental issuers) |

## 2. The modules

Common conventions. Messages are natural numbers, smaller ones older, because
`NewMessageID` counts up and a message references messages that exist; `Genesis`
is 0 as in the code. What was issued is a function `issued` chosen in `Init`
from the constant `Universe`: the runs take every DAG, colouring or list of votes
of a small size, the proofs any set of them. Definitions whose name ends in `_X`
are deliberately wrong variants of the definition below them: substituting one
has to make a run fail, which shows that the property notices such a bug.
The theorems about a module `X` are in `XProofs` (`OpinionProofs` for
`OpinionManager`, `ApprovalProofs` for `ApprovalWeight` and, in its second half,
`Setup`, `ICCAProofs` for `ICCAScheduler`, `ManaCostProofs` also for
`DeficitRoundRobin` and `Overtaking`, `TangleProofs` also for Gossip);
`InductionLemmas` has what they share.

### Tangle

The path of a message through `Storage.Store`, the recursive `Solidifier`, the
`Requester`'s bookkeeping and the `Booker`, on any number of nodes.

| TLA+ | code |
|---|---|
| `stored`, `solid`, `color`, `requested` | `messageDB`, metadata `solid` and `inheritedColor`, `queuedElements` |
| `frames` | the call stack of `Solidify`: a frame is a `for range` loop, its elements the children not yet visited, in any order as Go's maps allow |
| `current` | the message in `ProcessMessage` |
| `Store` | `Storage.Store` and the call of `Solidify` on the message |
| `BecomeSolid` | `Solidify` on a message whose parents are all solid, with `Book` |
| `NotYetSolid` | `Solidify` that returns early, with `StartRequest` for the missing parents |
| `LoopEnds`, `StopRequest` | end of a loop; second handler of `MessageStored` |

Any issued message may reach any idle node at any time: that covers gossip,
requests and answers, loss (it does not come) and reordering. A second arrival
changes nothing (`Store` returns early) and is a stuttering step. A message that
`Store` refuses because it burns less than the RMC counts as not arrived.

### OpinionManager

`FormOpinion` of honest and shifting nodes, `SetOpinion` called by
`AssignColor`, and the counters `opinions` and `confirmedNodes` of `main.go`.
A booked message is a vote: issuer, sequence number, colour; nodes book votes in
any order. The colour is a field of the message because `ColorAgreement` (below)
shows that nodes agree on it. `FormOpinion` splits into `Ignore` (old or
undefined), `Repeat` (same colour, newer number) and `Vote`. `AssignColor` and
`ColorAssigned` are the two halves of `SetOpinion`: events, then write.
`Bar` is threshold times total weight, rounded down: the code compares integers
with it by `>`, so the rounding loses nothing.

A run starts from a `setting`: which nodes are honest, and whether the threshold
is absolute. Both types of adversary that hold an opinion run the shifting one.

The adversary nodes attach `FormOpinion` twice, once when they are built and
once in `Tangle.Setup`. The second call has the sequence number of the first and
is an `Ignore` that changes nothing.

### ApprovalWeight

`ApproveMessages` of one node: a walk per solid validation message, one action
per visited message. `queue` is the walker's FIFO queue as a sequence of batches;
a batch holds the parents one `for range` loop pushed, whose order is open.
`approvers` are the bits of `weightSlice`, `att` the accepted tangle time, which
the confirmation handler of the scheduler moves (`AddToAcceptedSlot`, with the
ICCA+ and mana burn schedulers) in the middle of the walk. Solidification takes
messages in any order that respects parents, a superset of the recursion's orders.

### DeficitRoundRobin, Overtaking, ICCAScheduler

`DeficitRoundRobin` is the abstract specification of who is served next: only
queue lengths, deficits and the ring; the choice in closed form (`IsNext`), the
update in closed form (`DeficitsAfter`). `Overtaking` adds a history variable
for the bound on waiting. `ICCAScheduler` is the code: `nonReadyMap`, queues,
eligibility, promotion, drop head, the loop of `selectIssuer` as a recursive
function, the increments in the order of the code. It implements
`DeficitRoundRobin` under the mapping `backlog` = lengths of the queues
(`ImplementsRoundRobin`).

Deficits and quanta are whole numbers of a fraction of a message's work; the
code has float64. The instances take quanta for which all divisions are exact.
Only the loop of `BufferManagement` is spread over steps; while it runs
(`trimming`) nothing else happens in the node. `Confirm` lets any solid message
become confirmed at any time, more than the approval manager does.
`gossiped` counts how often `MessageScheduled` hands a message to the network;
`dropped` remembers what the code forgets.

### TipManager

One node with its tip sets, in a DAG that it and the others grow: unlike in the
other modules, what is issued is a result and not an input.

| TLA+ | code |
|---|---|
| `known`, `tipSets` | the keys and values of the map `tipSets`; of each set `strongTips`, `validatorStrongTips`, `validatorValidationTips` |
| `AnalyzeMessage` | the handler of `MessageScheduled`; `Receiving` are the sets `TipSets` returns |
| `Tips`, `Draw`, `IssueMessage`, `CannotBurn` | `CreateMessage`: the tip set of the own opinion; one round of `TipSelect`; the message and its processing, or `BurnValue` refusing it |
| `selecting`, `left`, `chosen` | its local variables |
| `outdated`, `GrowOld` | which messages are older than `DeltaURTS`; the clock runs between the rounds |
| `Book`, `IssueElsewhere` | arrival of messages after their parents; what the other nodes issue |

The environment is wider than the other modules allow: the opinion changes at any
time to any colour, messages are scheduled in any order or never, and validation
messages and own ones any number of times. `late` remembers those that become
tips after a child or once more. The colour of a message is computed when it is
issued, which `ColorAgreement` justifies. An own message burns the RMC of its
slot, so `Store` never refuses it.

### ManaCost

`Storage.RMC` and `NewRMC`, `Store` as far as it refuses, `CreateMessage` with
`BurnValue` and the access mana of the ICCA+ scheduler, on several nodes with one
clock.

| TLA+ | code |
|---|---|
| `slotDB`, `rmc` | the slots with an entry; the costs, `None` where the map has none |
| `RMC`, `Enter`, `NewRMC` | the two ways to a cost: creating or metering (`RMC`) and `Store` of a message of any slot |
| `CountedSlots`, `IsBoundary`, `Updated` | the traffic of the period before the committable age, the boundaries, the limits |
| `CreateMessage`, `Store`, `Tick` | the handlers; `Tick` is the scheduler's ticker with `monitorLocalMetrics`, whose first call of all only prepares its maps |
| `skipped`, `behind` | history: who came to a slot out of turn, who counted without a message old enough to be counted |

The two histories are the weakest conditions found under which nodes agree: a node
that comes to a slot out of turn copies the cost of a slot it has not computed
(zero), and a node that counts before it has the messages that are old enough
counts too few. The ticker of every node comes to every slot when a slot is
longer than a tick, and messages arrive within the committable age in a
configuration that makes sense; no check of the program asks for either. Whether a
message is accepted depends on its issuer alone: a receiver that skipped slots or
counted too little has costs that are equal or lower (`PaidMessagesAccepted`). And no
history takes a cost above `RMCmax` (`CostInRange`).

### MBScheduler

`MBScheduler`: `nonReadyMap`, the heap `readyQueue` with drop tail, promotion by
the scheduling and by the confirmation of a parent, and the accounts of access
mana. The heap is a set with the order `Less`; where `Less` leaves several
messages for the head or the tail, either may be taken, since the model does not
keep the layout of the heap. `Trims` is the loop of `BufferManagement`: it may
run after each promotion in any order of Go's maps and ends in one of these sets.
A policy that is none of the four panics in the code and is excluded by
`PolicyAssumption`.

### Gossip

Peers, connections and requests of a network that runs without a scheduler, with
the counters of `monitorGlobalMetrics`.

| TLA+ | code |
|---|---|
| `net` | the graph, the connections without loss, the DAG |
| `stored`, `requested` | `messageDB`, `queuedElements` |
| `packets` | what was sent and not yet handled, delayed or in a socket |
| `ProcessMessage`, `FinishStored` | the handlers of `MessageStored` up to the Solidifier, with all it triggers, and those after it |
| `AnswerRequest`, `IgnoreRequest`, `Retry` | `HandleNetworkMessage` of a request; the timer of the Requester |
| `CountStored`, `CountConfirmed` | the two handlers of main.go and their six counters |

What the Solidifier does is its proved specification (`SolidIsConeStored`) and not
its loop again. Packets are a set: a second copy under way changes nothing,
because the first makes the receiver store the message. Confirmation is a
stand-in, messages heavy enough to confirm their past cone, so that the counters
have something to count.

### Setup

What happens before the peers run, in the order of the code: the lists of the
configuration (`AdversaryGroups`), weights and bandwidths (`ConfigureNodes`),
`CreatePeer`, the graph (`Lattice`, `Visit`, `Keep`, `StartRewiring`, `Rewire`,
`Redraw`: the loops of `WattsStrogatz` over maps that change under them),
`ConnectPeers`, and the double spends. Chance is a choice; a draw that is refused
is the stuttering step `Redraw`, so drawing for ever is a behaviour. Shares of the
mana are computed exactly and rounded down, where the code has float64. A slice
indexed out of its range or a failed cast is the phase `panicked`.

## 3. The runs

| run | question | instance |
|---|---|---|
| `tangle_dags` | solidity, requests, agreement on colours | 2 nodes, every DAG of 3 messages, strong and weak references, 2 colours or none |
| `opinion_votes` | votes, weights, opinions, confirmations, counters; honest nodes end with one of the heaviest colours, the same | 2 honest nodes under the absolute threshold, or an honest and a shifting one under the relative one; 3 peers of weights 2, 1, 1, 4 votes, 3 colours or none, threshold 2, fairness |
| `opinion_race` | ends with a counterexample, see section 6 | the same votes, one adversary |
| `approval` | approvers, weights, verdicts and the ATT | every DAG of 3 messages of 2 peers of weights 2 and 1, validation or not, weak references, 3 moments |
| `round_robin` | bounded overtaking, no starvation | 3 issuers with quanta 2, 2, 4 for a work of 8, deficit capped at 16, fairness |
| `icca_kinds` | nothing doubled or early, everything passed on in the end | every DAG of 3 messages, plain, validation or invalid, 2 issuers, a buffer of 1, a node that does not burn, fairness |
| `icca_queues` | drop head, waiting, refinement | every strongly linked DAG of 4 messages, 3 issuers, a buffer of 2 |
| `tips` | tips are booked and of one colour, exist, cover the DAG, have no children | one node and the others issue 3 messages, 2 colours or none, RURTS, 2 parents, 1 validation and 1 other parent for a validation message |
| `setup` | weights, groups, connections, termination | rings and lattices of 4 to 6 nodes with every outcome of the rewiring; adversaries of two groups on 6 nodes, with and without mana and with too few entries; accidental issuers of every kind; each blowball attacker; configurations that panic |
| `mana_cost` | agreement on the cost, acceptance of what was paid, limits | 2 nodes, 3 messages, slots 0 to 4, a period of 2 slots, costs 1 and 2 |
| `mana_burn` | accounts, promotion, drop tail | DAGs of 4 messages of 2 issuers in which one message has up to 3 children, a buffer of 1, 4 burn policies, 2 paid ticks, fairness |
| `network` | metrics, requests, dissemination | 3 peers, 2 messages, a lossy path, a path and a triangle without loss, an adversary connected to all, 3 choices of issuers, fairness |

Why these bounds are enough to be interesting. Three messages are the smallest
DAGs in which a message has two parents, one of them below the other, so that
the recursion reaches a message twice and several parents are missing at once,
and in which a conflict or a walk reaches past a direct parent; the proofs
(section 5) cover every size.
Three peers with weights 2, 1, 1 give ties, majorities of weight that are not of
number, and with four votes a peer that changes its mind. Three
moments with MinCommittableAge 1 contain ages below, at and above the limit. With
three issuers the ring has a position that is neither the first nor the last, and
a work of 8 for quanta of 2 and 4 needs several rounds; a buffer of 1 or 2 makes
dropping happen while other messages wait. In `mana_cost` the first boundary after
RMCTime is slot 2, the second slot 4: a node can skip a slot, count too early or
write a cost ahead and judge by it. In `mana_burn` one handler promotes two
children into a buffer of one, so that a promoted message is dropped at once; the
node can afford some messages and not others. In `network` the peer in the middle
can miss a parent that only one of its neighbours has, and the ends reach each
other only through it. In `setup` a lattice of 5 nodes with two neighbours on each
side is complete (every draw is refused), one of 6 is not. A bound that only serves
TLC is named in the module: `MaxMessage` of TipManager (the messages issued),
`MaxBacklog` (the longest queue), `OneMore` (the history counter stops one above
the bound it is compared with), `LastSlot`, `MaxMessages`, `MaxMana` of ManaCost,
`MaxTicks` of MBScheduler, `Universe` (the DAGs), `Configs` of Setup.

Deadlock is checked in `round_robin`, where arrivals never end. In the other runs
the number of messages is finite and the model stops when all have been handled,
so `CHECK_DEADLOCK FALSE`. `tangle_dags` uses symmetry over nodes and colours,
which nothing in the Tangle module tells apart, `tips` over colours, `mana_cost`
over nodes; no liveness run does.

The run `tips` takes two parents so that a message can close two branches, and
colours that are first asked for after tips of no colour and of the other colour
exist; its history is short, but each of its four properties fails on it for a
plausible bug, and all four are proved for histories of any length. `URTS` is
covered by the proofs only.

`AllPassedOn` excuses a message only while something it rests on, and that is not
eligible, was dropped or is invalid: `icca_kinds` has a buffer of one, so drops
happen, and its DAGs contain many in which nothing is dropped.
`PassedOnUnlessDropped` excuses the messages above a dropped one.

`ConfirmedColorsAgree` has two preconditions stated in it: no peer voices two
colours and the threshold is at least half of the weight. `opinion_votes` has
universes on both sides of the first one and its Bar of 2 is exactly half of 4.

`SetupEnds` names in `Reasonable` what a configuration has to fulfil and no code
checks, and in `Hub` the one way in which the rewiring draws for ever.
`StoredBecomesSolid` and `EveryMessageArrives` excuse a panic where a connection
has no counterpart in the other direction: an adversary that
`ApplyNeighborsAdversaryNodes` connects to everybody can ask peers that cannot
answer it, and `Neighbors[...].Send` of the missing connection dereferences nil.

## 4. Fairness

* `OpinionManager`: weak fairness of booking per node, which is that of
  `FormOpinion`, the only action that books. The processing
  goroutine never stops while the simulation runs, and gossip with retried
  requests brings the messages; that these arrive is an assumption here.
* `Setup`: weak fairness of going on, because one goroutine runs it to its end,
  and strong fairness of accepting a drawn peer: draws are independent, and a peer
  that is not refused has a positive chance. The accepted step is one whose new
  edge the running loop does not visit again: Go's map iteration leaves that open,
  and does not visit new entries for ever.
* `MBScheduler`: weak fairness of the tick.
* `Gossip`: weak fairness of the peers' goroutines and of the timers for each
  missing message and neighbour, strong fairness of answering with an answer that
  arrives, because each packet is lost by a chance of its own that is less than
  one. The issuing of messages is not fair.
* `DeficitRoundRobin`, `ICCAScheduler`: weak fairness of serving, because
  `processMessages` calls `ScheduleMessage` at every tick, and of the loop of
  `BufferManagement`, which runs to its end. Arrivals and confirmations are never
  assumed fair.

## 5. The proofs

The proof modules hold for every set of nodes, messages, colours, weights, every
threshold and every universe that satisfies the named assumptions of the module:
identifiers of parents are smaller, sequence numbers are unique per issuer, times
do not decrease along references, quanta are positive, the cap is at least the
work of a message, the initial cost is within its limits, the period is positive.

* `TangleProofs`. The inductive invariant says that the solid messages are closed
  under parents, that every stored message whose parents are all solid is solid
  or still pending in some frame, that what a frame has left to visit is stored,
  and that each missing parent is requested or belongs to a pending message.
  `SolidIffConeStored` follows when the frames are empty: among the messages of a
  complete past cone that are not solid take the oldest; its parents are solid,
  so it would be pending. `NoSilentStall` and `RequestsAreWanted` follow from the
  same invariant. `ColorAgreement` is an induction over identifiers from the fact
  that a solid message's colour is a function of its payload and its parents'
  colours.

  At its end is `MetricsExact`, about Gossip. `MetricsInv` is the shape of the state and
  `Counted`, which is `MetricsAgree` with the sets of peers as functions of the message.
  It is inductive, because the counters move when messages come to one more peer and
  only then: those that were nowhere enter the ones at some peers, those that are
  everywhere leave them (`OnePeerMore`), and both are told from a counter of the
  message, which is a cardinality (`PeersCount`). For confirmed messages that is a
  whole set in one step, for a stored one the step in which its handlers end. What a
  peer has confirmed only grows (`ConfirmedGrows`).
* `InductionLemmas`. Induction is stated for sets instead of predicates: a set of
  numbers with 0 and, with k, k + 1; a collection of sets with the empty one and,
  with a set, the set with one element more. From it come the existence and
  uniqueness of functions defined by recursion over numbers (`NumberRecursion`) and
  over finite sets, and from these the sums: `MapThenSumSet` is a `CHOOSE` of such a
  function, so that it has its equations only once one exists. `SumTake`, `SumAdd`,
  `SumEqual`, `SumDisjoint`, `SumSubset` and `SumMonotone` are what the components use.
  The few facts about products and quotients that the provers need one at a time are
  at its end.
* `OpinionProofs`. The first invariant has the shape of the maps and that colours are
  never assigned to honest nodes; from it `LatestOpinion` and `NoMissedConfirmation`.
  The second (`WInv`) adds that the weight a node holds for a colour is the sum over
  the peers it attributes that colour to. A vote takes the peer out of one sum and puts
  it into another (`MovedAddUp`). With `LatestOpinion` that is `WeightsAddUp`.
  It also gives that a changed opinion is one the node knows a voter of, without which
  the counters could leave their domain. `CInv` adds the counters: they
  change by one exactly when the set they count changes by one node (`OneApart`), and
  need to know that `AssignColor` has not begun (`AssignedFirst`). `AInv` adds
  that a confirmed colour is backed by more than `Bar`, unless some peer voices two
  colours. That is more than `CheckColorConfirmed` says, since what was confirmed stays
  confirmed: the weight of a colour must not shrink, which is where the premise is
  used. Two confirmed colours would have disjoint sets of voters of more than `Bar`
  each, and twice `Bar` is all there is.
* `ApprovalProofs`. The core is `WalkInv`: everything a set bit lies above is set
  as well or still ahead of the running walk (`BitsSpread`), and each bit is
  justified by a validation message of that peer (`BitsJustified`). It gives
  `ApproversExact`; the verdicts and the ATT are inductive with it. `WeightInv` adds
  that a weight is at every moment, also in the middle of a walk, the sum over the set
  bits, and that who has been visited and is heavy enough has a verdict. Between two
  messages bits spread to the parents, so a parent is at least as heavy (`SumSubset`),
  and `ConfirmedRestsOnDecided` follows.

  The second half is about Setup, for any number of nodes, groups and neighbours. Two
  invariants are enough, since the phases follow one another. `GraphInv`: from the time
  the lattice stands each node has `halfDegree` heads, is none of them, and no two nodes
  are heads of each other. The last is what the code's test of a drawn peer keeps, and
  it lets the edges be counted by their tails: the edges of different nodes are
  different, so their number is nodes times `halfDegree` (`EdgeCount`, `EdgesKept`), at
  every moment of the loops over the maps that change. The lattice has it (`Ring`)
  because twice `halfDegree` is less than the number of nodes, as `ConfigsAssumption`
  says, and as no code checks: no two nodes are among each other's next ones on the ring. `AnswerableNeighbors` follows, as `ConnectPeers` joins both ends of
  an edge.

  `WeightsInv` says that the weights `ConfigureWeights` leaves are natural numbers (the
  code's are unsigned: no remainder falls below zero), add up to the configured total
  but for less than a unit per adversary and one more, and that each member of a group
  has the equal part of the group's mana (`ConfiguredRight`); then, per peer created,
  that total and largest weight are those of the peers so far (`PeersRight`). The modes
  come down to sums over ranges: the Zipf shares, whose remainder goes to node 0,
  equal shares, the weights of the groups, each a range of identifiers after the
  honest ones, and the attacker's weight put between others (Blowball). `WeightsAddUp`
  and `GroupsHoldTheirMana` are proved from `SharesLeft`, a condition on the
  configuration: each group has a node, and the adversaries leave at least one unit to
  the others. Without it the code gives the mana of a group to nobody or divides zero by
  zero; nothing checks it.
* `ICCAProofs`. The invariant says that a booked message is in exactly one of the
  places, that a waiting one lacks an eligible parent, and that solid sets are
  closed under parents. `WaitsForAQueue` follows by taking the oldest message of
  the cone that is not eligible. `InRange`, that deficits stay in `0 .. MaxDeficit`, is
  proved here for the scheduler and in `ManaCostProofs` for the abstract round robin; the
  arithmetic fact is that the rounds of the selected issuer bring its deficit to the work
  at least.
  `RefinesRoundRobin` is the refinement, step by step. Booking and confirming map to
  `Arrive`, `DropHead` to `Drop`, `ScheduleMessage` to `Serve` of the issuer it selects,
  with what it promotes arriving in the same step; the others stutter. `Serve` needs two
  things of the code. The three calls of `incrementDeficit` per issuer, each of
  which caps, add up to the one capped increment of the closed form (`SameDeficits`): here
  `InRange` and the cap being at least the work are needed, or the cap would cut off what is then
  paid. And the loop of `selectIssuer`, one turn of the ring that compares
  fractions, ends at the issuer `IsNext` describes (`SelectsNext`): by induction over
  the positions, what it holds has a message and comes before all others seen
  (`TurnFindsFront`), for which comparing by fractions has to be transitive
  (`FractionOrder`, `RoundsOrder`).
  `OnlyExcessDropped` needs that the issuer whose queue is the longest for its
  quantum has its share of all that is queued (`LongestHasShare`): otherwise the sum over
  the issuers would be less than the whole.
* `TipManagerProofs`. A tip set `Serves` its colour when its tips are among the
  messages added for that colour, every one of these is in the past cone of the
  tips, and the strong tips are those without an approver, late ones excepted.
  `AddTipServes` shows that adding a message keeps that, `TipSetServes` that a set
  made late starts with it, because no message of its colour has been added
  before. `CoveredBy` states membership in a past cone without recursion: every
  set that contains the tips and, with a message, its parents contains it. While
  the node is in `CreateMessage` the invariant says that what was found is booked
  and of one colour and that, as long as nothing was found, a pool still to be
  drawn from is not empty (`Selecting`). All four properties of `tips` follow.
* `ManaCostProofs`. A node that skipped no slot has entries for the slots `0 .. k`,
  has computed the cost of each of them, and whatever it wrote, also ahead, is
  within the limits; a node that skipped slots computes on from zero, which
  `Updated` never raises above `RMCmax` (`NewRMCBounded`). `CostInRange` says both.
  `SameCost` needs `AgreeInv`: a node that is neither skipped nor behind has each cost,
  also those it wrote ahead, by the rule that leads from slot to slot (`Follows`), in
  which the traffic is that of all messages issued and not of those it stored. The two
  are equal when the node counts (`CountsTraffic`), and stay equal because a new message is of
  the current slot and no boundary up to now counts that (`TrafficFixed`). That a
  period has one boundary (`BoundaryAlone`) keeps the costs written ahead in line.

  `PaidMessagesAccepted` is about any receiver. What a node paid is a cost it still has
  (`PaidAtCost`), so it is enough that no node has a higher cost than one that is not
  misled (`CostsBelow`). That follows from `LenientInv`: each cost a node has is at most
  what the rule makes of its cost for the slot before (`NotAbove`), which is taken for
  `RMCmin` at least (`Lifted`), with the traffic of all messages. It may be less, because
  a skipped slot is taken for zero and a message that is not stored is not counted
  (`CountsAtMostTraffic`), and stays less because coming to a slot only raises costs
  (`NewRMCRaises`) and `Updated` is monotone (`UpdatedMonotone`).

  Its second half is about the round robin: `NoCredit` and `BoundedOvertaking`. The
  history variable alone does not explain how long an issuer waits. `WaitInv` therefore says
  of each issuer that there are numbers that explain its count (`Waits`): how many
  messages each other issuer sent since the wait began, and what the rounds and laps
  brought the waiting one. The latter is never more than the work and one quantum, because
  whoever is served needs no more rounds than the waiting issuer, and if as many, the
  ring comes to it first (`GainOfWaiting`). What another issuer sent, with the deficit it has
  left, is at most the cap and its share of the same rounds (`GainsProportional`) and
  laps, but for one lap: the ring passes an issuer more often than the waiting one only if
  it still had to come by it (`LapsBalance`). The premise `Exact` is that the divisions by
  the quanta lose nothing in the states the system comes to: the module rounds down,
  which the code's fractions do not, and with rounding down an issuer with a small
  quantum gains less than its share. `WholeOvertakingBounded` replaces it by a condition
  on the constants that implies it and that the run's instance fulfils: the work and the
  cap are whole numbers of every quantum.
* `MBSchedulerProofs`. The queue fits the buffer and the places of a message are
  disjoint (`BufferBounded`), because every set `Trims` leaves has the size of the
  buffer at most; no waiting message is ready (`NothingWaitsReady`), because
  `Promoted` takes all children that an eligible message completes; the mana of
  the node itself is not negative (`NoDebt`). The last needs that the largest burn
  of a finite queue exists and is a number (`LargestExists`, by well-foundedness).
  The ledger (`LedgerInv`) is balanced per issuer: creating a message adds
  it to the sum of the issuer's burns and takes the same from its account, scheduling one
  does so for the messages of the others, a tick adds to both sides. `GreedyMessagesKept`
  follows from how `Trims` and `Less` are defined.

Some theorems state an invariant that no run lists, since the proof says more: the
`TypeOK`s, `LatestOpinion`, `NoSilentStall`, `ApproversExact`, `InRange` and
`DeficitsInRange`, `NoneLost`, `NothingStuck`, `BufferBounded`, `NothingWaitsReady`, `NoDebt`.

Only model-checked, and why: `EventualOpinion`, `NobodyStarves`, `AllPassedOn`, `PassedOnUnlessDropped`,
`StoredBecomesSolid`, `EveryMessageArrives`, `SetupEnds`. They are liveness under
fairness, which is out of the prover's reach. All other properties of the passing runs are
proved.

## 6. Where code and documentation disagree

`opinion_race` ends with a counterexample: opinion_manager.go:150 has counter and
opinion updated together, while `SetOpinion` announces the change from the opinion
it read and writes afterwards, in the main goroutine (`SimulateDoubleSpent`,
`main.go:1362`), and `FormOpinion` of the same node, in the goroutine of the peer,
changes the opinion in between. The counter of the opinions is off from
then on.

Plain from the code, without a run:

* `same_opinion.go:26` installs the shifting manager, while config/types.go:143
  says that type 2 "keeps the same opinion". OpinionManager has the shifting one.
* `icca_scheduler.go:129` passes a validation block on at once and queues it as
  well, while line 128 says that it skips the scheduler. ICCAScheduler has both,
  and `PassedOnOnce` is about regular messages.
* `tipmanager.go:369` passes the message to `tips.Delete`, while the map is keyed by
  its identifier, so the old tips of line 367 stay. A pool in which all tips are
  too old makes `RURTS.TipSelect` draw for ever, and the goroutine of the peer with
  it (`TipManager` states safety only: rounds that change nothing). Deleting them
  as intended is not enough: the variant `DrawDeletes_X`, which does, leaves a
  message without parents, because only a pool that is empty before the first round
  falls back to `Genesis`.
* README.md:42 says of a message whose parents have different colours that the node
  "deems it invalid and drops it", while `MessageInvalid` (`booker.go:38`) has no
  handler and the message stays stored and solid.
* models.go:229 says of two colours with the same weight that "the larger color
  value opinion" wins, and README.md:48 "In case of a tie the color with the maximal
  number will be the winner", while `getMaxOpinion` (`opinion_manager.go:181`) takes the
  smaller one. `OpinionManager` has what the code does; `EventualOpinion` leaves open
  which of the heaviest colours wins and says that all honest nodes end with the same.
* scheduler.go:119 says that less means "more mana burned/older issue time", while
  `Less` (`scheduler.go:94`, and line 129 for the queues of the issuers) compares
  `IssuanceTime.Nanosecond()`, which is only the fraction within the second. An older
  message may therefore be the lesser or the greater one; MBScheduler and
  ICCAScheduler leave the order of the fractions open.
* config/types.go:83 calls the threshold one "above which messages are considered
  confirmed", while `approvalweight_manager.go:63` confirms at a weight equal to it.
* README.md:31 says that a message "automatically receives the weight" of its
  issuer, while `approvalweight_manager.go:47` returns early for all but validation
  messages.

Met while modelling, and contradicted by no text:

* `main.go:216`: nothing calls `SimulateAdversarialBehaviour`. Its double spends are
  those of `SimulateDoubleSpent` (`main.go:1341`), which `main` calls; its case
  "Blowball" has no counterpart there, so a blowball only comes from the ordinary
  issuing of the attacker (`main.go:321`).
* `main.go:207`: peers up to identifier ValidatorCount inclusive issue validation
  messages, one more than there are validators.
* `opinion_manager.go:138`: a confirmed colour stays confirmed when its weight falls
  under the threshold without the opinion changing.
* `simulation/counter.go:118`: `AtomicCounters.Add` adds to a local copy, so `flips`
  stays zero.
* `main.go:509`, `541`: the checks that a message was counted more than once per
  node compare with `>` before counting and let one too many pass; `storedMessages`
  is only set when the second node stores a message (line 513).
* `no_gossip.go`: a NoGossip node attaches handlers that do nothing next to those of
  an honest node, and gossips.
* `manaburn_scheduler.go` and `icca_scheduler.go`: a blowball message burns nothing
  and is refused by every `Store` under a positive RMC.
* `network/peer.go:117`: `Send` draws a new delay for each packet; `SetDelay` has no
  effect on it.
* `main.go:60`, `82-96`: the counters' slices are made before the command line is
  parsed and have the length of the default NodesCount.
* `main.go:159`: nothing sends `shutdownSignal`; a run always lasts
  SimulationDuration.
* `main.go:1082`: handlers of all peers read and write `mostLikedColor` without a lock.

## 7. What is not modelled

* The pace of `issueMessages`, its congestion periods and `RateSetter`: a payload
  may come at any time, which allows all of them.
* The order in which the handlers of one event run is that of `Attach`; the library
  `hive.go/events` is not part of the repository.
* That a blowball is created and processed in the goroutine that issues it, while
  the attacker's own goroutine handles messages: a data race on the whole Tangle of
  that peer, with no outcome worth a property.
* A scheduler in `Gossip`, and the composition of a whole node: the modules meet in
  what each assumes of the other (`ColorAgreement` for the colours, `SolidIsConeStored`
  for Gossip, arbitrary confirmation in both schedulers, arbitrary scheduling in
  TipManager).
* The CSV writers and result dumps, `MetricsManager` (its use is commented out), the
  other parameters of the command line, the logger, the Python scripts.
* `weakTips` of the tip sets stay empty in the code, whose calls that fill them are
  commented out; the modules allow weak references all the same. `acceptedSlotDB`
  is only written. Metric events carry no state back.
* Floating point: deficits, mana and shares are whole numbers of a small unit.

## 8. The plan

Done, in this order, the most important behaviour first: Tangle, OpinionManager,
ApprovalWeight, DeficitRoundRobin with Overtaking and ICCAScheduler, TipManager,
ManaCost, MBScheduler, Gossip, Setup, each with proofs of all its safety properties and
of the refinement.

Open: ApprovalWeight in place of the stand-in for confirmation in Gossip; a bound on
overtaking that accounts for what rounding loses; whether `Exact` follows from weaker
conditions on the quanta.
